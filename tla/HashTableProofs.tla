--------------------------- MODULE HashTableProofs ---------------------------
(* Proofs about HashTable for any number of tables, cells, keys and values:*)
(* type correctness, sharing only under the cow flag, write isolation;     *)
(* then the list inside each table, its index maps and the cursors.        *)
EXTENDS HashTable, Iteration, FiniteSetTheorems, TLAPS

(* A step of a table t ends in Commit(t, s, r, h): the fields of t become  *)
(* r and the content of one store s becomes h.  The helpers are typed one  *)
(* by one; then each action needs r \in Table, h \in Store and that no     *)
(* other table lives in s.                                                 *)


-----------------------------------------------------------------------------
(* Types of the helpers.                                                   *)

LEMMA AtType == ASSUME NEW s \in Stores, NEW n \in Links PROVE At(s, n) \in Cursor
BY BoundsAssumption DEF At, Cursor, Links, Slots

LEMMA EmptyTypes == /\ FreeCell \in Cell
                    /\ EmptyStore \in Store
                    /\ NoTable \in Table
                    /\ \A s \in Stores : NewTable(s) \in Table
<1>1. 0 \in Links /\ 0 \in Keys /\ 0 \in IntKeys /\ Stores \subseteq 0..MaxStores /\ 0 \in 0..MaxStores
  BY BoundsAssumption DEF Links, Keys, IntKeys, Stores
<1>2. FreeCell \in Cell
  BY <1>1 DEF FreeCell, Cell
<1>3. EmptyStore \in Store
  BY <1>1, <1>2 DEF EmptyStore, Store
<1>4. NoTable \in Table
  BY <1>1 DEF NoTable, Table, Cursor
<1>5. ASSUME NEW s \in Stores PROVE NewTable(s) \in Table
  <2>1. s \in 0..MaxStores
    BY <1>1
  <2> QED BY <1>4, <2>1 DEF NewTable, Table
<1> QED BY <1>2, <1>3, <1>4, <1>5

(* A table stays one when a field is given a value of its type.            *)
LEMMA FieldTypes ==
    ASSUME NEW r \in Table
    PROVE /\ \A x \in 0..MaxStores : [r EXCEPT !.store = x] \in Table
          /\ \A x \in Links : [r EXCEPT !.first = x] \in Table
          /\ \A x \in Links : [r EXCEPT !.last = x] \in Table
          /\ \A x \in IntKeys : [r EXCEPT !.inc = x] \in Table
          /\ \A x \in BOOLEAN : [r EXCEPT !.incInit = x] \in Table
          /\ \A x \in Int : [r EXCEPT !.count = x] \in Table
          /\ \A x \in BOOLEAN : [r EXCEPT !.cow = x] \in Table
          /\ \A x \in Cursor : [r EXCEPT !.main = x] \in Table
<1>1. \A x \in 0..MaxStores : [r EXCEPT !.store = x] \in Table
  BY DEF Table
<1>2. \A x \in Links : [r EXCEPT !.first = x] \in Table
  BY DEF Table
<1>3. \A x \in Links : [r EXCEPT !.last = x] \in Table
  BY DEF Table
<1>4. \A x \in IntKeys : [r EXCEPT !.inc = x] \in Table
  BY DEF Table
<1>5. \A x \in BOOLEAN : [r EXCEPT !.incInit = x] \in Table
  BY DEF Table
<1>6. \A x \in Int : [r EXCEPT !.count = x] \in Table
  BY DEF Table
<1>7. \A x \in BOOLEAN : [r EXCEPT !.cow = x] \in Table
  BY DEF Table
<1>8. \A x \in Cursor : [r EXCEPT !.main = x] \in Table
  BY DEF Table
<1> QED BY <1>1, <1>2, <1>3, <1>4, <1>5, <1>6, <1>7, <1>8

LEMMA ChainType == \A h, n : Chain(h, n) \subseteq Slots
BY DEF Chain

LEMMA CopyType ==
    ASSUME NEW h \in Store, NEW n PROVE Copy(h, n) \in Store
<1> DEFINE C == Chain(h, n)
           at(k) == {m \in C : h.cells[m].k = k}
           idx == [k \in Keys |-> IF at(k) = {} THEN 0 ELSE CHOOSE m \in at(k) : TRUE]
           cells == [m \in Slots |-> IF m \in C THEN h.cells[m] ELSE FreeCell]
<1>1. C \subseteq Slots
  BY ChainType
<1>2. cells \in [Slots -> Cell]
  BY EmptyTypes DEF Store
<1>3. ASSUME NEW k \in Keys PROVE (IF at(k) = {} THEN 0 ELSE CHOOSE m \in at(k) : TRUE) \in Links
  <2>1. at(k) \subseteq Slots
    BY <1>1
  <2>2. CASE at(k) = {}
    BY <2>2, BoundsAssumption DEF Links
  <2>3. CASE at(k) # {}
    <3>1. (CHOOSE m \in at(k) : TRUE) \in at(k)
      BY <2>3
    <3> QED BY <2>1, <2>3, <3>1 DEF Links, Slots
  <2> QED BY <2>2, <2>3
<1>4. idx \in [Keys -> Links]
  <2> HIDE DEF at
  <2> QED BY <1>3
<1>5. Copy(h, n) = [cells |-> cells, idx |-> idx]
  BY DEF Copy
<1> HIDE DEF cells, idx
<1> QED BY <1>2, <1>4, <1>5 DEF Store

LEMMA CopiedTableType ==
    ASSUME TypeOK, NEW t \in Tables, NEW s \in Stores PROVE CopiedTable(t, s) \in Table
<1>1. tab[t] \in Table
  BY DEF TypeOK
<1>2. ASSUME tab[t].main.n \in Chain(heap[tab[t].store], tab[t].first)
      PROVE At(s, tab[t].main.n) \in Cursor
  BY <1>2, AtType, ChainType DEF Links, Slots
<1> DEFINE c == IF /\ tab[t].main.s = tab[t].store
                   /\ tab[t].main.n \in Chain(heap[tab[t].store], tab[t].first)
                THEN At(s, tab[t].main.n) ELSE tab[t].main
           r1 == [tab[t] EXCEPT !.store = s]
           r2 == [r1 EXCEPT !.cow = FALSE]
<1>3. c \in Cursor
  BY <1>1, <1>2 DEF Table
<1>4. r1 \in Table
  BY <1>1, FieldTypes DEF Stores
<1>5. r2 \in Table
  <2> HIDE DEF r1
  <2> QED BY <1>4, FieldTypes
<1>6. [r2 EXCEPT !.main = c] \in Table
  <2> HIDE DEF r2, c
  <2> QED BY <1>3, <1>5, FieldTypes
<1>7. CopiedTable(t, s) = [r2 EXCEPT !.main = c]
  BY DEF CopiedTable
<1> QED BY <1>6, <1>7

LEMMA PrivateType ==
    ASSUME TypeOK, NEW t \in Tables, NEW s \in Stores, tab[t].live
    PROVE /\ Private(t, s) \in Table
          /\ PrivateStore(t) \in Store
<1>1. /\ tab[t] \in Table
      /\ heap[tab[t].store] \in Store
  BY DEF TypeOK
<1> QED BY <1>1, CopyType, CopiedTableType DEF Private, PrivateStore

LEMMA AppendCellType ==
    ASSUME NEW h \in Store, NEW last \in Links, NEW n \in Slots, NEW k \in Keys,
           NEW v \in Vals \cup {None}
    PROVE AppendCell(h, last, n, k, v) \in Store
<1> DEFINE cell(m) == CASE m = n -> [prev |-> last, next |-> 0, k |-> k, v |-> v, st |-> "live"]
                        [] m = last /\ m # n -> [h.cells[m] EXCEPT !.next = n]
                        [] OTHER -> h.cells[m]
<1>1. n \in Links /\ 0 \in Links
  BY BoundsAssumption DEF Links, Slots
<1>2. ASSUME NEW m \in Slots PROVE cell(m) \in Cell
  <2>1. h.cells[m] \in Cell
    BY DEF Store
  <2> QED BY <1>1, <2>1 DEF Cell
<1>3. [m \in Slots |-> cell(m)] \in [Slots -> Cell]
  <2> HIDE DEF cell
  <2> QED BY <1>2
<1>4. [h.idx EXCEPT ![k] = n] \in [Keys -> Links]
  BY <1>1 DEF Store
<1>5. AppendCell(h, last, n, k, v) = [cells |-> [m \in Slots |-> cell(m)],
                                     idx |-> [h.idx EXCEPT ![k] = n]]
  BY DEF AppendCell
<1> HIDE DEF cell
<1> QED BY <1>3, <1>4, <1>5 DEF Store

LEMMA AppendedType ==
    ASSUME NEW r \in Table, NEW s \in Stores, NEW n \in Slots
    PROVE Appended(r, s, n) \in Table
<1>1. n \in Links
  BY DEF Links, Slots
<1>2. At(s, n) \in Cursor
  BY <1>1, AtType
<1> DEFINE first == IF r.last = 0 THEN n ELSE r.first
           main == IF r.last = 0 \/ r.main = PastEnd THEN At(s, n) ELSE r.main
           r1 == [r EXCEPT !.count = r.count + 1]
           r2 == [r1 EXCEPT !.first = first]
           r3 == [r2 EXCEPT !.last = n]
<1>3. r.count + 1 \in Int /\ first \in Links /\ main \in Cursor
  BY <1>1, <1>2 DEF Table
<1> HIDE DEF first, main
<1>4. r1 \in Table
  BY <1>3, FieldTypes
<1> HIDE DEF r1
<1>5. r2 \in Table
  BY <1>3, <1>4, FieldTypes
<1> HIDE DEF r2
<1>6. r3 \in Table
  BY <1>1, <1>5, FieldTypes
<1> HIDE DEF r3
<1>7. [r3 EXCEPT !.main = main] \in Table
  BY <1>3, <1>6, FieldTypes
<1> QED BY <1>7 DEF Appended, r1, r2, r3, first, main

LEMMA AdvancedType ==
    ASSUME NEW r \in Table, NEW k \in Keys PROVE Advanced(r, k) \in Table
<1>1. ASSUME k \in IntKeys PROVE (IF k < MaxInt THEN k + 1 ELSE k) \in IntKeys
  BY <1>1, BoundsAssumption DEF IntKeys
<1> DEFINE x == IF k < MaxInt THEN k + 1 ELSE k
           r1 == [r EXCEPT !.incInit = TRUE]
<1>2. r1 \in Table
  BY FieldTypes
<1>3. ASSUME k \in IntKeys PROVE [r1 EXCEPT !.inc = x] \in Table
  <2> HIDE DEF r1, x
  <2> QED BY <1>1, <1>2, <1>3, FieldTypes DEF x
<1> QED BY <1>3 DEF Advanced

LEMMA UnlinkCellType ==
    ASSUME NEW h \in Store, NEW n \in Slots PROVE UnlinkCell(h, n) \in Store
<1> DEFINE p == h.cells[n].prev
           q == h.cells[n].next
           cell(m) == CASE m = n -> [h.cells[m] EXCEPT !.st = "dead", !.k = 0, !.v = None]
                        [] m = p /\ m # n -> [h.cells[m] EXCEPT !.next = q]
                        [] m = q /\ m # n /\ m # p -> [h.cells[m] EXCEPT !.prev = p]
                        [] OTHER -> h.cells[m]
<1>1. p \in Links /\ q \in Links /\ h.cells[n].k \in Keys
  BY DEF Store, Cell
<1>2. 0 \in Keys /\ 0 \in Links
  BY BoundsAssumption DEF Keys, IntKeys, Links
<1>3. ASSUME NEW m \in Slots PROVE cell(m) \in Cell
  <2>1. h.cells[m] \in Cell
    BY DEF Store
  <2> HIDE DEF p, q
  <2> QED BY <1>1, <1>2, <2>1 DEF Cell
<1>4. [m \in Slots |-> cell(m)] \in [Slots -> Cell]
  <2> HIDE DEF cell
  <2> QED BY <1>3
<1>5. [h.idx EXCEPT ![h.cells[n].k] = 0] \in [Keys -> Links]
  BY <1>1, <1>2 DEF Store
<1>6. UnlinkCell(h, n) = [cells |-> [m \in Slots |-> cell(m)],
                          idx |-> [h.idx EXCEPT ![h.cells[n].k] = 0]]
  BY DEF UnlinkCell
<1> HIDE DEF cell
<1> QED BY <1>4, <1>5, <1>6 DEF Store

LEMMA UnlinkedType ==
    ASSUME NEW r \in Table, NEW h \in Store, NEW n \in Slots
    PROVE Unlinked(r, h, n) \in Table
<1>1. h.cells[n].next \in Links /\ h.cells[n].prev \in Links
  BY DEF Store, Cell
<1> DEFINE first == IF r.first = n THEN h.cells[n].next ELSE r.first
           last == IF r.last = n THEN h.cells[n].prev ELSE r.last
           r1 == [r EXCEPT !.count = r.count - 1]
           r2 == [r1 EXCEPT !.first = first]
<1>2. r.count - 1 \in Int /\ first \in Links /\ last \in Links
  BY <1>1 DEF Table
<1> HIDE DEF first, last
<1>3. r1 \in Table
  BY <1>2, FieldTypes
<1> HIDE DEF r1
<1>4. r2 \in Table
  BY <1>2, <1>3, FieldTypes
<1> HIDE DEF r2
<1>5. [r2 EXCEPT !.last = last] \in Table
  BY <1>2, <1>4, FieldTypes
<1> QED BY <1>5 DEF Unlinked, r1, r2, first, last

LEMMA SubsetSize ==
    ASSUME NEW S \in SUBSET Slots PROVE Cardinality(S) \in 0..MaxSlots
<1>1. IsFiniteSet(Slots) /\ Cardinality(Slots) = MaxSlots
  BY FS_Interval, BoundsAssumption DEF Slots
<1>2. Cardinality(S) <= Cardinality(Slots) /\ IsFiniteSet(S)
  BY <1>1, FS_Subset
<1> QED BY <1>1, <1>2, FS_CardinalityType, BoundsAssumption

LEMMA SizeIsKey == ASSUME NEW c \in 0..MaxSlots PROVE c \in IntKeys /\ c \in Keys
BY BoundsAssumption DEF IntKeys, Keys

LEMMA NewKeyType == \A h, f, n : NewKey(h, f, n) \in Keys
<1>1. \A h, f, n : IntsBefore(h, f, n) \in SUBSET Slots
  BY DEF IntsBefore
<1> QED BY <1>1, SubsetSize, SizeIsKey DEF NewKey

LEMMA RenumberType ==
    ASSUME NEW h \in Store, NEW f PROVE Renumber(h, f) \in Store
<1> DEFINE I == IntCells(h, f)
           at(k) == {n \in I : NewKey(h, f, n) = k}
           cell(n) == IF n \in I THEN [h.cells[n] EXCEPT !.k = NewKey(h, f, n)] ELSE h.cells[n]
           link(k) == IF k \notin IntKeys THEN h.idx[k]
                      ELSE IF at(k) = {} THEN 0 ELSE CHOOSE n \in at(k) : TRUE
<1>1. I \subseteq Slots
  BY ChainType DEF IntCells
<1>2. ASSUME NEW n \in Slots PROVE cell(n) \in Cell
  <2>1. h.cells[n] \in Cell /\ NewKey(h, f, n) \in Keys
    BY NewKeyType DEF Store
  <2> HIDE DEF I
  <2> QED BY <2>1 DEF Cell
<1>3. ASSUME NEW k \in Keys PROVE link(k) \in Links
  <2>1. at(k) \subseteq Slots
    BY <1>1
  <2>2. h.idx[k] \in Links
    BY DEF Store
  <2>3. at(k) # {} => (CHOOSE n \in at(k) : TRUE) \in at(k)
    <3> HIDE DEF at
    <3> QED OBVIOUS
  <2>4. 0 \in Links /\ Slots \subseteq Links
    BY BoundsAssumption DEF Links, Slots
  <2> HIDE DEF at
  <2> QED BY <2>1, <2>2, <2>3, <2>4
<1>4. [n \in Slots |-> cell(n)] \in [Slots -> Cell]
  <2> HIDE DEF cell
  <2> QED BY <1>2
<1>5. [k \in Keys |-> link(k)] \in [Keys -> Links]
  <2> HIDE DEF link
  <2> QED BY <1>3
<1>6. Renumber(h, f) = [cells |-> [n \in Slots |-> cell(n)], idx |-> [k \in Keys |-> link(k)]]
  BY DEF Renumber
<1> HIDE DEF cell, link
<1> QED BY <1>4, <1>5, <1>6 DEF Store

LEMMA RenumberedType ==
    ASSUME NEW r \in Table, NEW h PROVE Renumbered(r, h) \in Table
<1>1. IntCells(h, r.first) \in SUBSET Slots
  BY ChainType DEF IntCells
<1>2. Cardinality(IntCells(h, r.first)) \in IntKeys
  BY <1>1, SubsetSize, SizeIsKey
<1> QED BY <1>2, FieldTypes DEF Renumbered

LEMMA NextKeyType ==
    ASSUME NEW r \in Table, NEW h PROVE NextKey(r, h) \in IntKeys
<1> DEFINE least == {k \in FreeKeys(r, h) : \A j \in FreeKeys(r, h) : k <= j}
<1>1. least \subseteq IntKeys
  BY BoundsAssumption DEF FreeKeys, Table, IntKeys
<1>2. MaxInt \in IntKeys
  BY BoundsAssumption DEF IntKeys
<1>3. NextKey(r, h) = IF least = {} THEN MaxInt ELSE CHOOSE k \in least : TRUE
  BY DEF NextKey
<1> HIDE DEF least
<1> QED BY <1>1, <1>2, <1>3

LEMMA SettledType ==
    ASSUME NEW hp, NEW c \in Cursor PROVE Settled(hp, c) \in Cursor
<1>1. \A h, n : SettledLink(h, n) \in Links
  <2> TAKE h, n
  <2> DEFINE dead(i) == Walk(h, n)[i] # 0 /\ h.cells[Walk(h, n)[i]].st = "dead"
             first == {m \in Slots : \E i \in 0..MaxSlots :
                         Walk(h, n)[i] = m /\ ~ dead(i) /\ \A j \in 0..(i - 1) : dead(j)}
  <2>1. first \subseteq Slots
    OBVIOUS
  <2>2. SettledLink(h, n) = IF first = {} THEN 0 ELSE CHOOSE m \in first : TRUE
    BY DEF SettledLink
  <2>3. 0 \in Links /\ Slots \subseteq Links
    BY BoundsAssumption DEF Links, Slots
  <2> HIDE DEF first
  <2> QED BY <2>1, <2>2, <2>3
<1>2. CASE c.n = 0
  BY <1>2 DEF Settled, Cursor
<1>3. CASE c.n # 0
  <2>1. c.s \in Stores
    BY <1>3 DEF Cursor, PastEnd
  <2> QED BY <1>1, <1>3, <2>1, AtType DEF Settled
<1> QED BY <1>2, <1>3

LEMMA NextCursorType ==
    ASSUME TypeOK, NEW c \in Cursor PROVE NextCursor(c) \in Cursor
<1>1. CASE c = PastEnd
  BY <1>1 DEF NextCursor, Cursor
<1>2. CASE c # PastEnd
  <2>1. c.s \in Stores /\ c.n \in Slots
    BY <1>2 DEF Cursor
  <2>2. heap[c.s].cells[c.n].next \in Links
    BY <2>1 DEF TypeOK, Store, Cell
  <2>3. At(c.s, heap[c.s].cells[c.n].next) \in Cursor
    BY <2>1, <2>2, AtType
  <2> QED BY <1>2, <2>3, SettledType DEF NextCursor
<1> QED BY <1>1, <1>2

LEMMA PrevCursorType ==
    ASSUME TypeOK, NEW t \in Tables, tab[t].live PROVE PrevCursor(t) \in Cursor
<1>1. \A h, n : BackOver(h, n) \in Links
  <2>1. Slots \subseteq Links /\ 0 \in Links
    BY BoundsAssumption DEF Links, Slots
  <2> QED BY <2>1 DEF BackOver
<1>2. tab[t].main \in Cursor /\ tab[t].store \in Stores
  BY DEF TypeOK, Table
<1> DEFINE c == tab[t].main
           b == BackOver(heap[c.s], c.n)
<1>3. CASE c = PastEnd
  <2>1. PrevCursor(t) = At(tab[t].store, BackOver(heap[tab[t].store], tab[t].last))
    BY <1>3 DEF PrevCursor
  <2> QED BY <1>1, <1>2, <2>1, AtType
<1>4. CASE c # PastEnd
  <2>1. c.s \in Stores
    BY <1>2, <1>4 DEF Cursor
  <2>2. At(c.s, BackOver(heap[c.s], heap[c.s].cells[b].prev)) \in Cursor
    BY <1>1, <2>1, AtType
  <2>3. PastEnd \in Cursor
    BY DEF Cursor
  <2>4. PrevCursor(t) = IF b = 0 THEN PastEnd
                        ELSE At(c.s, BackOver(heap[c.s], heap[c.s].cells[b].prev))
    BY <1>4 DEF PrevCursor
  <2> HIDE DEF b
  <2> QED BY <2>2, <2>3, <2>4
<1> QED BY <1>3, <1>4

-----------------------------------------------------------------------------
(* What a step of one table leaves of the others.                          *)

Inv == TypeOK /\ SharedStoreIsCow

(* Only t may hold something else after the step.                          *)
OthersKept(t) ==
    \A u \in Tables : u # t /\ tab[u].live /\ tab'[u].live => View(u)' = View(u)

LEMMA SweptFacts ==
    ASSUME NEW h \in Store
    PROVE /\ Swept(h) \in Store
          /\ Swept(h).idx = h.idx
          /\ LiveCells(Swept(h)) = LiveCells(h)
<1> DEFINE cells == [n \in Slots |-> IF h.cells[n].st = "dead"
                                     THEN [FreeCell EXCEPT !.st = "dead"] ELSE h.cells[n]]
<1>1. [FreeCell EXCEPT !.st = "dead"] \in Cell /\ [FreeCell EXCEPT !.st = "dead"].st = "dead"
  BY EmptyTypes DEF Cell
<1>2. cells \in [Slots -> Cell]
  BY <1>1 DEF Store
<1>3. Swept(h) = [h EXCEPT !.cells = cells]
  BY DEF Swept
<1>4. Swept(h) \in Store /\ Swept(h).idx = h.idx /\ Swept(h).cells = cells
  <2> HIDE DEF cells
  <2> QED BY <1>2, <1>3 DEF Store
<1>5. \A n \in Slots : (h.cells[n].st = "live" => cells[n] = h.cells[n])
                       /\ (cells[n].st = "live" <=> h.cells[n].st = "live")
  BY <1>1
<1>6. LiveCells(Swept(h)) = LiveCells(h)
  <2> HIDE DEF cells
  <2> QED BY <1>4, <1>5 DEF LiveCells
<1> QED BY <1>4, <1>6

LEMMA CollectedType ==
    ASSUME NEW hp, hp \in [Stores -> Store] PROVE Collected(hp) \in [Stores -> Store]
<1>1. \A s \in Stores : hp[s] \in Store /\ Swept(hp[s]) \in Store /\ EmptyStore \in Store
  BY SweptFacts, EmptyTypes
<1> QED BY <1>1 DEF Collected

LEMMA CollectedKeeps ==
    ASSUME NEW hp, hp \in [Stores -> Store], NEW u \in Tables, tab'[u].store \in Stores
    PROVE /\ Collected(hp)[tab'[u].store].idx = hp[tab'[u].store].idx
          /\ LiveCells(Collected(hp)[tab'[u].store]) = LiveCells(hp[tab'[u].store])
<1> DEFINE s == tab'[u].store
<1>1. Collected(hp)[s] = hp[s] \/ Collected(hp)[s] = Swept(hp[s])
  BY DEF Collected
<1>2. hp[s] \in Store
  OBVIOUS
<1> HIDE DEF s
<1>3. Collected(hp)[s].idx = hp[s].idx /\ LiveCells(Collected(hp)[s]) = LiveCells(hp[s])
  BY <1>1, <1>2, SweptFacts
<1> QED BY <1>3 DEF s

(* A commit to a store no other table lives in keeps the invariant and     *)
(* the other tables.                                                       *)
LEMMA CommitStep ==
    ASSUME Inv, NEW t \in Tables, NEW s \in Stores, NEW r \in Table, NEW h \in Store,
           r.store = s, its' \in [Iters -> Iter \cup {NoIter}],
           \A u \in Tables : u # t /\ tab[u].live => tab[u].store # s,
           Commit(t, s, r, h)
    PROVE Inv' /\ OthersKept(t)
<1> DEFINE hp == [heap EXCEPT ![s] = h]
<1>1. hp \in [Stores -> Store]
  BY DEF Inv, TypeOK
<1>2. heap' = Collected(hp) /\ tab' = [tab EXCEPT ![t] = r]
  BY DEF Commit
<1>3. tab' \in [Tables -> Table] /\ tab'[t] = r
  BY <1>2 DEF Inv, TypeOK
<1>4. \A u \in Tables : u # t => tab'[u] = tab[u]
  BY <1>2 DEF Inv, TypeOK
<1>5. heap' \in [Stores -> Store]
  BY <1>1, <1>2, CollectedType
<1>6. TypeOK'
  <2>1. \A u \in Tables : tab'[u].live => tab'[u].store \in Stores
    BY <1>3, <1>4 DEF Inv, TypeOK
  <2> QED BY <1>3, <1>5, <2>1 DEF TypeOK
<1>7. SharedStoreIsCow'
  <2> SUFFICES ASSUME NEW u \in Tables, NEW w \in Tables, u # w, tab'[u].live, tab'[w].live,
                      tab'[u].store = tab'[w].store
               PROVE tab'[u].cow /\ tab'[w].cow
    BY DEF SharedStoreIsCow
  <2>1. u # t /\ w # t
    BY <1>3, <1>4
  <2> QED BY <1>4, <2>1 DEF Inv, SharedStoreIsCow
<1>8. ASSUME NEW u \in Tables, u # t, tab[u].live, tab'[u].live PROVE View(u)' = View(u)
  <2>1. tab'[u] = tab[u] /\ tab[u].store \in Stores /\ tab[u].store # s
    BY <1>4, <1>8 DEF Inv, TypeOK
  <2>2. hp[tab[u].store] = heap[tab[u].store]
    BY <2>1 DEF Inv, TypeOK
  <2>3. /\ Collected(hp)[tab'[u].store].idx = hp[tab'[u].store].idx
        /\ LiveCells(Collected(hp)[tab'[u].store]) = LiveCells(hp[tab'[u].store])
    BY <1>1, <2>1, CollectedKeeps
  <2>4. LiveCells(heap[tab[u].store])' = LiveCells(heap'[tab'[u].store])
    BY DEF LiveCells
  <2> HIDE DEF hp
  <2> QED BY <1>2, <2>1, <2>2, <2>3, <2>4 DEF View
<1> QED BY <1>6, <1>7, <1>8 DEF Inv, OthersKept

(* A step that leaves every table where it is, up to cow flags that only   *)
(* rise, main iterators and tables that end.                               *)
LEMMA QuietStep ==
    ASSUME Inv, NEW t \in Tables, NEW r \in Table, its' \in [Iters -> Iter \cup {NoIter}],
           tab' = [tab EXCEPT ![t] = r], heap' = Collected(heap),
           r = NoTable \/ (r.live = tab[t].live /\ r.store = tab[t].store /\ r.cow = tab[t].cow)
    PROVE Inv' /\ OthersKept(t)
<1>1. tab' \in [Tables -> Table] /\ tab'[t] = r /\ \A u \in Tables : u # t => tab'[u] = tab[u]
  BY DEF Inv, TypeOK
<1>2. heap' \in [Stores -> Store]
  BY CollectedType DEF Inv, TypeOK
<1>3. TypeOK'
  <2>1. \A u \in Tables : tab'[u].live => tab'[u].store \in Stores
    BY <1>1 DEF Inv, TypeOK, NoTable
  <2> QED BY <1>1, <1>2, <2>1 DEF TypeOK
<1>4. SharedStoreIsCow'
  BY <1>1 DEF Inv, SharedStoreIsCow, NoTable
<1>5. ASSUME NEW u \in Tables, u # t, tab[u].live PROVE View(u)' = View(u)
  <2>1. tab'[u] = tab[u] /\ tab[u].store \in Stores
    BY <1>1, <1>5 DEF Inv, TypeOK
  <2>2. /\ Collected(heap)[tab'[u].store].idx = heap[tab'[u].store].idx
        /\ LiveCells(Collected(heap)[tab'[u].store]) = LiveCells(heap[tab'[u].store])
    BY <2>1, CollectedKeeps DEF Inv, TypeOK
  <2>3. LiveCells(heap[tab[u].store])' = LiveCells(heap'[tab'[u].store])
    BY DEF LiveCells
  <2> QED BY <2>1, <2>2, <2>3 DEF View
<1> QED BY <1>3, <1>4, <1>5 DEF Inv, OthersKept

(* Where t writes after "if z.cow { z.doCopy() }" no other table lives.    *)
LEMMA HomeIsPrivate ==
    ASSUME Inv, NEW t \in Tables, tab[t].live, NEW s \in Stores, Home(t, s)
    PROVE /\ Private(t, s) \in Table
          /\ PrivateStore(t) \in Store
          /\ Private(t, s).store = s
          /\ \A u \in Tables : u # t /\ tab[u].live => tab[u].store # s
<1>1. Private(t, s) \in Table /\ PrivateStore(t) \in Store
  BY PrivateType DEF Inv
<1>2. tab[t] \in Table
  BY DEF Inv, TypeOK
<1>3. CASE tab[t].cow
  <2>1. CopiedTable(t, s).store = s
    BY <1>2 DEF CopiedTable, Table
  <2> QED BY <1>1, <1>3, <2>1 DEF Home, Private, NewStore, FreeStore
<1>4. CASE ~ tab[t].cow
  BY <1>1, <1>4 DEF Home, Private, Inv, SharedStoreIsCow
<1> QED BY <1>1, <1>3, <1>4

LEMMA StoreKept ==
    ASSUME NEW r \in Table
    PROVE /\ \A s, n : Appended(r, s, n).store = r.store
          /\ \A h, n : Unlinked(r, h, n).store = r.store
          /\ \A h : Renumbered(r, h).store = r.store
          /\ \A k : Advanced(r, k).store = r.store
          /\ \A k : SteppedBack(r, k).store = r.store
BY DEF Table, Appended, Unlinked, Renumbered, Advanced, SteppedBack

-----------------------------------------------------------------------------
(* One lemma per action.                                                   *)

LEMMA NewStep == ASSUME Inv, NEW t \in Tables, New(t) PROVE Inv' /\ OthersKept(t)
<1>1. PICK s \in Stores : NewStore(s) /\ Commit(t, s, NewTable(s), EmptyStore)
  BY DEF New
<1>2. NewTable(s) \in Table /\ NewTable(s).store = s /\ EmptyStore \in Store
  BY EmptyTypes DEF NewTable, NoTable
<1> QED BY <1>1, <1>2, CommitStep DEF New, NewStore, FreeStore, Inv, TypeOK

LEMMA DupStep ==
    ASSUME Inv, NEW t \in Tables, NEW u \in Tables, Dup(t, u) PROVE Inv' /\ OthersKept(u)
<1> DEFINE r == [tab[t] EXCEPT !.cow = TRUE]
           q == [r EXCEPT !.incInit = FALSE]
<1>1. tab[t] \in Table /\ t # u /\ tab[t].store \in Stores
  BY DEF Inv, TypeOK, Dup
<1>2. r \in Table /\ q \in Table
  <2>1. r \in Table
    BY <1>1, FieldTypes
  <2> HIDE DEF r
  <2> QED BY <2>1, FieldTypes
<1>3. /\ r.store = tab[t].store /\ r.live = tab[t].live /\ r.cow
      /\ q.store = tab[t].store /\ q.live = tab[t].live /\ q.cow
      /\ r.first = tab[t].first /\ r.last = tab[t].last /\ r.count = tab[t].count
      /\ r.inc = tab[t].inc
  BY <1>1 DEF Table
<1>4. tab' = [tab EXCEPT ![t] = r, ![u] = q]
  BY DEF Dup, Inv, TypeOK
<1> HIDE DEF r, q
<1>5. /\ tab' \in [Tables -> Table] /\ tab'[t] = r /\ tab'[u] = q
      /\ \A w \in Tables : w # t /\ w # u => tab'[w] = tab[w]
  BY <1>1, <1>2, <1>4 DEF Inv, TypeOK
<1>6. heap' = heap /\ its' = its
  BY DEF Dup
<1>7. TypeOK'
  <2>1. \A w \in Tables : tab'[w].live => tab'[w].store \in Stores
    BY <1>1, <1>3, <1>5 DEF Inv, TypeOK
  <2> QED BY <1>5, <1>6, <2>1 DEF Inv, TypeOK
<1>8. SharedStoreIsCow'
  <2>1. tab[t].live
    BY DEF Dup
  <2> QED BY <1>3, <1>5, <2>1 DEF Inv, SharedStoreIsCow
<1>9. ASSUME NEW w \in Tables, w # u PROVE View(w)' = View(w)
  <2>1. LiveCells(heap[tab[w].store])' = LiveCells(heap'[tab'[w].store])
    BY DEF LiveCells
  <2>2. CASE w = t
    BY <1>3, <1>5, <1>6, <2>1, <2>2 DEF View
  <2>3. CASE w # t
    BY <1>5, <1>6, <1>9, <2>1, <2>3 DEF View
  <2> QED BY <2>2, <2>3
<1> QED BY <1>7, <1>8, <1>9 DEF Inv, OthersKept

LEMMA DeepCopyStep ==
    ASSUME Inv, NEW t \in Tables, NEW u \in Tables, DeepCopy(t, u)
    PROVE Inv' /\ OthersKept(u)
<1> DEFINE h == Copy(heap[tab[t].store], tab[t].first)
           r1(s) == [tab[t] EXCEPT !.store = s]
           r2(s) == [r1(s) EXCEPT !.cow = FALSE]
           r3(s) == [r2(s) EXCEPT !.incInit = FALSE]
           r4(s) == [r3(s) EXCEPT !.main = At(s, tab[t].first)]
<1>1. PICK s \in Stores : NewStore(s) /\ Commit(u, s, r4(s), h)
  BY DEF DeepCopy
<1>2. tab[t] \in Table /\ heap[tab[t].store] \in Store
  BY DEF DeepCopy, Inv, TypeOK
<1>3. h \in Store /\ At(s, tab[t].first) \in Cursor
  BY <1>2, CopyType, AtType DEF Table
<1>4. r4(s) \in Table
  <2>1. r1(s) \in Table
    BY <1>2, FieldTypes DEF Stores
  <2> HIDE DEF r1
  <2>2. r2(s) \in Table
    BY <2>1, FieldTypes
  <2> HIDE DEF r2
  <2>3. r3(s) \in Table
    BY <2>2, FieldTypes
  <2> HIDE DEF r3
  <2> QED BY <1>3, <2>3, FieldTypes
<1>5. r4(s).store = s
  BY <1>2 DEF Table
<1> HIDE DEF h, r4
<1> QED BY <1>1, <1>3, <1>4, <1>5, CommitStep DEF DeepCopy, NewStore, FreeStore, Inv, TypeOK

LEMMA DropStep == ASSUME Inv, NEW t \in Tables, Drop(t) PROVE Inv' /\ OthersKept(t)
BY QuietStep, EmptyTypes DEF Drop, Inv, TypeOK

LEMMA OverwriteStep ==
    ASSUME Inv, NEW t \in Tables, NEW k \in Keys, NEW v \in Vals, Overwrite(t, k, v)
    PROVE Inv' /\ OthersKept(t)
<1> DEFINE h == PrivateStore(t)
           n == h.idx[k]
<1>1. PICK s \in Stores :
        Home(t, s) /\ n # 0 /\ Commit(t, s, Private(t, s), [h EXCEPT !.cells[n].v = v])
  BY DEF Overwrite
<1>2. tab[t].live /\ its' = its
  BY DEF Overwrite
<1>3. h \in Store
  BY <1>1, <1>2, HomeIsPrivate
<1>4. [h EXCEPT !.cells[n].v = v] \in Store
  <2> HIDE DEF h
  <2>1. n \in Slots
    BY <1>1, <1>3 DEF Store, Links, Slots
  <2> HIDE DEF n
  <2>2. [h.cells[n] EXCEPT !.v = v] \in Cell
    BY <1>3, <2>1 DEF Store, Cell
  <2>3. [h.cells EXCEPT ![n] = [h.cells[n] EXCEPT !.v = v]] \in [Slots -> Cell]
    BY <1>3, <2>2 DEF Store
  <2>4. [h EXCEPT !.cells[n].v = v] = [h EXCEPT !.cells = [h.cells EXCEPT ![n] = [h.cells[n] EXCEPT !.v = v]]]
    BY <1>3 DEF Store
  <2> HIDE DEF n
  <2> QED BY <1>3, <2>3, <2>4 DEF Store
<1> HIDE DEF h, n
<1> QED BY <1>1, <1>2, <1>4, HomeIsPrivate, CommitStep DEF Inv, TypeOK

LEMMA InsertStep ==
    ASSUME Inv, NEW t \in Tables, NEW k \in Keys, NEW v \in Vals, Insert(t, k, v)
    PROVE Inv' /\ OthersKept(t)
<1> DEFINE h == PrivateStore(t)
<1>1. PICK s \in Stores, n \in Slots :
        /\ Home(t, s)
        /\ Commit(t, s, Advanced(Appended(Private(t, s), s, n), k),
                  AppendCell(h, Private(t, s).last, n, k, v))
  BY DEF Insert
<1>2. tab[t].live /\ its' = its
  BY DEF Insert
<1> DEFINE r == Private(t, s)
<1>3. h \in Store /\ r \in Table /\ r.store = s
  BY <1>1, <1>2, HomeIsPrivate
<1> HIDE DEF h, r
<1>4. Appended(r, s, n) \in Table /\ Appended(r, s, n).store = s
  BY <1>3, AppendedType, StoreKept
<1>5. Advanced(Appended(r, s, n), k) \in Table /\ Advanced(Appended(r, s, n), k).store = s
  BY <1>4, AdvancedType, StoreKept
<1>6. AppendCell(h, r.last, n, k, v) \in Store
  BY <1>3, AppendCellType DEF Table
<1> QED BY <1>1, <1>2, <1>5, <1>6, HomeIsPrivate, CommitStep DEF Inv, TypeOK, r, h

LEMMA SeparateStep ==
    ASSUME Inv, NEW t \in Tables, Separate(t) PROVE Inv' /\ OthersKept(t)
<1>1. PICK s \in Stores : Home(t, s) /\ Commit(t, s, Private(t, s), PrivateStore(t))
  BY DEF Separate
<1> QED BY <1>1, HomeIsPrivate, CommitStep DEF Separate, Inv, TypeOK

LEMMA AppendStep ==
    ASSUME Inv, NEW t \in Tables, NEW v \in Vals, Append(t, v) PROVE Inv' /\ OthersKept(t)
<1>1. PICK s \in Stores, n \in Slots :
        /\ Home(t, s)
        /\ LET k == NextKey(Private(t, s), PrivateStore(t))
           IN  Commit(t, s, [Appended(Private(t, s), s, n) EXCEPT
                               !.inc = IF k < MaxInt THEN k + 1 ELSE k],
                      AppendCell(PrivateStore(t), Private(t, s).last, n, k, v))
  BY DEF Append
<1> DEFINE h == PrivateStore(t)
           r == Private(t, s)
           k == NextKey(r, h)
           next == IF k < MaxInt THEN k + 1 ELSE k
           q == [Appended(r, s, n) EXCEPT !.inc = next]
           g == AppendCell(h, r.last, n, k, v)
<1>2. tab[t].live /\ its' \in [Iters -> Iter \cup {NoIter}] /\ Commit(t, s, q, g)
  BY <1>1 DEF Append, Inv, TypeOK
<1>3. /\ h \in Store /\ r \in Table /\ r.store = s
      /\ \A u \in Tables : u # t /\ tab[u].live => tab[u].store # s
  BY <1>1, <1>2, HomeIsPrivate
<1> HIDE DEF h, r
<1>4. k \in IntKeys /\ k \in Keys
  BY <1>3, NextKeyType DEF Keys
<1> HIDE DEF k
<1>5. next \in IntKeys
  BY <1>4, BoundsAssumption DEF IntKeys
<1>6. Appended(r, s, n) \in Table /\ Appended(r, s, n).store = s
  BY <1>3, AppendedType, StoreKept
<1> HIDE DEF next
<1>7. q \in Table /\ q.store = s
  <2> DEFINE p == Appended(r, s, n)
  <2> HIDE DEF p
  <2>1. [p EXCEPT !.inc = next] \in Table /\ [p EXCEPT !.inc = next].store = s
    BY <1>5, <1>6, FieldTypes DEF Table, p
  <2> QED BY <2>1 DEF p
<1>8. g \in Store
  BY <1>3, <1>4, AppendCellType DEF Table
<1> HIDE DEF q, g
<1> QED BY <1>2, <1>3, <1>7, <1>8, CommitStep

LEMMA AppendRefusedStep ==
    ASSUME Inv, NEW t \in Tables, AppendRefused(t) PROVE Inv' /\ OthersKept(t)
<1>1. PICK s \in Stores :
        /\ Home(t, s)
        /\ Commit(t, s, [Private(t, s) EXCEPT !.inc = NextKey(Private(t, s), PrivateStore(t))],
                  PrivateStore(t))
  BY DEF AppendRefused
<1> DEFINE h == PrivateStore(t)
           r == Private(t, s)
           q == [r EXCEPT !.inc = NextKey(r, h)]
<1>2. tab[t].live /\ its' \in [Iters -> Iter \cup {NoIter}] /\ Commit(t, s, q, h)
  BY <1>1 DEF AppendRefused, Inv, TypeOK
<1>3. /\ h \in Store /\ r \in Table /\ r.store = s
      /\ \A u \in Tables : u # t /\ tab[u].live => tab[u].store # s
  BY <1>1, <1>2, HomeIsPrivate
<1> HIDE DEF h, r
<1>4. q \in Table /\ q.store = s
  BY <1>3, NextKeyType, FieldTypes DEF Table
<1> HIDE DEF q
<1> QED BY <1>2, <1>3, <1>4, CommitStep

LEMMA UnsetStep ==
    ASSUME Inv, NEW t \in Tables, NEW k \in Keys, Unset(t, k) PROVE Inv' /\ OthersKept(t)
<1>1. PICK s \in Stores :
        LET h == PrivateStore(t)
        IN  /\ Home(t, s) /\ h.idx[k] # 0
            /\ Commit(t, s, Unlinked(Private(t, s), h, h.idx[k]), UnlinkCell(h, h.idx[k]))
  BY DEF Unset
<1> DEFINE h == PrivateStore(t)
           r == Private(t, s)
           n == h.idx[k]
           q == Unlinked(r, h, n)
           g == UnlinkCell(h, n)
<1>2. /\ tab[t].live /\ its' \in [Iters -> Iter \cup {NoIter}]
      /\ n # 0 /\ Commit(t, s, q, g)
  BY <1>1 DEF Unset, Inv, TypeOK
<1>3. /\ h \in Store /\ r \in Table /\ r.store = s
      /\ \A u \in Tables : u # t /\ tab[u].live => tab[u].store # s
  BY <1>1, <1>2, HomeIsPrivate
<1> HIDE DEF h, r
<1>4. n \in Slots
  BY <1>2, <1>3 DEF Store, Links, Slots
<1> HIDE DEF n
<1>5. q \in Table /\ q.store = s /\ g \in Store
  BY <1>3, <1>4, UnlinkedType, UnlinkCellType, StoreKept
<1> HIDE DEF q, g
<1> QED BY <1>2, <1>3, <1>5, CommitStep

(* A cell marked deleted keeps its links: a cursor on it still has a way   *)
(* back to the list (hashtable.go: UnsetX, Clear).                         *)
LEMMA DeadCell ==
    ASSUME NEW c \in Cell, NEW d, d = [c EXCEPT !.st = "dead", !.k = 0, !.v = None]
    PROVE d \in Cell /\ d.st = "dead" /\ d.next = c.next /\ d.prev = c.prev
<1>1. 0 \in Keys
  BY BoundsAssumption DEF Keys, IntKeys
<1>2. PICK p \in Links, n \in Links, k \in Keys, v \in Vals \cup {None}, st \in {"free", "live", "dead"} :
        c = [prev |-> p, next |-> n, k |-> k, v |-> v, st |-> st]
  BY DEF Cell
<1>3. d = [prev |-> p, next |-> n, k |-> 0, v |-> None, st |-> "dead"]
  BY <1>2
<1>4. d \in Cell
  BY <1>1, <1>3 DEF Cell
<1> QED BY <1>2, <1>3, <1>4

LEMMA ClearStep ==
    ASSUME Inv, NEW t \in Tables, Clear(t) PROVE Inv' /\ OthersKept(t)
<1> DEFINE h == PrivateStore(t)
           indexed == {h.idx[k] : k \in Keys}
           cell(n) == IF n \notin indexed THEN h.cells[n]
                      ELSE [h.cells[n] EXCEPT !.st = "dead", !.k = 0, !.v = None]
           g == [cells |-> [n \in Slots |-> cell(n)], idx |-> [k \in Keys |-> 0]]
           r(s) == Private(t, s)
           r1(s) == [r(s) EXCEPT !.count = 0]
           r2(s) == [r1(s) EXCEPT !.inc = 0]
           r3(s) == [r2(s) EXCEPT !.incInit = FALSE]
           r4(s) == [r3(s) EXCEPT !.first = 0]
           r5(s) == [r4(s) EXCEPT !.last = 0]
           q(s) == [r5(s) EXCEPT !.main = PastEnd]
<1>1. PICK s \in Stores : Home(t, s) /\ Commit(t, s, q(s), g)
  BY DEF Clear
<1>2. tab[t].live /\ its' \in [Iters -> Iter \cup {NoIter}]
  BY DEF Clear, Inv, TypeOK
<1>3. /\ h \in Store /\ r(s) \in Table /\ r(s).store = s
      /\ \A u \in Tables : u # t /\ tab[u].live => tab[u].store # s
  BY <1>1, <1>2, HomeIsPrivate
<1> HIDE DEF h, r
<1>4. 0 \in Links /\ 0 \in IntKeys /\ 0 \in Keys /\ 0 \in Int /\ PastEnd \in Cursor
  BY BoundsAssumption DEF Links, IntKeys, Keys, Cursor
<1>5. g \in Store
  <2>1. ASSUME NEW n \in Slots PROVE cell(n) \in Cell
    <3>1. h.cells[n] \in Cell
      BY <1>3 DEF Store
    <3>2. [h.cells[n] EXCEPT !.st = "dead", !.k = 0, !.v = None] \in Cell
      BY <3>1, DeadCell
    <3> QED BY <3>1, <3>2
  <2> HIDE DEF cell
  <2> QED BY <1>4, <2>1 DEF Store
<1>6. q(s).store = s
  BY <1>3 DEF Table
<1>7. q(s) \in Table
  <2>1. r1(s) \in Table
    BY <1>3, <1>4, FieldTypes
  <2> HIDE DEF r1
  <2>2. r2(s) \in Table
    BY <2>1, <1>4, FieldTypes
  <2> HIDE DEF r2
  <2>3. r3(s) \in Table
    BY <2>2, <1>4, FieldTypes
  <2> HIDE DEF r3
  <2>4. r4(s) \in Table
    BY <2>3, <1>4, FieldTypes
  <2> HIDE DEF r4
  <2>5. r5(s) \in Table
    BY <2>4, <1>4, FieldTypes
  <2> HIDE DEF r5
  <2> QED BY <2>5, <1>4, FieldTypes
<1> HIDE DEF q, g
<1> QED BY <1>1, <1>2, <1>3, <1>5, <1>6, <1>7, CommitStep

LEMMA ArrayShiftStep ==
    ASSUME Inv, NEW t \in Tables, ArrayShift(t) PROVE Inv' /\ OthersKept(t)
<1>1. PICK s \in Stores :
        LET h0 == PrivateStore(t)
            r0 == Private(t, s)
            h1 == UnlinkCell(h0, r0.first)
            r1 == Unlinked(r0, h0, r0.first)
        IN  /\ Home(t, s) /\ r0.first # 0
            /\ Commit(t, s, [Renumbered(r1, h1) EXCEPT !.main = At(s, r1.first)],
                      Renumber(h1, r1.first))
  BY DEF ArrayShift
<1> DEFINE h == PrivateStore(t)
           r == Private(t, s)
           h1 == UnlinkCell(h, r.first)
           r1 == Unlinked(r, h, r.first)
           r2 == Renumbered(r1, h1)
           q == [r2 EXCEPT !.main = At(s, r1.first)]
           g == Renumber(h1, r1.first)
<1>2. /\ tab[t].live /\ its' \in [Iters -> Iter \cup {NoIter}]
      /\ r.first # 0 /\ Commit(t, s, q, g)
  BY <1>1 DEF ArrayShift, Inv, TypeOK
<1>3. /\ h \in Store /\ r \in Table /\ r.store = s
      /\ \A u \in Tables : u # t /\ tab[u].live => tab[u].store # s
  BY <1>1, <1>2, HomeIsPrivate
<1> HIDE DEF h, r
<1>4. r.first \in Slots
  BY <1>2, <1>3 DEF Table, Links, Slots
<1>5. h1 \in Store /\ r1 \in Table /\ r1.store = s
  BY <1>3, <1>4, UnlinkCellType, UnlinkedType, StoreKept
<1> HIDE DEF h1, r1
<1>6. r2 \in Table /\ r2.store = s /\ At(s, r1.first) \in Cursor
  BY <1>5, RenumberedType, StoreKept, AtType DEF Table
<1>7. g \in Store
  BY <1>5, RenumberType
<1> HIDE DEF r2, g
<1>8. q \in Table /\ q.store = s
  BY <1>6, FieldTypes DEF Table
<1> HIDE DEF q
<1> QED BY <1>2, <1>3, <1>7, <1>8, CommitStep

LEMMA ArrayPopStep ==
    ASSUME Inv, NEW t \in Tables, ArrayPop(t) PROVE Inv' /\ OthersKept(t)
<1>1. PICK s \in Stores, n \in Slots :
        LET h == PrivateStore(t)
            r == Private(t, s)
            u == Unlinked(r, h, n)
        IN  /\ Home(t, s)
            /\ Commit(t, s, [SteppedBack(u, h.cells[n].k) EXCEPT !.main = At(s, u.first)],
                      UnlinkCell(h, n))
  BY DEF ArrayPop
<1> DEFINE h == PrivateStore(t)
           r == Private(t, s)
           r1 == Unlinked(r, h, n)
           r2 == SteppedBack(r1, h.cells[n].k)
           q == [r2 EXCEPT !.main = At(s, r1.first)]
           g == UnlinkCell(h, n)
<1>2. /\ tab[t].live /\ its' \in [Iters -> Iter \cup {NoIter}] /\ Commit(t, s, q, g)
  BY <1>1 DEF ArrayPop, Inv, TypeOK
<1>3. /\ h \in Store /\ r \in Table /\ r.store = s
      /\ \A u \in Tables : u # t /\ tab[u].live => tab[u].store # s
  BY <1>1, <1>2, HomeIsPrivate
<1> HIDE DEF h, r
<1>4. g \in Store /\ r1 \in Table /\ r1.store = s
  BY <1>3, UnlinkCellType, UnlinkedType, StoreKept
<1> HIDE DEF r1, g
<1>5. r2 \in Table /\ r2.store = s /\ At(s, r1.first) \in Cursor
  <2>1. r1.first \in Links
    BY <1>4 DEF Table
  <2>2. \A k \in IntKeys : [r1 EXCEPT !.inc = k] \in Table
    BY <1>4, FieldTypes
  <2>3. r2.store = s
    BY <1>4, StoreKept
  <2> QED BY <1>4, <2>1, <2>2, <2>3, AtType DEF SteppedBack
<1> HIDE DEF r2
<1>6. q \in Table /\ q.store = s
  BY <1>5, FieldTypes DEF Table
<1> HIDE DEF q
<1> QED BY <1>2, <1>3, <1>4, <1>6, CommitStep

LEMMA ArrayUnshiftStep ==
    ASSUME Inv, NEW t \in Tables, NEW v \in Vals, ArrayUnshift(t, v)
    PROVE Inv' /\ OthersKept(t)
<1> DEFINE h == PrivateStore(t)
           r(s) == Private(t, s)
           cell(s, n, m) == CASE m = n -> [prev |-> 0, next |-> r(s).first, k |-> 0, v |-> v,
                                           st |-> "live"]
                              [] m = r(s).first /\ m # n -> [h.cells[m] EXCEPT !.prev = n]
                              [] OTHER -> h.cells[m]
           h1(s, n) == [h EXCEPT !.cells = [m \in Slots |-> cell(s, n, m)]]
           r1(s) == [r(s) EXCEPT !.count = @ + 1]
           r2(s, n) == [r1(s) EXCEPT !.first = n]
           r3(s, n) == [r2(s, n) EXCEPT !.last = IF r(s).first = 0 THEN n ELSE @]
<1>1. PICK s \in Stores, n \in Slots :
        /\ Home(t, s)
        /\ Commit(t, s, Renumbered(r3(s, n), h1(s, n)), Renumber(h1(s, n), n))
  BY ZenonT(60) DEF ArrayUnshift
<1>2. tab[t].live /\ its' \in [Iters -> Iter \cup {NoIter}]
  BY DEF ArrayUnshift, Inv, TypeOK
<1>3. /\ h \in Store /\ r(s) \in Table /\ r(s).store = s
      /\ \A u \in Tables : u # t /\ tab[u].live => tab[u].store # s
  BY <1>1, <1>2, HomeIsPrivate
<1> HIDE DEF h, r
<1>4. n \in Links /\ 0 \in Links /\ 0 \in Keys
  BY BoundsAssumption DEF Links, Slots, Keys, IntKeys
<1>5. h1(s, n) \in Store
  <2>1. \A m \in Slots : cell(s, n, m) \in Cell
    <3> TAKE m \in Slots
    <3>1. h.cells[m] \in Cell /\ [h.cells[m] EXCEPT !.prev = n] \in Cell
      BY <1>3, <1>4 DEF Store, Cell
    <3>2. [prev |-> 0, next |-> r(s).first, k |-> 0, v |-> v, st |-> "live"] \in Cell
      BY <1>3, <1>4 DEF Table, Cell
    <3> QED BY <3>1, <3>2
  <2> HIDE DEF cell
  <2> QED BY <1>3, <2>1 DEF Store
<1>6. r3(s, n).store = s
  BY <1>3 DEF Table
<1>7. r3(s, n) \in Table
  <2>1. r(s).count + 1 \in Int
    BY <1>3 DEF Table
  <2>2. r1(s) \in Table
    BY <1>3, <2>1, FieldTypes
  <2> HIDE DEF r1
  <2>3. r2(s, n) \in Table
    BY <1>4, <2>2, FieldTypes
  <2>4. r2(s, n).last \in Links
    BY <2>3 DEF Table
  <2> HIDE DEF r2
  <2> QED BY <1>4, <2>3, <2>4, FieldTypes
<1> HIDE DEF h1, r3
<1>8. /\ Renumbered(r3(s, n), h1(s, n)) \in Table /\ Renumbered(r3(s, n), h1(s, n)).store = s
      /\ Renumber(h1(s, n), n) \in Store
  BY <1>5, <1>6, <1>7, RenumberType, RenumberedType, StoreKept
<1> QED BY <1>1, <1>2, <1>3, <1>8, CommitStep

(* The moves of the array pointer.                                         *)
LEMMA MoveMainStep ==
    ASSUME Inv, NEW t \in Tables, NEW c, tab[t].live => c \in Cursor, MoveMain(t, c)
    PROVE Inv' /\ OthersKept(t)
<1> DEFINE r == [tab[t] EXCEPT !.main = c]
<1>1. tab[t] \in Table /\ tab[t].live /\ c \in Cursor
  BY DEF MoveMain, Inv, TypeOK
<1>2. r \in Table
  BY <1>1, FieldTypes
<1>3. r.live = tab[t].live /\ r.store = tab[t].store /\ r.cow = tab[t].cow
  BY <1>1 DEF Table
<1>4. /\ tab' = [tab EXCEPT ![t] = r] /\ heap' = Collected(heap)
      /\ its' \in [Iters -> Iter \cup {NoIter}]
  BY DEF MoveMain, Inv, TypeOK
<1> HIDE DEF r
<1> QED BY <1>2, <1>3, <1>4, QuietStep

LEMMA MoveStep == ASSUME Inv, NEW t \in Tables, Move(t) PROVE Inv' /\ OthersKept(t)
<1>1. tab[t] \in Table /\ tab[t].main \in Cursor
  BY DEF Inv, TypeOK, Table
<1>2. ASSUME tab[t].live
      PROVE /\ At(tab[t].store, tab[t].first) \in Cursor
            /\ At(tab[t].store, tab[t].last) \in Cursor
  BY <1>1, <1>2, AtType DEF Inv, TypeOK, Table
<1>3. CASE MainNext(t)
  BY <1>1, <1>3, NextCursorType, MoveMainStep DEF MainNext, Inv
<1>4. CASE MainPrev(t)
  BY <1>4, PrevCursorType, MoveMainStep DEF MainPrev, Inv
<1>5. CASE MainReset(t)
  BY <1>2, <1>5, MoveMainStep DEF MainReset
<1>6. CASE MainEnd(t)
  BY <1>2, <1>6, MoveMainStep DEF MainEnd
<1>7. CASE ResetIfEnd(t)
  BY <1>1, <1>2, <1>7, SettledType, MoveMainStep DEF ResetIfEnd
<1> QED BY <1>3, <1>4, <1>5, <1>6, <1>7 DEF Move

LEMMA ForeachStartStep ==
    ASSUME Inv, NEW t \in Tables, NEW i \in Iters, ForeachStart(t, i)
    PROVE Inv' /\ OthersKept(t)
<1> DEFINE h == Copy(heap[tab[t].store], tab[t].first)
           r(s) == CopiedTable(t, s)
           q(s) == [r(s) EXCEPT !.incInit = FALSE]
<1>1. PICK s \in Stores :
        /\ NewStore(s)
        /\ its' = [its EXCEPT ![i] = [t |-> t, cur |-> At(s, tab[t].first)]]
        /\ Commit(t, s, q(s), h)
  BY DEF ForeachStart
<1>2. tab[t] \in Table /\ heap[tab[t].store] \in Store /\ tab[t].first \in Links
  BY DEF ForeachStart, Inv, TypeOK, Table
<1>3. h \in Store /\ r(s) \in Table /\ At(s, tab[t].first) \in Cursor
  BY <1>2, CopyType, CopiedTableType, AtType DEF Inv
<1>4. r(s).store = s
  BY <1>2 DEF CopiedTable, Table
<1> HIDE DEF h, r
<1>5. q(s) \in Table /\ q(s).store = s
  BY ZenonT(60), <1>3, <1>4, FieldTypes DEF Table
<1>6. its' \in [Iters -> Iter \cup {NoIter}]
  BY <1>1, <1>3 DEF Inv, TypeOK, Iter
<1> HIDE DEF q
<1> QED BY <1>1, <1>3, <1>5, <1>6, CommitStep DEF NewStore, FreeStore

LEMMA ForeachTurnStep ==
    ASSUME Inv, NEW i \in Iters, ForeachNext(i) \/ ForeachEnd(i)
    PROVE Inv' /\ \E t \in Tables : OthersKept(t)
<1>1. its[i] \in Iter
  BY DEF ForeachNext, ForeachEnd, Inv, TypeOK
<1> DEFINE t == its[i].t
<1>2. t \in Tables /\ its[i].cur \in Cursor
  BY <1>1 DEF Iter
<1>3. NextCursor(its[i].cur) \in Cursor
  BY <1>2, NextCursorType DEF Inv
<1>4. its' \in [Iters -> Iter \cup {NoIter}]
  <2>1. CASE ForeachNext(i)
    <3>1. [its[i] EXCEPT !.cur = NextCursor(@)] \in Iter
      BY <1>1, <1>3 DEF Iter
    <3> QED BY <2>1, <3>1 DEF ForeachNext, Inv, TypeOK
  <2>2. CASE ForeachEnd(i)
    BY <2>2 DEF ForeachEnd, Inv, TypeOK
  <2> QED BY <2>1, <2>2
<1>5. tab' = [tab EXCEPT ![t] = tab[t]] /\ heap' = Collected(heap) /\ tab[t] \in Table
  BY <1>2 DEF ForeachNext, ForeachEnd, Inv, TypeOK
<1> HIDE DEF t
<1> QED BY <1>2, <1>4, <1>5, QuietStep

-----------------------------------------------------------------------------
(* The theorems.                                                           *)

LEMMA InitInv == Init => Inv
BY EmptyTypes DEF Init, Inv, TypeOK, SharedStoreIsCow, NoTable

LEMMA NextStep == ASSUME Inv, Next PROVE Inv' /\ \E t \in Tables : OthersKept(t)
<1>1. ASSUME NEW t \in Tables, Write(t) PROVE Inv' /\ OthersKept(t)
  BY <1>1, SeparateStep, AppendRefusedStep, ClearStep, ArrayShiftStep, ArrayPopStep, UnsetStep,
     OverwriteStep, InsertStep, AppendStep, ArrayUnshiftStep DEF Write
<1>2. CASE \E t \in Tables : New(t) \/ Drop(t) \/ Write(t) \/ Move(t)
  BY <1>1, <1>2, NewStep, DropStep, MoveStep
<1>3. CASE \E t, u \in Tables : Dup(t, u) \/ DeepCopy(t, u)
  BY <1>3, DupStep, DeepCopyStep
<1>4. CASE \E t \in Tables, i \in Iters : ForeachStart(t, i)
  BY <1>4, ForeachStartStep
<1>5. CASE \E i \in Iters : ForeachNext(i) \/ ForeachEnd(i)
  BY <1>5, ForeachTurnStep
<1> QED BY <1>2, <1>3, <1>4, <1>5 DEF Next

LEMMA StutterStep == ASSUME Inv, UNCHANGED vars PROVE Inv'
BY DEF Inv, TypeOK, SharedStoreIsCow, vars

LEMMA InvHolds == Spec => []Inv
<1>1. Inv /\ [Next]_vars => Inv'
  BY NextStep, StutterStep
<1> QED BY InitInv, <1>1, PTL DEF Spec

(* Every pointer, key and counter of every table stays in range, whatever  *)
(* the number of tables, cells and keys (hashtable.go).                    *)
THEOREM TypeCorrect == Spec => []TypeOK
<1>1. Inv => TypeOK
  BY DEF Inv
<1> QED BY InvHolds, <1>1, PTL

(* Tables that share their cells are all flagged cow, so no write of one   *)
(* of them skips doCopy (Dup, doCopy, SeparateCow).                        *)
THEOREM SharingIsCow == Spec => []SharedStoreIsCow
<1>1. Inv => SharedStoreIsCow
  BY DEF Inv
<1> QED BY InvHolds, <1>1, PTL

(* No write through one table shows in another (Dup: "setting z.cow        *)
(* prevents *all* writes on this array").                                  *)
THEOREM Isolation == Spec => WriteIsolation
<1> DEFINE Isolated == \A t, u \in Tables :
             t # u /\ tab[t].live /\ tab[u].live /\ tab'[t].live /\ tab'[u].live
               => View(t)' = View(t) \/ View(u)' = View(u)
<1>1. Inv /\ [Next]_vars => [Isolated]_vars
  <2> SUFFICES ASSUME Inv, Next PROVE Isolated
    OBVIOUS
  <2>1. PICK w \in Tables : OthersKept(w)
    BY NextStep
  <2> QED BY <2>1 DEF OthersKept
<1> QED BY InvHolds, <1>1, PTL DEF Spec, WriteIsolation

-----------------------------------------------------------------------------
(* The list inside each table: it can be walked both ways, it              *)
(* agrees with the index maps and with count, and every cursor reaches it. *)
(*                                                                         *)
(* The three invariants speak of Chain, the cells met by walking from      *)
(* first.  A step that changes a few links says nothing of a walk, so the  *)
(* inductive invariant Connected speaks of the live cells, link by link:   *)
(* next and prev of neighbours agree, only the ends have no neighbour, and *)
(* a rank grows along next, so no walk comes back.  WalkIsLive shows that  *)
(* the walk then meets exactly the live cells.  Cursors may rest on deleted*)
(* cells; for them Connected says that no link leads to a cell that is not *)
(* allocated.                                                              *)

(* The inductive invariant.                                                *)

Live(h) == {m \in Slots : h.cells[m].st = "live"}

(* The links of the live cells and the ends r.first and r.last agree.      *)
LinksAgree(r, h) ==
    /\ r.first \in Live(h) \cup {0} /\ r.last \in Live(h) \cup {0}
    /\ r.first = 0 <=> r.last = 0
    /\ \A m \in Live(h) :
         /\ h.cells[m].next \in Live(h) \cup {0}
         /\ h.cells[m].prev \in Live(h) \cup {0}
         /\ h.cells[m].next = 0 <=> m = r.last
         /\ h.cells[m].prev = 0 <=> m = r.first
         /\ h.cells[m].next # 0 => h.cells[h.cells[m].next].prev = m
         /\ h.cells[m].prev # 0 => h.cells[h.cells[m].prev].next = m

Ranks(h, rank) ==
    \A m \in Live(h) : h.cells[m].next # 0 => rank[m] < rank[h.cells[m].next]
Ranked(h) == \E rank \in [Slots -> Nat] : Ranks(h, rank)

(* The index maps, for the keys in K, name the live cells and no others.   *)
IndexedOn(h, K) ==
    /\ \A m \in Live(h) : h.cells[m].k \in K => h.idx[h.cells[m].k] = m
    /\ \A k \in K : h.idx[k] # 0 => h.idx[k] \in Live(h) /\ h.cells[h.idx[k]].k = k

Linked(r, h) == LinksAgree(r, h) /\ Ranked(h) /\ r.count = Cardinality(Live(h))

(* No link of an allocated cell, deleted or not, leads to a free one.      *)
Closed(h) ==
    \A m \in Slots : h.cells[m].st # "free" =>
      /\ h.cells[m].next # 0 => h.cells[h.cells[m].next].st # "free"
      /\ h.cells[m].prev # 0 => h.cells[h.cells[m].prev].st # "free"

CursorIn(hp, c) == c # PastEnd => hp[c.s].cells[c.n].st # "free"

TablesLinked ==
    \A t \in Tables : tab[t].live =>
      Linked(tab[t], heap[tab[t].store]) /\ IndexedOn(heap[tab[t].store], Keys)

Connected ==
    /\ TablesLinked
    /\ \A s \in Stores : Closed(heap[s])
    /\ \A t \in Tables : CursorIn(heap, tab[t].main)
    /\ \A i \in Iters : CursorIn(heap, its[i].cur)

-----------------------------------------------------------------------------
(* Walks.                                                                  *)

WalkStep(h, m) == IF m = 0 THEN 0 ELSE h.cells[m].next

(* Walk(h, n) is the function its definition describes.                    *)
LEMMA WalkFacts ==
    ASSUME NEW h \in Store, NEW n \in Links
    PROVE /\ Walk(h, n) \in [0..MaxSlots -> Links]
          /\ Walk(h, n)[0] = n
          /\ \A i \in 0 .. MaxSlots - 1 : Walk(h, n)[i + 1] = WalkStep(h, Walk(h, n)[i])
<1> DEFINE Hop == [m \in Links |-> WalkStep(h, m)]
           Def(f, i) == IF i = 0 THEN n ELSE WalkStep(h, f[i - 1])
           W == CHOOSE f : f = [i \in 0..MaxSlots |-> Def(f, i)]
<1>1. Hop \in [Links -> Links]
  <2>1. \A m \in Links : m # 0 => m \in Slots
    BY DEF Links, Slots
  <2> QED BY <2>1, BoundsAssumption DEF WalkStep, Store, Cell, Links
<1>2. PICK f \in [0..MaxSlots -> Links] :
        IsOrbit(f, Hop, n, MaxSlots)
  <2>1. MaxSlots \in Nat
    BY BoundsAssumption
  <2> HIDE DEF Hop
  <2> QED BY <1>1, <2>1, Orbit
<1>3. f = [i \in 0..MaxSlots |-> Def(f, i)]
  <2>1. ASSUME NEW i \in 0..MaxSlots PROVE f[i] = Def(f, i)
    <3>1. CASE i = 0
      BY <1>2, <3>1 DEF IsOrbit
    <3>2. CASE i # 0
      <4>1. i - 1 \in 0..MaxSlots
        BY <3>2, BoundsAssumption
      <4>2. f[i] = Hop[f[i - 1]] /\ f[i - 1] \in Links
        BY <1>2, <3>2, <4>1 DEF IsOrbit
      <4> QED BY <3>2, <4>2
    <3> QED BY <3>1, <3>2
  <2> HIDE DEF Def
  <2> QED BY <1>2, <2>1
<1>4. W = [i \in 0..MaxSlots |-> Def(W, i)]
  BY <1>3
<1>5. Walk(h, n) = W
  BY DEF Walk, WalkStep
<1> HIDE DEF W
<1>6. W[0] = n /\ \A i \in 0 .. MaxSlots - 1 : W[i + 1] = WalkStep(h, W[i])
  <2>1. W[0] = Def(W, 0)
    BY <1>4, BoundsAssumption
  <2>2. ASSUME NEW i \in 0 .. MaxSlots - 1 PROVE W[i + 1] = WalkStep(h, W[i])
    <3>1. i + 1 \in 0..MaxSlots /\ i + 1 # 0 /\ (i + 1) - 1 = i
      BY BoundsAssumption
    <3>2. W[i + 1] = Def(W, i + 1)
      BY <1>4, <3>1
    <3> QED BY <3>1, <3>2
  <2> QED BY <2>1, <2>2
<1>7. W \in [0..MaxSlots -> Links]
  <2> DEFINE T == {i \in 0..MaxSlots : W[i] \in Links}
  <2>1. 0 \in T
    BY <1>6, BoundsAssumption
  <2>2. ASSUME NEW i \in 0 .. MaxSlots - 1, i \in T PROVE i + 1 \in T
    <3>1. i + 1 \in 0..MaxSlots
      BY BoundsAssumption
    <3>2. W[i + 1] = Hop[W[i]]
      BY <1>6, <2>2
    <3> HIDE DEF Hop
    <3> QED BY <1>1, <2>2, <3>1, <3>2
  <2>3. 0..MaxSlots \subseteq T
    <3> HIDE DEF T
    <3> QED BY <2>1, <2>2, UpToInduction, BoundsAssumption
  <2>4. \A i \in 0..MaxSlots : W[i] \in Links
    BY <2>3
  <2> QED BY <1>4, <2>4
<1> QED BY <1>5, <1>6, <1>7

(* From an allocated cell of a closed store a walk meets allocated cells.  *)
LEMMA WalkStaysIn ==
    ASSUME NEW h \in Store, Closed(h), NEW n \in Links, n # 0 => h.cells[n].st # "free"
    PROVE \A i \in 0..MaxSlots : Walk(h, n)[i] # 0 => h.cells[Walk(h, n)[i]].st # "free"
<1> DEFINE W == Walk(h, n)
           T == {i \in 0..MaxSlots : W[i] # 0 => h.cells[W[i]].st # "free"}
<1>1. /\ W \in [0..MaxSlots -> Links] /\ W[0] = n
      /\ \A i \in 0 .. MaxSlots - 1 : W[i + 1] = WalkStep(h, W[i])
  BY WalkFacts
<1> HIDE DEF W
<1>2. 0 \in T
  BY <1>1, BoundsAssumption
<1>3. ASSUME NEW i \in 0 .. MaxSlots - 1, i \in T PROVE i + 1 \in T
  <2>1. i + 1 \in 0..MaxSlots /\ W[i + 1] = WalkStep(h, W[i])
    BY <1>1, BoundsAssumption
  <2>2. CASE W[i] = 0
    BY <2>1, <2>2 DEF WalkStep
  <2>3. CASE W[i] # 0
    <3>1. W[i] \in Slots /\ h.cells[W[i]].st # "free"
      BY <1>1, <1>3, <2>3 DEF Links, Slots
    <3> QED BY <2>1, <2>3, <3>1 DEF WalkStep, Closed
  <2> QED BY <2>2, <2>3
<1>4. 0..MaxSlots \subseteq T
  <2> HIDE DEF T
  <2> QED BY <1>2, <1>3, UpToInduction, BoundsAssumption
<1> QED BY <1>4 DEF W

(* A walk along the list: live cells of growing rank, then 0 for ever, and *)
(* the end is met, there being no more than MaxSlots cells.                *)
LEMMA WalkOfList ==
    ASSUME NEW h \in Store, NEW r \in Table, LinksAgree(r, h),
           NEW rank \in [Slots -> Nat], Ranks(h, rank)
    PROVE /\ \A i \in 0..MaxSlots : Walk(h, r.first)[i] \in Live(h) \cup {0}
          /\ \A j \in 0..MaxSlots : \A i \in 0..(j - 1) : Walk(h, r.first)[j] # 0 =>
               /\ Walk(h, r.first)[i] # 0
               /\ rank[Walk(h, r.first)[i]] < rank[Walk(h, r.first)[j]]
          /\ Walk(h, r.first)[MaxSlots] = 0
<1> DEFINE W == Walk(h, r.first)
<1>1. /\ W \in [0..MaxSlots -> Links] /\ W[0] = r.first
      /\ \A i \in 0 .. MaxSlots - 1 : W[i + 1] = WalkStep(h, W[i])
  BY WalkFacts DEF Table
<1> HIDE DEF W
<1>2. 0 \notin Slots /\ Live(h) \subseteq Slots
  BY DEF Slots, Live
<1>3. ASSUME NEW i \in 0..MaxSlots PROVE W[i] \in Live(h) \cup {0}
  <2> DEFINE T == {j \in 0..MaxSlots : W[j] \in Live(h) \cup {0}}
  <2>1. 0 \in T
    BY <1>1, BoundsAssumption DEF LinksAgree
  <2>2. ASSUME NEW j \in 0 .. MaxSlots - 1, j \in T PROVE j + 1 \in T
    <3>1. j + 1 \in 0..MaxSlots /\ W[j + 1] = WalkStep(h, W[j])
      BY <1>1, BoundsAssumption
    <3> QED BY <2>2, <3>1 DEF WalkStep, LinksAgree
  <2>3. 0..MaxSlots \subseteq T
    <3> HIDE DEF T
    <3> QED BY <2>1, <2>2, UpToInduction, BoundsAssumption
  <2> QED BY <2>3
<1>4. ASSUME NEW j \in 0..MaxSlots
      PROVE \A i \in 0..(j - 1) : W[j] # 0 => W[i] # 0 /\ rank[W[i]] < rank[W[j]]
  <2> DEFINE T == {k \in 0..MaxSlots : \A i \in 0..(k - 1) :
                     W[k] # 0 => W[i] # 0 /\ rank[W[i]] < rank[W[k]]}
  <2>1. 0 \in T
    BY BoundsAssumption
  <2>2. ASSUME NEW k \in 0 .. MaxSlots - 1, k \in T PROVE k + 1 \in T
    <3>1. k + 1 \in 0..MaxSlots /\ W[k + 1] = WalkStep(h, W[k])
      BY <1>1, BoundsAssumption
    <3> SUFFICES ASSUME NEW i \in 0..k, W[k + 1] # 0
                 PROVE W[i] # 0 /\ rank[W[i]] < rank[W[k + 1]]
      BY <3>1
    <3>2. /\ W[k] # 0 /\ W[k] \in Live(h)
          /\ W[k + 1] \in Live(h) /\ W[k + 1] = h.cells[W[k]].next
      <4>1. k \in 0..MaxSlots
        BY BoundsAssumption
      <4> QED BY <1>3, <3>1, <4>1 DEF WalkStep
    <3>3. rank[W[k]] < rank[W[k + 1]]
      BY <3>2 DEF Ranks
    <3>4. CASE i = k
      BY <3>2, <3>3, <3>4
    <3>5. CASE i # k
      <4>1. i \in 0..(k - 1) /\ i \in 0..MaxSlots
        BY <3>5, BoundsAssumption
      <4>2. W[i] # 0 /\ rank[W[i]] < rank[W[k]]
        BY <2>2, <3>2, <4>1
      <4>3. W[i] \in Slots /\ W[k] \in Slots /\ W[k + 1] \in Slots
        BY <1>2, <1>3, <3>2, <4>1, <4>2
      <4>4. rank[W[i]] \in Nat /\ rank[W[k]] \in Nat /\ rank[W[k + 1]] \in Nat
        BY <4>3
      <4> QED BY <3>3, <4>2, <4>4
    <3> QED BY <3>4, <3>5
  <2>3. 0..MaxSlots \subseteq T
    <3> HIDE DEF T
    <3> QED BY <2>1, <2>2, UpToInduction, BoundsAssumption
  <2> QED BY <2>3
<1>5. W[MaxSlots] = 0
  <2> SUFFICES ASSUME W[MaxSlots] # 0 PROVE FALSE
    OBVIOUS
  <2>1. \A i \in 0..MaxSlots : W[i] # 0
    <3> TAKE i \in 0..MaxSlots
    <3>1. CASE i = MaxSlots
      BY <3>1
    <3>2. CASE i # MaxSlots
      <4>1. i \in 0..(MaxSlots - 1) /\ MaxSlots \in 0..MaxSlots
        BY <3>2, BoundsAssumption
      <4> QED BY <1>4, <4>1
    <3> QED BY <3>1, <3>2
  <2>2. W \in [0..MaxSlots -> Slots]
    BY <1>1, <1>2, <1>3, <2>1
  <2>3. /\ IsFiniteSet(0..MaxSlots) /\ Cardinality(0..MaxSlots) = MaxSlots + 1
        /\ IsFiniteSet(Slots) /\ Cardinality(Slots) = MaxSlots
    BY FS_Interval, BoundsAssumption DEF Slots
  <2>4. PICK i, j \in 0..MaxSlots : i # j /\ W[i] = W[j]
    BY <2>2, <2>3, FS_PigeonHole, BoundsAssumption
  <2>5. rank[W[i]] \in Nat /\ rank[W[j]] \in Nat
    BY <2>2
  <2>6. CASE i < j
    <3>1. i \in 0..(j - 1)
      BY <2>6
    <3> QED BY <1>4, <2>1, <2>4, <2>5, <3>1
  <2>7. CASE j < i
    <3>1. j \in 0..(i - 1)
      BY <2>7
    <3> QED BY <1>4, <2>1, <2>4, <2>5, <3>1
  <2> QED BY <2>4, <2>6, <2>7
<1> QED BY <1>3, <1>4, <1>5 DEF W

(* The walk from first meets every live cell and nothing else.             *)
LEMMA WalkIsLive ==
    ASSUME NEW h \in Store, NEW r \in Table, LinksAgree(r, h), Ranked(h)
    PROVE /\ Chain(h, r.first) = Live(h)
          /\ r.first = 0 => Live(h) = {}
          /\ r.last = 0 => Live(h) = {}
<1>1. PICK rank \in [Slots -> Nat] : Ranks(h, rank)
  BY DEF Ranked
<1> DEFINE W == Walk(h, r.first)
           Met(m) == \E i \in 0..MaxSlots : W[i] = m
           T == {N \in Nat : \A m \in Live(h) : rank[m] < N => Met(m)}
<1>2. /\ W \in [0..MaxSlots -> Links] /\ W[0] = r.first
      /\ \A i \in 0 .. MaxSlots - 1 : W[i + 1] = WalkStep(h, W[i])
  BY WalkFacts DEF Table
<1>3. W[MaxSlots] = 0 /\ \A i \in 0..MaxSlots : W[i] \in Live(h) \cup {0}
  BY <1>1, WalkOfList
<1> HIDE DEF W
<1>4. 0 \notin Slots /\ Live(h) \subseteq Slots
  BY DEF Slots, Live
<1>5. 0 \in T
  BY <1>1, <1>4
<1>6. ASSUME NEW N \in Nat, N \in T PROVE N + 1 \in T
  <2> SUFFICES ASSUME NEW m \in Live(h), rank[m] < N + 1 PROVE Met(m)
    OBVIOUS
  <2>1. CASE h.cells[m].prev = 0
    <3>1. m = r.first /\ 0 \in 0..MaxSlots
      BY <2>1, BoundsAssumption DEF LinksAgree
    <3> QED BY <1>2, <3>1
  <2>2. CASE h.cells[m].prev # 0
    <3> DEFINE p == h.cells[m].prev
    <3>1. p \in Live(h) /\ h.cells[p].next = m /\ m # 0
      BY <1>4, <2>2 DEF LinksAgree
    <3> HIDE DEF p
    <3>2. rank[p] < rank[m] /\ rank[p] \in Nat /\ rank[m] \in Nat
      BY <1>1, <1>4, <3>1 DEF Ranks
    <3>3. rank[p] < N
      BY <3>2
    <3>4. PICK i \in 0..MaxSlots : W[i] = p
      BY <1>6, <3>1, <3>3
    <3>5. i # MaxSlots
      BY <1>3, <1>4, <3>1, <3>4
    <3>6. i \in 0 .. MaxSlots - 1 /\ i + 1 \in 0..MaxSlots
      BY <3>5, BoundsAssumption
    <3>7. W[i + 1] = m
      BY <1>2, <1>4, <3>1, <3>4, <3>6 DEF WalkStep
    <3> QED BY <3>6, <3>7
  <2> QED BY <2>1, <2>2
<1>7. \A m \in Live(h) : Met(m)
  <2>1. Nat \subseteq T
    <3> HIDE DEF T
    <3> QED BY <1>5, <1>6, NatSetInduction
  <2> TAKE m \in Live(h)
  <2>2. rank[m] \in Nat
    BY <1>1, <1>4
  <2>3. rank[m] + 1 \in T /\ rank[m] < rank[m] + 1
    BY <2>1, <2>2
  <2> QED BY <2>3
<1>8. Chain(h, r.first) = Live(h)
  <2>1. Chain(h, r.first) = {m \in Slots : Met(m)}
    BY DEF Chain, W
  <2> QED BY <1>3, <1>4, <1>7, <2>1
<1>9. ASSUME r.first = 0 PROVE Live(h) = {}
  <2> SUFFICES ASSUME NEW m \in Live(h) PROVE FALSE
    OBVIOUS
  <2>1. PICK i \in 0..MaxSlots : W[i] = m
    BY <1>7
  <2>2. W[i] # 0
    BY <1>4, <2>1
  <2>3. i \in 0..(i - 1) \/ 0 \in 0..(i - 1) \/ i = 0
    OBVIOUS
  <2>4. W[0] # 0
    BY <1>1, <2>2, <2>3, WalkOfList DEF W
  <2> QED BY <1>2, <1>9, <2>4
<1>10. r.last = 0 => Live(h) = {}
  BY <1>9 DEF LinksAgree
<1> QED BY <1>8, <1>9, <1>10

-----------------------------------------------------------------------------
(* Cursors.                                                                *)

(* A cursor on an allocated cell settles on a live cell or past the end.   *)
LEMMA SettledLive ==
    ASSUME NEW h \in Store, Closed(h), NEW n \in Links, n # 0 => h.cells[n].st # "free"
    PROVE SettledLink(h, n) \in Live(h) \cup {0}
<1> DEFINE W == Walk(h, n)
           dead(i) == W[i] # 0 /\ h.cells[W[i]].st = "dead"
           first == {m \in Slots : \E i \in 0..MaxSlots : /\ W[i] = m /\ ~ dead(i)
                                                          /\ \A j \in 0..(i - 1) : dead(j)}
<1>1. SettledLink(h, n) = IF first = {} THEN 0 ELSE CHOOSE m \in first : TRUE
  BY DEF SettledLink
<1>2. ASSUME NEW m \in first PROVE m \in Live(h)
  <2>1. PICK i \in 0..MaxSlots : W[i] = m /\ ~ dead(i)
    BY <1>2
  <2>2. m \in Slots /\ m # 0
    BY DEF Slots
  <2>3. h.cells[m].st # "free"
    BY <2>1, <2>2, WalkStaysIn
  <2>4. h.cells[m].st # "dead" /\ h.cells[m].st \in {"free", "live", "dead"}
    BY <2>1, <2>2 DEF Store, Cell
  <2> QED BY <2>2, <2>3, <2>4 DEF Live
<1> HIDE DEF first
<1> QED BY <1>1, <1>2

BackStep(h, m) == IF m # 0 /\ h.cells[m].st = "dead" THEN h.cells[m].prev ELSE m

(* Walking back over deleted cells ends on an allocated cell or before the *)
(* first one.                                                              *)
LEMMA BackOverIn ==
    ASSUME NEW h \in Store, Closed(h), NEW n \in Links, n # 0 => h.cells[n].st # "free"
    PROVE /\ BackOver(h, n) \in Links
          /\ BackOver(h, n) # 0 => h.cells[BackOver(h, n)].st # "free"
<1> DEFINE Hop == [m \in Links |-> BackStep(h, m)]
           Def(f, i) == IF i = 0 THEN n ELSE BackStep(h, f[i - 1])
           W == CHOOSE f : f = [i \in 0..MaxSlots |-> Def(f, i)]
<1>1. Hop \in [Links -> Links]
  <2>1. \A m \in Links : m # 0 => m \in Slots
    BY DEF Links, Slots
  <2> QED BY <2>1, BoundsAssumption DEF BackStep, Store, Cell, Links
<1>2. PICK f \in [0..MaxSlots -> Links] : IsOrbit(f, Hop, n, MaxSlots)
  <2>1. MaxSlots \in Nat
    BY BoundsAssumption
  <2> HIDE DEF Hop
  <2> QED BY <1>1, <2>1, Orbit
<1>3. f = [i \in 0..MaxSlots |-> Def(f, i)]
  <2>1. ASSUME NEW i \in 0..MaxSlots PROVE f[i] = Def(f, i)
    <3>1. CASE i = 0
      BY <1>2, <3>1 DEF IsOrbit
    <3>2. CASE i # 0
      <4>1. i - 1 \in 0..MaxSlots
        BY <3>2, BoundsAssumption
      <4>2. f[i] = Hop[f[i - 1]] /\ f[i - 1] \in Links
        BY <1>2, <3>2, <4>1 DEF IsOrbit
      <4> QED BY <3>2, <4>2
    <3> QED BY <3>1, <3>2
  <2> HIDE DEF Def
  <2> QED BY <1>2, <2>1
<1>4. W = [i \in 0..MaxSlots |-> Def(W, i)]
  BY <1>3
<1>5. BackOver(h, n) = IF W[MaxSlots] \in Slots THEN W[MaxSlots] ELSE 0
  BY DEF BackOver, BackStep
<1> HIDE DEF W
<1> DEFINE T == {i \in 0..MaxSlots : W[i] \in Links /\ (W[i] # 0 => h.cells[W[i]].st # "free")}
<1>6. 0 \in T
  <2>1. W[0] = Def(W, 0)
    BY <1>4, BoundsAssumption
  <2> QED BY <2>1, BoundsAssumption
<1>7. ASSUME NEW i \in 0 .. MaxSlots - 1, i \in T PROVE i + 1 \in T
  <2>1. i + 1 \in 0..MaxSlots /\ i + 1 # 0 /\ (i + 1) - 1 = i
    BY BoundsAssumption
  <2>2. W[i + 1] = Def(W, i + 1)
    BY <1>4, <2>1
  <2>3. W[i + 1] = BackStep(h, W[i])
    BY <2>1, <2>2
  <2>4. W[i] \in Links /\ (W[i] # 0 => W[i] \in Slots /\ h.cells[W[i]].st # "free")
    BY <1>7 DEF Links, Slots
  <2>5. W[i] # 0 => h.cells[W[i]].prev \in Links
    BY <2>4 DEF Store, Cell
  <2> QED BY <2>1, <2>3, <2>4, <2>5 DEF BackStep, Closed
<1>8. MaxSlots \in T
  <2>1. 0..MaxSlots \subseteq T
    <3> HIDE DEF T
    <3> QED BY <1>6, <1>7, UpToInduction, BoundsAssumption
  <2> QED BY <2>1, BoundsAssumption
<1>9. 0 \in Links
  BY BoundsAssumption DEF Links
<1> QED BY <1>5, <1>8, <1>9

LEMMA AtIn ==
    ASSUME NEW hp, NEW s \in Stores, NEW n \in Links, n # 0 => hp[s].cells[n].st # "free"
    PROVE CursorIn(hp, At(s, n))
BY DEF CursorIn, At

LEMMA SettledIn ==
    ASSUME Inv, Connected, NEW c \in Cursor, CursorIn(heap, c)
    PROVE CursorIn(heap, Settled(heap, c))
<1>1. CASE c.n = 0
  BY <1>1 DEF Settled, CursorIn
<1>2. CASE c.n # 0
  <2>1. c.s \in Stores /\ c.n \in Slots /\ c.n \in Links /\ c # PastEnd
    BY <1>2 DEF Cursor, PastEnd, Slots, Links
  <2>2. heap[c.s] \in Store /\ Closed(heap[c.s]) /\ heap[c.s].cells[c.n].st # "free"
    BY <2>1 DEF Inv, TypeOK, Connected, CursorIn
  <2>3. SettledLink(heap[c.s], c.n) \in Live(heap[c.s]) \cup {0}
    BY <2>1, <2>2, SettledLive
  <2>4. /\ SettledLink(heap[c.s], c.n) \in Links
        /\ SettledLink(heap[c.s], c.n) # 0
             => heap[c.s].cells[SettledLink(heap[c.s], c.n)].st # "free"
    BY <2>3, BoundsAssumption DEF Live, Slots, Links
  <2> QED BY <1>2, <2>1, <2>4, AtIn DEF Settled
<1> QED BY <1>1, <1>2

LEMMA NextCursorIn ==
    ASSUME Inv, Connected, NEW c \in Cursor, CursorIn(heap, c)
    PROVE CursorIn(heap, NextCursor(c))
<1>1. CASE c = PastEnd
  BY <1>1 DEF NextCursor
<1>2. CASE c # PastEnd
  <2>1. c.s \in Stores /\ c.n \in Slots
    BY <1>2 DEF Cursor
  <2>2. heap[c.s] \in Store /\ Closed(heap[c.s]) /\ heap[c.s].cells[c.n].st # "free"
    BY <1>2, <2>1 DEF Inv, TypeOK, Connected, CursorIn
  <2> DEFINE m == heap[c.s].cells[c.n].next
  <2>3. m \in Links /\ (m # 0 => heap[c.s].cells[m].st # "free")
    BY <2>1, <2>2 DEF Closed, Store, Cell
  <2>4. At(c.s, m) \in Cursor /\ CursorIn(heap, At(c.s, m))
    BY <2>1, <2>3, AtType, AtIn
  <2>5. CursorIn(heap, Settled(heap, At(c.s, m))) /\ CursorIn(heap, Settled(heap, c))
    BY <2>4, SettledIn
  <2> QED BY <1>2, <2>5 DEF NextCursor
<1> QED BY <1>1, <1>2

LEMMA EndsIn ==
    ASSUME Inv, Connected, NEW t \in Tables, tab[t].live
    PROVE /\ tab[t].store \in Stores /\ heap[tab[t].store] \in Store
          /\ Closed(heap[tab[t].store])
          /\ tab[t].first \in Links /\ tab[t].last \in Links
          /\ tab[t].first # 0 => heap[tab[t].store].cells[tab[t].first].st # "free"
          /\ tab[t].last # 0 => heap[tab[t].store].cells[tab[t].last].st # "free"
          /\ CursorIn(heap, At(tab[t].store, tab[t].first))
          /\ CursorIn(heap, At(tab[t].store, tab[t].last))
<1>1. /\ tab[t].store \in Stores /\ heap[tab[t].store] \in Store
      /\ tab[t].first \in Links /\ tab[t].last \in Links
  BY DEF Inv, TypeOK, Table
<1>2. Closed(heap[tab[t].store]) /\ LinksAgree(tab[t], heap[tab[t].store])
  BY <1>1 DEF Connected, TablesLinked, Linked
<1>3. /\ tab[t].first # 0 => heap[tab[t].store].cells[tab[t].first].st # "free"
      /\ tab[t].last # 0 => heap[tab[t].store].cells[tab[t].last].st # "free"
  BY <1>2 DEF LinksAgree, Live
<1> QED BY <1>1, <1>2, <1>3, AtIn

LEMMA PrevCursorIn ==
    ASSUME Inv, Connected, NEW t \in Tables, tab[t].live
    PROVE CursorIn(heap, PrevCursor(t))
<1> DEFINE c == tab[t].main
           b == BackOver(heap[c.s], c.n)
           p == heap[c.s].cells[b].prev
<1>1. c \in Cursor /\ CursorIn(heap, c)
  BY DEF Inv, TypeOK, Table, Connected
<1>2. CASE c = PastEnd
  <2>1. PrevCursor(t) = At(tab[t].store, BackOver(heap[tab[t].store], tab[t].last))
    BY <1>2 DEF PrevCursor
  <2> DEFINE e == BackOver(heap[tab[t].store], tab[t].last)
  <2>2. e \in Links /\ (e # 0 => heap[tab[t].store].cells[e].st # "free")
    BY EndsIn, BackOverIn
  <2> QED BY <2>1, <2>2, EndsIn, AtIn
<1>3. CASE c # PastEnd
  <2>1. c.s \in Stores /\ c.n \in Slots /\ c.n \in Links
    BY <1>1, <1>3 DEF Cursor, Slots, Links
  <2>2. heap[c.s] \in Store /\ Closed(heap[c.s]) /\ heap[c.s].cells[c.n].st # "free"
    BY <1>1, <1>3, <2>1 DEF Inv, TypeOK, Connected, CursorIn
  <2>3. b \in Links /\ (b # 0 => heap[c.s].cells[b].st # "free")
    BY <2>1, <2>2, BackOverIn
  <2>4. PrevCursor(t) = IF b = 0 THEN PastEnd ELSE At(c.s, BackOver(heap[c.s], p))
    BY <1>3 DEF PrevCursor
  <2>5. CASE b = 0
    BY <2>4, <2>5 DEF CursorIn
  <2>6. CASE b # 0
    <3> HIDE DEF b
    <3>1. b \in Slots
      BY <2>3, <2>6 DEF Links, Slots
    <3>2. p \in Links /\ (p # 0 => heap[c.s].cells[p].st # "free")
      BY <2>2, <2>3, <2>6, <3>1 DEF Closed, Store, Cell
    <3> DEFINE e == BackOver(heap[c.s], p)
    <3> HIDE DEF p
    <3>3. e \in Links /\ (e # 0 => heap[c.s].cells[e].st # "free")
      BY <2>2, <3>2, BackOverIn
    <3> QED BY <2>1, <2>4, <2>6, <3>3, AtIn
  <2> QED BY <2>5, <2>6
<1> QED BY <1>2, <1>3

-----------------------------------------------------------------------------
(* The end of a step.                                                      *)

LEMMA LinkTypes ==
    ASSUME NEW h \in Store, NEW m \in Slots
    PROVE /\ h.cells[m].next \in Links /\ h.cells[m].prev \in Links
          /\ h.cells[m].next # 0 => h.cells[m].next \in Slots
          /\ h.cells[m].prev # 0 => h.cells[m].prev \in Slots
          /\ h.cells[m].k \in Keys
<1>1. h.cells[m] \in Cell
  BY DEF Store
<1>2. h.cells[m].next \in Links /\ h.cells[m].prev \in Links /\ h.cells[m].k \in Keys
  BY <1>1 DEF Cell
<1>3. \A n \in Links : n # 0 => n \in Slots
  BY DEF Links, Slots
<1> QED BY <1>2, <1>3

(* Linked and IndexedOn read the live cells and the index map only.        *)
LEMMA SameLive ==
    ASSUME NEW h \in Store, NEW g \in Store, Live(g) = Live(h), g.idx = h.idx,
           \A m \in Live(h) : g.cells[m] = h.cells[m]
    PROVE /\ \A r : Linked(r, h) => Linked(r, g)
          /\ \A K : IndexedOn(h, K) => IndexedOn(g, K)
<1>1. Ranked(h) => Ranked(g)
  <2> SUFFICES ASSUME NEW rank \in [Slots -> Nat], Ranks(h, rank) PROVE Ranks(g, rank)
    BY DEF Ranked
  <2> QED BY DEF Ranks
<1>2. ASSUME NEW r, LinksAgree(r, h) PROVE LinksAgree(r, g)
  BY <1>2 DEF LinksAgree
<1>3. ASSUME NEW K, IndexedOn(h, K) PROVE IndexedOn(g, K)
  BY <1>3 DEF IndexedOn
<1> QED BY <1>1, <1>2, <1>3 DEF Linked

LEMMA SweptKeeps ==
    ASSUME NEW h \in Store
    PROVE /\ \A r : Linked(r, h) => Linked(r, Swept(h))
          /\ IndexedOn(h, Keys) => IndexedOn(Swept(h), Keys)
          /\ Closed(h) => Closed(Swept(h))
          /\ \A m \in Slots : h.cells[m].st # "free" => Swept(h).cells[m].st # "free"
<1> DEFINE g == Swept(h)
           D == [FreeCell EXCEPT !.st = "dead"]
<1>1. g \in Store /\ g.idx = h.idx
  BY SweptFacts
<1>2. D.st = "dead" /\ D.next = 0 /\ D.prev = 0
  BY DEF FreeCell
<1>3. \A m \in Slots : g.cells[m] = IF h.cells[m].st = "dead" THEN D ELSE h.cells[m]
  BY DEF Swept, Store
<1> HIDE DEF g, D
<1>4. \A m \in Slots : /\ h.cells[m].st = "dead" => g.cells[m] = D
                       /\ h.cells[m].st # "dead" => g.cells[m] = h.cells[m]
                       /\ g.cells[m].st = h.cells[m].st
  BY <1>2, <1>3
<1>5. Live(g) = Live(h) /\ \A m \in Live(h) : g.cells[m] = h.cells[m]
  BY <1>4 DEF Live
<1>6. ASSUME Closed(h) PROVE Closed(g)
  <2> SUFFICES ASSUME NEW m \in Slots, g.cells[m].st # "free"
               PROVE /\ g.cells[m].next # 0 => g.cells[g.cells[m].next].st # "free"
                     /\ g.cells[m].prev # 0 => g.cells[g.cells[m].prev].st # "free"
    BY DEF Closed
  <2>1. CASE h.cells[m].st = "dead"
    BY <1>2, <1>4, <2>1
  <2>2. CASE h.cells[m].st # "dead"
    <3> DEFINE a == h.cells[m].next
               b == h.cells[m].prev
    <3>1. g.cells[m].next = a /\ g.cells[m].prev = b
      BY <1>4, <2>2
    <3>2. (a # 0 => a \in Slots) /\ (b # 0 => b \in Slots)
      BY LinkTypes
    <3>3. h.cells[m].st # "free"
      BY <1>4
    <3>4. (a # 0 => h.cells[a].st # "free") /\ (b # 0 => h.cells[b].st # "free")
      BY <1>6, <3>3 DEF Closed
    <3> QED BY <1>4, <3>1, <3>2, <3>4
  <2> QED BY <2>1, <2>2
<1> QED BY <1>1, <1>4, <1>5, <1>6, SameLive DEF g

LEMMA EmptyStoreFacts ==
    /\ Live(EmptyStore) = {} /\ Closed(EmptyStore) /\ IndexedOn(EmptyStore, Keys)
    /\ \A s \in Stores : Linked(NewTable(s), EmptyStore)
<1>1. \A m \in Slots : EmptyStore.cells[m].st = "free"
  BY DEF EmptyStore, FreeCell
<1>2. Live(EmptyStore) = {}
  BY <1>1 DEF Live
<1>3. Closed(EmptyStore)
  BY <1>1 DEF Closed
<1>4. IndexedOn(EmptyStore, Keys)
  BY <1>2 DEF IndexedOn, EmptyStore
<1>5. Ranked(EmptyStore)
  <2>1. [m \in Slots |-> 0] \in [Slots -> Nat]
    OBVIOUS
  <2> QED BY <1>2, <2>1 DEF Ranked, Ranks
<1>6. ASSUME NEW s \in Stores PROVE Linked(NewTable(s), EmptyStore)
  <2>1. /\ NewTable(s).first = 0 /\ NewTable(s).last = 0 /\ NewTable(s).count = 0
    BY DEF NewTable, NoTable
  <2> QED BY <1>2, <1>5, <2>1, FS_EmptySet DEF Linked, LinksAgree
<1> QED BY <1>2, <1>3, <1>4, <1>6

(* What the collector leaves is as connected as what it was given.         *)
LEMMA CollectedConnected ==
    ASSUME NEW hp, hp \in [Stores -> Store], heap' = Collected(hp),
           tab' \in [Tables -> Table], its' \in [Iters -> Iter \cup {NoIter}],
           \A s \in Stores : Closed(hp[s]),
           \A u \in Tables : tab'[u].live =>
             /\ tab'[u].store \in Stores
             /\ Linked(tab'[u], hp[tab'[u].store]) /\ IndexedOn(hp[tab'[u].store], Keys),
           \A u \in Tables : CursorIn(hp, tab'[u].main),
           \A i \in Iters : CursorIn(hp, its'[i].cur)
    PROVE Connected'
<1>1. ASSUME NEW s \in Stores
      PROVE \/ heap'[s] = hp[s]
            \/ heap'[s] = Swept(hp[s])
            \/ /\ heap'[s] = EmptyStore
               /\ \A c \in Cursors : c.s # s
               /\ \A u \in Tables : tab'[u].store # s
  <2> DEFINE resting == {c.n : c \in {d \in Cursors : d.s = s}}
  <2>1. heap'[s] = IF resting = {} /\ \A u \in Tables : tab'[u].store # s THEN EmptyStore
                   ELSE IF \E n \in resting : hp[s].cells[n].st = "dead" THEN hp[s]
                   ELSE Swept(hp[s])
    BY DEF Collected
  <2>2. resting = {} => \A c \in Cursors : c.s # s
    OBVIOUS
  <2> HIDE DEF resting
  <2> QED BY <2>1, <2>2
<1>2. \A s \in Stores : hp[s] \in Store
  OBVIOUS
<1>3. ASSUME NEW s \in Stores PROVE Closed(heap'[s])
  BY <1>1, <1>2, SweptKeeps, EmptyStoreFacts
<1>4. ASSUME NEW u \in Tables, tab'[u].live
      PROVE Linked(tab'[u], heap'[tab'[u].store]) /\ IndexedOn(heap'[tab'[u].store], Keys)
  <2> DEFINE s == tab'[u].store
  <2>1. /\ s \in Stores /\ Linked(tab'[u], hp[s]) /\ IndexedOn(hp[s], Keys)
    BY <1>4
  <2>2. heap'[s] = hp[s] \/ heap'[s] = Swept(hp[s])
    BY <1>1, <2>1
  <2> HIDE DEF s
  <2>3. Linked(tab'[u], heap'[s]) /\ IndexedOn(heap'[s], Keys)
    BY <1>2, <2>1, <2>2, SweptKeeps
  <2> QED BY <2>3 DEF s
<1>5. ASSUME NEW c \in Cursors, c \in Cursor, CursorIn(hp, c) PROVE CursorIn(heap', c)
  <2> SUFFICES ASSUME c # PastEnd PROVE heap'[c.s].cells[c.n].st # "free"
    BY DEF CursorIn
  <2>1. c.s \in Stores /\ c.n \in Slots /\ hp[c.s].cells[c.n].st # "free"
    BY <1>5 DEF Cursor, CursorIn
  <2>2. heap'[c.s] = hp[c.s] \/ heap'[c.s] = Swept(hp[c.s])
    BY <1>1, <2>1
  <2> QED BY <1>2, <2>1, <2>2, SweptKeeps
<1>6. ASSUME NEW u \in Tables PROVE CursorIn(heap', tab'[u].main)
  <2>1. tab'[u].main \in Cursors /\ tab'[u].main \in Cursor
    BY DEF Cursors, Table
  <2> QED BY <1>5, <2>1
<1>7. ASSUME NEW i \in Iters PROVE CursorIn(heap', its'[i].cur)
  <2>1. its'[i].cur \in Cursors /\ its'[i].cur \in Cursor
    BY DEF Cursors, Iter, NoIter, Cursor
  <2> QED BY <1>5, <2>1
<1>8. TablesLinked'
  BY <1>4 DEF TablesLinked, Linked, LinksAgree, Ranked, Ranks, IndexedOn, Live
<1>9. \A s \in Stores : Closed(heap[s])'
  BY <1>3 DEF Closed
<1>10. /\ \A u \in Tables : CursorIn(heap, tab[u].main)'
       /\ \A i \in Iters : CursorIn(heap, its[i].cur)'
  BY <1>6, <1>7 DEF CursorIn
<1> QED BY <1>8, <1>9, <1>10 DEF Connected

(* A copy of the cells of a well linked store holds the same list.         *)
LEMMA CopyFacts ==
    ASSUME NEW h \in Store, NEW r \in Table, Linked(r, h), IndexedOn(h, Keys)
    PROVE /\ Copy(h, r.first) \in Store
          /\ Live(Copy(h, r.first)) = Live(h)
          /\ \A q : Linked(q, h) => Linked(q, Copy(h, r.first))
          /\ IndexedOn(Copy(h, r.first), Keys)
          /\ Closed(Copy(h, r.first))
          /\ Chain(h, r.first) = Live(h)
<1> DEFINE g == Copy(h, r.first)
           C == Chain(h, r.first)
           at(k) == {n \in C : h.cells[n].k = k}
<1>1. g \in Store
  BY CopyType
<1>2. C = Live(h)
  BY WalkIsLive DEF Linked
<1>3. \A m \in Slots : g.cells[m] = IF m \in C THEN h.cells[m] ELSE FreeCell
  BY DEF Copy
<1>4. \A k \in Keys : g.idx[k] = IF at(k) = {} THEN 0 ELSE CHOOSE n \in at(k) : TRUE
  BY DEF Copy
<1>5. /\ \A m \in Slots : g.cells[m].st = IF m \in Live(h) THEN "live" ELSE "free"
      /\ \A m \in Live(h) : m \in Slots /\ g.cells[m] = h.cells[m]
  BY <1>2, <1>3 DEF Live, FreeCell
<1>6. Live(g) = Live(h)
  BY <1>5 DEF Live
<1>7. g.idx = h.idx
  <2>1. ASSUME NEW k \in Keys PROVE g.idx[k] = h.idx[k]
    <3>1. \A n \in at(k) : h.idx[k] = n
      BY <1>2 DEF IndexedOn
    <3>2. CASE at(k) = {}
      <4>1. h.idx[k] = 0
        BY <1>2, <3>2 DEF IndexedOn
      <4> QED BY <1>4, <3>2, <4>1
    <3>3. CASE at(k) # {}
      <4> DEFINE n == CHOOSE x \in at(k) : TRUE
      <4>1. n \in at(k)
        BY <3>3
      <4>2. g.idx[k] = n
        BY <1>4, <3>3
      <4> HIDE DEF n, at
      <4> QED BY <3>1, <4>1, <4>2
    <3> QED BY <3>2, <3>3
  <2>2. g.idx \in [Keys -> Links] /\ h.idx \in [Keys -> Links]
    BY <1>1 DEF Store
  <2> HIDE DEF g
  <2> QED BY <2>1, <2>2
<1> HIDE DEF g, C, at
<1>8. Closed(g)
  <2> SUFFICES ASSUME NEW m \in Slots, g.cells[m].st # "free"
               PROVE /\ g.cells[m].next # 0 => g.cells[g.cells[m].next].st # "free"
                     /\ g.cells[m].prev # 0 => g.cells[g.cells[m].prev].st # "free"
    BY DEF Closed
  <2>1. m \in Live(h)
    BY <1>5
  <2>2. /\ h.cells[m].next \in Live(h) \cup {0}
        /\ h.cells[m].prev \in Live(h) \cup {0}
    BY <2>1 DEF Linked, LinksAgree
  <2> QED BY <1>5, <2>1, <2>2
<1>9. IndexedOn(g, Keys) /\ \A q : Linked(q, h) => Linked(q, g)
  BY <1>1, <1>5, <1>6, <1>7, SameLive
<1> QED BY <1>1, <1>2, <1>6, <1>8, <1>9 DEF g, C

(* The stores with h in place of store s.                                  *)
Placed(s, h) == [heap EXCEPT ![s] = h]

LEMMA PlacedFacts ==
    ASSUME Inv, NEW s \in Stores, NEW h
    PROVE /\ Placed(s, h)[s] = h /\ \A q \in Stores : q # s => Placed(s, h)[q] = heap[q]
          /\ h \in Store => Placed(s, h) \in [Stores -> Store]
BY DEF Placed, Inv, TypeOK

(* A step that puts r and h in place of table t and store s.               *)
LEMMA CommitConnected ==
    ASSUME Inv, Connected, NEW t \in Tables, NEW s \in Stores, NEW r \in Table,
           NEW h \in Store, r.store = s, its' \in [Iters -> Iter \cup {NoIter}],
           \A u \in Tables : u # t /\ tab[u].live => tab[u].store # s,
           Commit(t, s, r, h), Linked(r, h), IndexedOn(h, Keys), Closed(h),
           CursorIn(Placed(s, h), r.main),
           \A u \in Tables : u # t => CursorIn(Placed(s, h), tab[u].main),
           \A i \in Iters : CursorIn(Placed(s, h), its'[i].cur)
    PROVE Connected'
<1> DEFINE hp == Placed(s, h)
<1>1. /\ hp \in [Stores -> Store] /\ hp[s] = h
      /\ \A q \in Stores : q # s => hp[q] = heap[q]
  BY PlacedFacts
<1>2. heap' = Collected(hp) /\ tab' = [tab EXCEPT ![t] = r]
  BY DEF Commit, Placed
<1>3. tab' \in [Tables -> Table] /\ tab'[t] = r /\ \A u \in Tables : u # t => tab'[u] = tab[u]
  BY <1>2 DEF Inv, TypeOK
<1>4. /\ CursorIn(hp, r.main)
      /\ \A u \in Tables : u # t => CursorIn(hp, tab[u].main)
      /\ \A i \in Iters : CursorIn(hp, its'[i].cur)
  OBVIOUS
<1> HIDE DEF hp
<1>5. \A q \in Stores : Closed(hp[q])
  BY <1>1 DEF Connected
<1>6. ASSUME NEW u \in Tables, tab'[u].live
      PROVE /\ tab'[u].store \in Stores
            /\ Linked(tab'[u], hp[tab'[u].store]) /\ IndexedOn(hp[tab'[u].store], Keys)
  <2>1. CASE u = t
    BY <1>1, <1>3, <2>1
  <2>2. CASE u # t
    <3>1. tab'[u] = tab[u] /\ tab[u].live /\ tab[u].store \in Stores /\ tab[u].store # s
      BY <1>3, <1>6, <2>2 DEF Inv, TypeOK
    <3>2. hp[tab[u].store] = heap[tab[u].store]
      BY <1>1, <3>1
    <3> QED BY <3>1, <3>2 DEF Connected, TablesLinked
  <2> QED BY <2>1, <2>2
<1>7. \A u \in Tables : CursorIn(hp, tab'[u].main)
  BY <1>3, <1>4
<1> QED BY <1>1, <1>2, <1>3, <1>4, <1>5, <1>6, <1>7, CollectedConnected

(* No cursor rests in a store that is free.                                *)
LEMMA NewStoreCursors ==
    ASSUME Inv, Connected, NEW s \in Stores, NewStore(s), NEW h
    PROVE /\ \A u \in Tables : CursorIn(Placed(s, h), tab[u].main)
          /\ \A i \in Iters : CursorIn(Placed(s, h), its[i].cur)
<1>1. ASSUME NEW c, c \in Cursor, c.s # s, CursorIn(heap, c)
      PROVE CursorIn(Placed(s, h), c)
  <2>1. c # PastEnd => c.s \in Stores
    BY <1>1 DEF Cursor
  <2> QED BY <1>1, <2>1, PlacedFacts DEF CursorIn
<1>2. ASSUME NEW u \in Tables PROVE CursorIn(Placed(s, h), tab[u].main)
  <2>1. tab[u].main \in Cursor /\ tab[u].main.s # s /\ CursorIn(heap, tab[u].main)
    BY DEF Inv, TypeOK, Table, NewStore, FreeStore, Connected
  <2> QED BY <1>1, <2>1
<1>3. ASSUME NEW i \in Iters PROVE CursorIn(Placed(s, h), its[i].cur)
  <2>1. its[i].cur \in Cursor
    BY DEF Inv, TypeOK, Iter, NoIter, Cursor
  <2>2. its[i].cur.s # s /\ CursorIn(heap, its[i].cur)
    BY DEF NewStore, FreeStore, Connected
  <2> QED BY <1>1, <2>1, <2>2
<1> QED BY <1>2, <1>3

(* doCopy: the copy holds the same list, and the main iterator lies in it  *)
(* or where it was.                                                        *)
LEMMA SeparatedFacts ==
    ASSUME Inv, Connected, NEW t \in Tables, tab[t].live, NEW s \in Stores, NewStore(s)
    PROVE LET h == Copy(heap[tab[t].store], tab[t].first)
              r == CopiedTable(t, s)
          IN  /\ h \in Store /\ Linked(r, h) /\ IndexedOn(h, Keys) /\ Closed(h)
              /\ r.live /\ CursorIn(Placed(s, h), r.main)
<1> DEFINE o == tab[t]
           h0 == heap[o.store]
           h == Copy(h0, o.first)
           r == CopiedTable(t, s)
           main == IF o.main.s = o.store /\ o.main.n \in Chain(h0, o.first)
                   THEN At(s, o.main.n) ELSE o.main
<1>1. o \in Table /\ o.live /\ h0 \in Store /\ Linked(o, h0) /\ IndexedOn(h0, Keys)
  BY DEF Inv, TypeOK, Connected, TablesLinked
<1>2. r.first = o.first /\ r.last = o.last /\ r.count = o.count /\ r.live /\ r.main = main
  BY <1>1 DEF CopiedTable, Table
<1>3. CursorIn(Placed(s, h), o.main)
  BY NewStoreCursors
<1> HIDE DEF o, h0, r
<1>5. /\ h \in Store /\ Live(h) = Live(h0) /\ Linked(o, h) /\ IndexedOn(h, Keys) /\ Closed(h)
      /\ Chain(h0, o.first) = Live(h0)
  BY <1>1, CopyFacts
<1> HIDE DEF h
<1>6. Linked(r, h)
  BY <1>2, <1>5 DEF Linked, LinksAgree
<1>7. CursorIn(Placed(s, h), main)
  <2>1. CASE o.main.s = o.store /\ o.main.n \in Chain(h0, o.first)
    <3>1. o.main.n \in Live(h)
      BY <1>5, <2>1
    <3>2. o.main.n \in Links /\ h.cells[o.main.n].st # "free"
      BY <3>1 DEF Live, Slots, Links
    <3>3. Placed(s, h)[s] = h
      BY PlacedFacts
    <3> QED BY <2>1, <3>2, <3>3, AtIn
  <2>2. CASE ~ (o.main.s = o.store /\ o.main.n \in Chain(h0, o.first))
    BY <1>3, <2>2
  <2> QED BY <2>1, <2>2
<1> HIDE DEF main
<1>8. r.live /\ CursorIn(Placed(s, h), r.main)
  BY <1>2, <1>7
<1> QED BY <1>5, <1>6, <1>8 DEF o, h0, h, r

(* What a write finds after "if z.cow { z.doCopy() }".                     *)
LEMMA PrivateFacts ==
    ASSUME Inv, Connected, NEW t \in Tables, tab[t].live, NEW s \in Stores, Home(t, s)
    PROVE /\ Linked(Private(t, s), PrivateStore(t))
          /\ IndexedOn(PrivateStore(t), Keys) /\ Closed(PrivateStore(t))
          /\ Private(t, s).live
          /\ CursorIn(Placed(s, PrivateStore(t)), Private(t, s).main)
          /\ \A u \in Tables : CursorIn(Placed(s, PrivateStore(t)), tab[u].main)
          /\ \A i \in Iters : CursorIn(Placed(s, PrivateStore(t)), its[i].cur)
<1>1. CASE tab[t].cow
  BY <1>1, SeparatedFacts, NewStoreCursors DEF Home, Private, PrivateStore
<1>2. CASE ~ tab[t].cow
  <2>1. Private(t, s) = tab[t] /\ PrivateStore(t) = heap[s] /\ s = tab[t].store
    BY <1>2 DEF Home, Private, PrivateStore
  <2>2. Placed(s, PrivateStore(t)) = heap
    BY <2>1 DEF Placed, Inv, TypeOK
  <2>3. Linked(tab[t], heap[s]) /\ IndexedOn(heap[s], Keys) /\ Closed(heap[s])
    BY <2>1 DEF Connected, TablesLinked
  <2>4. /\ \A u \in Tables : CursorIn(heap, tab[u].main)
        /\ \A i \in Iters : CursorIn(heap, its[i].cur)
    BY DEF Connected
  <2> QED BY <2>1, <2>2, <2>3, <2>4
<1> QED BY <1>1, <1>2

(* A write: the store it makes of the private one frees no cell, and the   *)
(* main iterator stays, leaves the list or rests on an allocated cell.     *)
LEMMA WriteConnected ==
    ASSUME Inv, Connected, NEW t \in Tables, tab[t].live, NEW s \in Stores, Home(t, s),
           NEW r \in Table, NEW h \in Store, Commit(t, s, r, h), UNCHANGED its,
           r.store = s, Linked(r, h), IndexedOn(h, Keys), Closed(h),
           \A m \in Slots : PrivateStore(t).cells[m].st # "free" => h.cells[m].st # "free",
           \/ r.main = Private(t, s).main \/ r.main = PastEnd
           \/ \E n \in Links : r.main = At(s, n) /\ (n # 0 => h.cells[n].st # "free")
    PROVE Connected'
<1> DEFINE h0 == PrivateStore(t)
<1>1. its' \in [Iters -> Iter \cup {NoIter}]
  BY DEF Inv, TypeOK
<1>2. ASSUME NEW c \in Cursor, CursorIn(Placed(s, h0), c)
      PROVE CursorIn(Placed(s, h), c)
  <2>1. c # PastEnd => c.s \in Stores /\ c.n \in Slots
    BY DEF Cursor
  <2> SUFFICES ASSUME c # PastEnd PROVE Placed(s, h)[c.s].cells[c.n].st # "free"
    BY DEF CursorIn
  <2>2. Placed(s, h0)[c.s].cells[c.n].st # "free"
    BY <1>2 DEF CursorIn
  <2>3. CASE c.s = s
    <3>1. Placed(s, h0)[s] = h0 /\ Placed(s, h)[s] = h
      BY PlacedFacts
    <3> QED BY <2>1, <2>2, <2>3, <3>1
  <2>4. CASE c.s # s
    <3>1. Placed(s, h0)[c.s] = Placed(s, h)[c.s]
      BY <2>1, <2>4, PlacedFacts
    <3> QED BY <2>2, <3>1
  <2> QED BY <2>3, <2>4
<1> HIDE DEF h0
<1>3. /\ CursorIn(Placed(s, h0), Private(t, s).main)
      /\ \A u \in Tables : CursorIn(Placed(s, h0), tab[u].main)
      /\ \A i \in Iters : CursorIn(Placed(s, h0), its[i].cur)
  BY PrivateFacts DEF h0
<1>4. /\ Private(t, s).main \in Cursor
      /\ \A u \in Tables : tab[u].main \in Cursor
      /\ \A i \in Iters : its[i].cur \in Cursor
  <2>1. Private(t, s) \in Table
    BY HomeIsPrivate
  <2>2. \A i \in Iters : its[i].cur \in Cursor
    BY DEF Inv, TypeOK, Iter, NoIter, Cursor
  <2> QED BY <2>1, <2>2 DEF Inv, TypeOK, Table
<1>5. CursorIn(Placed(s, h), r.main)
  <2>1. CASE r.main = Private(t, s).main
    BY <1>2, <1>3, <1>4, <2>1
  <2>2. CASE r.main = PastEnd
    BY <2>2 DEF CursorIn
  <2>3. CASE \E n \in Links : r.main = At(s, n) /\ (n # 0 => h.cells[n].st # "free")
    <3>1. Placed(s, h)[s] = h
      BY PlacedFacts
    <3> QED BY <2>3, <3>1, AtIn
  <2> QED BY <2>1, <2>2, <2>3
<1>6. /\ \A u \in Tables : CursorIn(Placed(s, h), tab[u].main)
      /\ \A i \in Iters : CursorIn(Placed(s, h), its'[i].cur)
  BY <1>2, <1>3, <1>4
<1>7. \A u \in Tables : u # t /\ tab[u].live => tab[u].store # s
  BY HomeIsPrivate
<1>8. /\ \A u \in Tables : u # t => CursorIn(Placed(s, h), tab[u].main)
      /\ \A i \in Iters : CursorIn(Placed(s, h), its'[i].cur)
  BY <1>6
<1> QED BY <1>1, <1>5, <1>7, <1>8, CommitConnected

-----------------------------------------------------------------------------
(* What the pieces of the writes do to a list.                             *)

LEMMA LiveFacts ==
    ASSUME NEW h \in Store
    PROVE /\ Live(h) \subseteq Slots /\ 0 \notin Slots /\ IsFiniteSet(Live(h))
          /\ \A m \in Slots : m \in Live(h) <=> h.cells[m].st = "live"
<1>1. IsFiniteSet(Slots) /\ Live(h) \subseteq Slots /\ 0 \notin Slots
  BY FS_Interval, BoundsAssumption DEF Slots, Live
<1>2. IsFiniteSet(Live(h))
  BY <1>1, FS_Subset
<1> QED BY <1>1, <1>2 DEF Live

(* Neighbours differ, from the cell and from each other.                   *)
LEMMA Neighbours ==
    ASSUME NEW h \in Store, NEW r, LinksAgree(r, h), Ranked(h), NEW n \in Live(h)
    PROVE /\ h.cells[n].next # n /\ h.cells[n].prev # n
          /\ h.cells[n].next # 0 => h.cells[n].next # h.cells[n].prev
<1>1. PICK rank \in [Slots -> Nat] : Ranks(h, rank)
  BY DEF Ranked
<1> DEFINE p == h.cells[n].prev
           q == h.cells[n].next
<1>2. n # 0 /\ n \in Slots /\ Live(h) \subseteq Slots
  BY LiveFacts
<1>3. ASSUME q # 0 PROVE rank[n] < rank[q] /\ rank[n] \in Nat /\ rank[q] \in Nat
  <2>1. q \in Live(h)
    BY <1>3 DEF LinksAgree
  <2> QED BY <1>1, <1>2, <1>3, <2>1 DEF Ranks
<1>4. ASSUME p # 0 PROVE rank[p] < rank[n] /\ rank[n] \in Nat /\ rank[p] \in Nat
  <2>1. p \in Live(h) /\ h.cells[p].next = n
    BY <1>4 DEF LinksAgree
  <2> QED BY <1>1, <1>2, <2>1 DEF Ranks
<1> HIDE DEF p, q
<1>5. q # n
  BY <1>2, <1>3
<1>6. p # n
  BY <1>2, <1>4
<1>7. q # 0 => q # p
  BY <1>3, <1>4
<1> QED BY <1>5, <1>6, <1>7 DEF p, q

(* Store g of a table q is h with the cell n linked in last, under key k.  *)
Joined(h, g, q, n, k) ==
    /\ g \in Store /\ Linked(q, g) /\ Closed(g)
    /\ Live(g) = Live(h) \cup {n} /\ n \notin Live(h)
    /\ g.cells[n].k = k /\ g.cells[n].st = "live"
    /\ \A m \in Slots : m # n => g.cells[m].k = h.cells[m].k /\ g.cells[m].st = h.cells[m].st
    /\ \A j \in Keys : g.idx[j] = IF j = k THEN n ELSE h.idx[j]

(* A cell n behind the last one of a list makes a longer list.             *)
LEMMA AppendJoined ==
    ASSUME NEW h \in Store, NEW r \in Table, Linked(r, h), Closed(h),
           NEW n \in Slots, h.cells[n].st = "free", NEW k \in Keys,
           NEW v \in Vals \cup {None}, NEW g, g = AppendCell(h, r.last, n, k, v),
           NEW q, q.count = r.count + 1, q.last = n,
           q.first = IF r.last = 0 THEN n ELSE r.first
    PROVE Joined(h, g, q, n, k)
<1> DEFINE l == r.last
<1>1. /\ LinksAgree(r, h) /\ Ranked(h) /\ r.count = Cardinality(Live(h))
      /\ (r.first = 0 <=> l = 0) /\ (l = 0 => Live(h) = {})
  BY WalkIsLive DEF Linked, LinksAgree
<1>2. /\ Live(h) \subseteq Slots /\ 0 \notin Slots /\ IsFiniteSet(Live(h)) /\ n \notin Live(h)
      /\ n # 0
  BY LiveFacts
<1>3. l # 0 => l \in Live(h) /\ l # n /\ l \in Slots
  BY <1>1, <1>2 DEF LinksAgree
<1>4. /\ g.cells[n] = [prev |-> l, next |-> 0, k |-> k, v |-> v, st |-> "live"]
      /\ \A m \in Slots : m # n /\ m # l => g.cells[m] = h.cells[m]
      /\ l # 0 => g.cells[l] = [h.cells[l] EXCEPT !.next = n]
      /\ g.idx = [h.idx EXCEPT ![k] = n]
  BY <1>3 DEF AppendCell
<1>5. /\ g.cells[n].prev = l /\ g.cells[n].next = 0 /\ g.cells[n].k = k /\ g.cells[n].st = "live"
      /\ \A m \in Slots : m # n =>
           /\ g.cells[m].prev = h.cells[m].prev /\ g.cells[m].k = h.cells[m].k
           /\ g.cells[m].st = h.cells[m].st
           /\ g.cells[m].next = IF m = l THEN n ELSE h.cells[m].next
  <2>1. /\ g.cells[n].prev = l /\ g.cells[n].next = 0 /\ g.cells[n].k = k
        /\ g.cells[n].st = "live"
    BY <1>4
  <2>2. ASSUME NEW m \in Slots, m # n
        PROVE /\ g.cells[m].prev = h.cells[m].prev /\ g.cells[m].k = h.cells[m].k
              /\ g.cells[m].st = h.cells[m].st
              /\ g.cells[m].next = IF m = l THEN n ELSE h.cells[m].next
    <3>1. h.cells[m] \in Cell
      BY DEF Store
    <3>2. CASE m # l
      BY <1>4, <2>2, <3>2
    <3>3. CASE m = l
      <4>1. g.cells[m] = [h.cells[m] EXCEPT !.next = n]
        BY <1>2, <1>4, <3>3
      <4> HIDE DEF l
      <4> QED BY <3>1, <3>3, <4>1 DEF Cell
    <3> QED BY <3>2, <3>3
  <2> QED BY <2>1, <2>2
<1>6. g \in Store
  BY AppendCellType DEF Table
<1>7. /\ \A j \in Keys : g.idx[j] = IF j = k THEN n ELSE h.idx[j]
  BY <1>4 DEF Store
<1> HIDE DEF l
<1>8. Live(g) = Live(h) \cup {n}
  BY <1>2, <1>5 DEF Live
<1>9. Ranked(g)
  <2>1. PICK rank \in [Slots -> Nat] : Ranks(h, rank)
    BY <1>1 DEF Ranked
  <2> DEFINE top == IF l = 0 THEN 0 ELSE rank[l] + 1
             f == [m \in Slots |-> IF m = n THEN top ELSE rank[m]]
  <2>2. top \in Nat /\ (l # 0 => rank[l] \in Nat /\ rank[l] < top)
    BY <1>3, <2>1
  <2> HIDE DEF top
  <2>3. f \in [Slots -> Nat]
    BY <2>1, <2>2
  <2>4. Ranks(g, f)
    <3> SUFFICES ASSUME NEW m \in Live(g), g.cells[m].next # 0
                 PROVE f[m] < f[g.cells[m].next]
      BY DEF Ranks
    <3>1. m \in Slots /\ m # n /\ m \in Live(h)
      BY <1>2, <1>5, <1>8
    <3>2. CASE m = l
      BY <1>2, <1>3, <1>5, <2>2, <3>1, <3>2
    <3>3. CASE m # l
      <4>1. g.cells[m].next = h.cells[m].next /\ h.cells[m].next \in Live(h)
        BY <1>1, <1>5, <3>1, <3>3 DEF LinksAgree
      <4>2. h.cells[m].next \in Slots /\ h.cells[m].next # n
        BY <1>2, <4>1
      <4>3. rank[m] < rank[h.cells[m].next]
        BY <1>2, <2>1, <3>1, <4>1 DEF Ranks
      <4> QED BY <3>1, <4>1, <4>2, <4>3
    <3> QED BY <3>2, <3>3
  <2> HIDE DEF f
  <2> QED BY <2>3, <2>4 DEF Ranked
<1>10. LinksAgree(q, g)
  <2>1. q.first \in Live(g) \cup {0} /\ q.last \in Live(g) \cup {0} /\ (q.first = 0 <=> q.last = 0)
    BY <1>1, <1>2, <1>8 DEF LinksAgree, l
  <2> SUFFICES ASSUME NEW m \in Live(g)
               PROVE /\ g.cells[m].next \in Live(g) \cup {0}
                     /\ g.cells[m].prev \in Live(g) \cup {0}
                     /\ g.cells[m].next = 0 <=> m = q.last
                     /\ g.cells[m].prev = 0 <=> m = q.first
                     /\ g.cells[m].next # 0 => g.cells[g.cells[m].next].prev = m
                     /\ g.cells[m].prev # 0 => g.cells[g.cells[m].prev].next = m
    BY <2>1 DEF LinksAgree
  <2>2. CASE m = n
    <3>1. (l = 0 <=> m = q.first) /\ m = q.last
      BY <1>1, <1>2, <2>2 DEF LinksAgree, l
    <3> QED BY <1>3, <1>5, <1>8, <2>2, <3>1
  <2>3. CASE m # n
    <3>1. m \in Live(h) /\ m \in Slots /\ m # 0
      BY <1>2, <1>8, <2>3
    <3>2. /\ h.cells[m].next \in Live(h) \cup {0}
          /\ h.cells[m].prev \in Live(h) \cup {0}
          /\ (h.cells[m].next = 0 <=> m = l)
          /\ (h.cells[m].prev = 0 <=> m = r.first)
          /\ (h.cells[m].next # 0 => h.cells[h.cells[m].next].prev = m)
          /\ (h.cells[m].prev # 0 => h.cells[h.cells[m].prev].next = m)
      BY <1>1, <3>1 DEF LinksAgree, l
    <3>3. l # 0 /\ q.first = r.first
      BY <1>1, <3>1 DEF l
    <3>4. (g.cells[m].next = 0 <=> m = q.last) /\ (g.cells[m].prev = 0 <=> m = q.first)
      BY <1>2, <1>5, <2>3, <3>1, <3>2, <3>3
    <3>5. /\ g.cells[m].next \in Live(g) \cup {0} /\ g.cells[m].prev \in Live(g) \cup {0}
      BY <1>5, <1>8, <2>3, <3>1, <3>2
    <3>6. g.cells[m].next # 0 => g.cells[g.cells[m].next].prev = m
      BY <1>2, <1>5, <2>3, <3>1, <3>2
    <3>7. g.cells[m].prev # 0 => g.cells[g.cells[m].prev].next = m
      <4>1. h.cells[l].next = 0
        BY <1>1, <1>3, <3>3 DEF LinksAgree, l
      <4> QED BY <1>2, <1>5, <2>3, <3>1, <3>2, <4>1
    <3> QED BY <3>4, <3>5, <3>6, <3>7
  <2> QED BY <2>2, <2>3
<1>11. q.count = Cardinality(Live(g))
  <2>1. Cardinality(Live(h) \cup {n}) = Cardinality(Live(h)) + 1
    BY <1>2, FS_AddElement
  <2> QED BY <1>1, <1>8, <2>1
<1>12. \A m \in Slots : h.cells[m].st # "free" => g.cells[m].st # "free" /\ m # n
  BY <1>5
<1>13. Closed(g)
  <2> SUFFICES ASSUME NEW m \in Slots, g.cells[m].st # "free"
               PROVE /\ g.cells[m].next # 0 => g.cells[g.cells[m].next].st # "free"
                     /\ g.cells[m].prev # 0 => g.cells[g.cells[m].prev].st # "free"
    BY DEF Closed
  <2>1. CASE m = n
    <3>1. l # 0 => h.cells[l].st = "live"
      BY <1>3, LiveFacts
    <3> QED BY <1>3, <1>5, <2>1, <3>1
  <2>2. CASE m # n
    <3>1. h.cells[m].st # "free" /\ g.cells[m].prev = h.cells[m].prev
      BY <1>5, <2>2
    <3>2. /\ h.cells[m].next # 0 => h.cells[m].next \in Slots
          /\ h.cells[m].prev # 0 => h.cells[m].prev \in Slots
      BY LinkTypes
    <3>3. /\ h.cells[m].next # 0 => h.cells[h.cells[m].next].st # "free"
          /\ h.cells[m].prev # 0 => h.cells[h.cells[m].prev].st # "free"
      BY <3>1 DEF Closed
    <3>4. g.cells[m].next = n \/ g.cells[m].next = h.cells[m].next
      BY <1>5, <2>2
    <3> QED BY <1>5, <1>12, <3>1, <3>2, <3>3, <3>4
  <2> QED BY <2>1, <2>2
<1> QED BY <1>2, <1>5, <1>6, <1>7, <1>8, <1>9, <1>10, <1>11, <1>13 DEF Linked, Joined

LEMMA AppendLinked ==
    ASSUME NEW h \in Store, NEW r \in Table, Linked(r, h), IndexedOn(h, Keys), Closed(h),
           NEW n \in Slots, h.cells[n].st = "free", NEW k \in Keys, h.idx[k] = 0,
           NEW v \in Vals, NEW q \in Table, q.count = r.count + 1, q.last = n,
           q.first = IF r.last = 0 THEN n ELSE r.first
    PROVE LET g == AppendCell(h, r.last, n, k, v)
          IN  /\ Linked(q, g) /\ IndexedOn(g, Keys) /\ Closed(g)
              /\ \A m \in Slots : h.cells[m].st # "free" => g.cells[m].st # "free"
              /\ g.cells[n].st # "free"
<1> DEFINE g == AppendCell(h, r.last, n, k, v)
<1>1. /\ Linked(q, g) /\ Closed(g) /\ Live(g) = Live(h) \cup {n} /\ n \notin Live(h)
      /\ g.cells[n].k = k /\ g.cells[n].st = "live"
      /\ \A m \in Slots : m # n => /\ g.cells[m].k = h.cells[m].k
                                   /\ g.cells[m].st = h.cells[m].st
      /\ \A j \in Keys : g.idx[j] = IF j = k THEN n ELSE h.idx[j]
  <2>1. v \in Vals \cup {None}
    OBVIOUS
  <2>2. Joined(h, g, q, n, k)
    BY <2>1, AppendJoined
  <2> HIDE DEF g
  <2> QED BY <2>2 DEF Joined
<1>2. Live(h) \subseteq Slots /\ 0 \notin Slots
  BY LiveFacts
<1> HIDE DEF g
<1>3. IndexedOn(g, Keys)
  <2>1. ASSUME NEW m \in Live(g), g.cells[m].k \in Keys PROVE g.idx[g.cells[m].k] = m
    <3>1. CASE m = n
      BY <1>1, <3>1
    <3>2. CASE m # n
      <4>1. m \in Live(h) /\ m \in Slots /\ m # 0 /\ g.cells[m].k = h.cells[m].k
        BY <1>1, <1>2, <3>2
      <4>2. h.idx[h.cells[m].k] = m
        BY <2>1, <4>1 DEF IndexedOn
      <4> QED BY <1>1, <1>2, <2>1, <4>1, <4>2
    <3> QED BY <3>1, <3>2
  <2>2. ASSUME NEW j \in Keys, g.idx[j] # 0
        PROVE g.idx[j] \in Live(g) /\ g.cells[g.idx[j]].k = j
    <3>1. CASE j = k
      BY <1>1, <3>1
    <3>2. CASE j # k
      <4>1. h.idx[j] \in Live(h) /\ h.cells[h.idx[j]].k = j /\ g.idx[j] = h.idx[j]
        BY <1>1, <2>2, <3>2 DEF IndexedOn
      <4> QED BY <1>1, <1>2, <4>1
    <3> QED BY <3>1, <3>2
  <2> QED BY <2>1, <2>2 DEF IndexedOn
<1>4. \A m \in Slots : h.cells[m].st # "free" => g.cells[m].st # "free"
  BY <1>1
<1> QED BY <1>1, <1>3, <1>4 DEF g

LEMMA UnlinkLinked ==
    ASSUME NEW h \in Store, NEW r \in Table, Linked(r, h), IndexedOn(h, Keys), Closed(h),
           NEW n \in Live(h), NEW q \in Table, q.count = r.count - 1,
           q.first = IF r.first = n THEN h.cells[n].next ELSE r.first,
           q.last = IF r.last = n THEN h.cells[n].prev ELSE r.last
    PROVE LET g == UnlinkCell(h, n)
          IN  /\ Linked(q, g) /\ IndexedOn(g, Keys) /\ Closed(g)
              /\ \A m \in Slots : h.cells[m].st # "free" => g.cells[m].st # "free"
              /\ Live(g) = Live(h) \ {n}
<1> DEFINE g == UnlinkCell(h, n)
           p == h.cells[n].prev
           x == h.cells[n].next
<1>1. LinksAgree(r, h) /\ Ranked(h) /\ r.count = Cardinality(Live(h))
  BY DEF Linked
<1>2. /\ Live(h) \subseteq Slots /\ 0 \notin Slots /\ IsFiniteSet(Live(h))
      /\ n # 0 /\ n \in Slots /\ h.cells[n].st = "live"
  BY LiveFacts
<1>3. /\ x # n /\ p # n /\ (x # 0 => x # p)
  BY <1>1, Neighbours
<1>4. /\ x # 0 => x \in Live(h) /\ x \in Slots /\ h.cells[x].prev = n
      /\ p # 0 => p \in Live(h) /\ p \in Slots /\ h.cells[p].next = n
      /\ (x = 0 <=> n = r.last) /\ (p = 0 <=> n = r.first)
  BY <1>1, <1>2 DEF LinksAgree
<1>5. \A m \in Slots :
        /\ m = n => g.cells[m] = [h.cells[m] EXCEPT !.st = "dead", !.k = 0, !.v = None]
        /\ m = p => g.cells[m] = [h.cells[m] EXCEPT !.next = x]
        /\ m = x => g.cells[m] = [h.cells[m] EXCEPT !.prev = p]
        /\ m # n /\ m # p /\ m # x => g.cells[m] = h.cells[m]
  BY <1>2, <1>3 DEF UnlinkCell
<1>6. \A m \in Slots :
        /\ g.cells[m].st = IF m = n THEN "dead" ELSE h.cells[m].st
        /\ g.cells[m].next = IF m = p THEN x ELSE h.cells[m].next
        /\ g.cells[m].prev = IF m = x THEN p ELSE h.cells[m].prev
        /\ m # n => g.cells[m].k = h.cells[m].k
  <2> TAKE m \in Slots
  <2>1. h.cells[m] \in Cell
    BY DEF Store
  <2> HIDE DEF g, p, x
  <2>2. CASE m = n
    <3>1. g.cells[m] = [h.cells[m] EXCEPT !.st = "dead", !.k = 0, !.v = None]
      BY <1>5, <2>2
    <3>2. /\ g.cells[m].st = "dead"
          /\ g.cells[m].next = h.cells[m].next
          /\ g.cells[m].prev = h.cells[m].prev
      BY <2>1, <3>1, DeadCell
    <3>3. m # p /\ m # x
      BY <1>3, <2>2
    <3> QED BY <2>2, <3>2, <3>3
  <2>3. CASE m = p
    BY <1>2, <1>3, <1>5, <2>1, <2>3 DEF Cell
  <2>4. CASE m = x
    BY <1>2, <1>3, <1>5, <2>1, <2>4 DEF Cell
  <2>5. CASE m # n /\ m # p /\ m # x
    BY <1>5, <2>5
  <2> QED BY <2>2, <2>3, <2>4, <2>5
<1>7. \A j \in Keys : g.idx[j] = IF j = h.cells[n].k THEN 0 ELSE h.idx[j]
  BY <1>2, LinkTypes DEF UnlinkCell, Store
<1> HIDE DEF g
<1>8. Live(g) = Live(h) \ {n}
  BY <1>2, <1>6 DEF Live
<1>9. h.cells[n].k \in Keys /\ h.idx[h.cells[n].k] = n
  BY <1>2, LinkTypes DEF IndexedOn
<1>10. Ranked(g)
  <2>1. PICK rank \in [Slots -> Nat] : Ranks(h, rank)
    BY <1>1 DEF Ranked
  <2>2. Ranks(g, rank)
    <3> SUFFICES ASSUME NEW m \in Live(g), g.cells[m].next # 0
                 PROVE rank[m] < rank[g.cells[m].next]
      BY DEF Ranks
    <3>1. m \in Slots /\ m # n /\ m \in Live(h)
      BY <1>2, <1>8
    <3>2. CASE m = p
      <4>1. g.cells[m].next = x /\ x # 0 /\ p # 0 /\ x \in Slots
        BY <1>2, <1>4, <1>6, <3>1, <3>2
      <4>2. rank[p] < rank[n] /\ rank[n] < rank[x]
        BY <1>2, <1>4, <2>1, <3>1, <3>2, <4>1 DEF Ranks
      <4>3. rank[p] \in Nat /\ rank[n] \in Nat /\ rank[x] \in Nat
        BY <1>2, <3>1, <3>2, <4>1
      <4> QED BY <3>2, <4>1, <4>2, <4>3
    <3>3. CASE m # p
      BY <1>6, <2>1, <3>1, <3>3 DEF Ranks
    <3> QED BY <3>2, <3>3
  <2> QED BY <2>2 DEF Ranked
<1>11. LinksAgree(q, g)
  <2>1. /\ r.first \in Live(h) \cup {0} /\ r.last \in Live(h) \cup {0}
        /\ (r.first = 0 <=> r.last = 0)
    BY <1>1 DEF LinksAgree
  <2>2. q.first \in Live(g) \cup {0} /\ q.last \in Live(g) \cup {0} /\ (q.first = 0 <=> q.last = 0)
    BY <1>2, <1>3, <1>4, <1>8, <2>1
  <2> SUFFICES ASSUME NEW m \in Live(g)
               PROVE /\ g.cells[m].next \in Live(g) \cup {0}
                     /\ g.cells[m].prev \in Live(g) \cup {0}
                     /\ g.cells[m].next = 0 <=> m = q.last
                     /\ g.cells[m].prev = 0 <=> m = q.first
                     /\ g.cells[m].next # 0 => g.cells[g.cells[m].next].prev = m
                     /\ g.cells[m].prev # 0 => g.cells[g.cells[m].prev].next = m
    BY <2>2 DEF LinksAgree
  <2>3. m \in Live(h) /\ m \in Slots /\ m # 0 /\ m # n
    BY <1>2, <1>8
  <2>4. /\ h.cells[m].next \in Live(h) \cup {0}
        /\ h.cells[m].prev \in Live(h) \cup {0}
        /\ (h.cells[m].next = 0 <=> m = r.last)
        /\ (h.cells[m].prev = 0 <=> m = r.first)
        /\ (h.cells[m].next # 0 => h.cells[h.cells[m].next].prev = m)
        /\ (h.cells[m].prev # 0 => h.cells[h.cells[m].prev].next = m)
    BY <1>1, <2>3 DEF LinksAgree
  <2>5. /\ h.cells[m].next = n => m = p
        /\ h.cells[m].prev = n => m = x
    BY <1>2, <2>4
  <2>6. /\ g.cells[m].next \in Live(g) \cup {0}
        /\ g.cells[m].prev \in Live(g) \cup {0}
    BY <1>3, <1>4, <1>6, <1>8, <2>3, <2>4, <2>5
  <2>7. /\ (g.cells[m].next = 0 <=> m = q.last)
    BY <1>2, <1>3, <1>4, <1>6, <2>3, <2>4, <2>5
  <2>8. /\ (g.cells[m].prev = 0 <=> m = q.first)
    BY <1>2, <1>3, <1>4, <1>6, <2>3, <2>4, <2>5
  <2>9. g.cells[m].next # 0 => g.cells[g.cells[m].next].prev = m
    <3>1. CASE m = p
      BY <1>2, <1>4, <1>6, <2>3, <3>1
    <3>2. CASE m # p
      <4>1. g.cells[m].next = h.cells[m].next
        BY <1>6, <2>3, <3>2
      <4>2. h.cells[m].next # 0 => h.cells[m].next \in Slots /\ h.cells[m].next # x
        BY <1>2, <1>4, <2>3, <2>4
      <4> QED BY <1>6, <2>4, <4>1, <4>2
    <3> QED BY <3>1, <3>2
  <2>10. g.cells[m].prev # 0 => g.cells[g.cells[m].prev].next = m
    <3>1. CASE m = x
      BY <1>2, <1>4, <1>6, <2>3, <3>1
    <3>2. CASE m # x
      <4>1. g.cells[m].prev = h.cells[m].prev
        BY <1>6, <2>3, <3>2
      <4>2. h.cells[m].prev # 0 => h.cells[m].prev \in Slots /\ h.cells[m].prev # p
        BY <1>2, <1>4, <2>3, <2>4
      <4> QED BY <1>6, <2>4, <4>1, <4>2
    <3> QED BY <3>1, <3>2
  <2> QED BY <2>6, <2>7, <2>8, <2>9, <2>10
<1>12. q.count = Cardinality(Live(g))
  BY <1>1, <1>2, <1>8, FS_RemoveElement
<1>13. IndexedOn(g, Keys)
  <2>1. ASSUME NEW m \in Live(g), g.cells[m].k \in Keys PROVE g.idx[g.cells[m].k] = m
    <3>1. m \in Live(h) /\ m \in Slots /\ m # n /\ g.cells[m].k = h.cells[m].k
      BY <1>2, <1>6, <1>8
    <3>2. h.idx[h.cells[m].k] = m
      BY <2>1, <3>1 DEF IndexedOn
    <3> QED BY <1>7, <1>9, <2>1, <3>1, <3>2
  <2>2. ASSUME NEW j \in Keys, g.idx[j] # 0
        PROVE g.idx[j] \in Live(g) /\ g.cells[g.idx[j]].k = j
    <3>1. j # h.cells[n].k /\ g.idx[j] = h.idx[j] /\ h.idx[j] # 0
      BY <1>7, <2>2
    <3>2. h.idx[j] \in Live(h) /\ h.cells[h.idx[j]].k = j
      BY <3>1 DEF IndexedOn
    <3>3. h.idx[j] # n /\ h.idx[j] \in Slots
      BY <1>2, <3>1, <3>2
    <3> QED BY <1>6, <1>8, <3>1, <3>2, <3>3
  <2> QED BY <2>1, <2>2 DEF IndexedOn
<1>14. \A m \in Slots : g.cells[m].st # "free" <=> h.cells[m].st # "free"
  BY <1>2, <1>6
<1>15. Closed(g)
  <2> SUFFICES ASSUME NEW m \in Slots, g.cells[m].st # "free"
               PROVE /\ g.cells[m].next # 0 => g.cells[g.cells[m].next].st # "free"
                     /\ g.cells[m].prev # 0 => g.cells[g.cells[m].prev].st # "free"
    BY DEF Closed
  <2>1. /\ h.cells[m].next # 0 => h.cells[m].next \in Slots
        /\ h.cells[m].prev # 0 => h.cells[m].prev \in Slots
        /\ h.cells[m].st # "free"
    BY <1>14, LinkTypes
  <2>2. /\ h.cells[m].next # 0 => h.cells[h.cells[m].next].st # "free"
        /\ h.cells[m].prev # 0 => h.cells[h.cells[m].prev].st # "free"
    BY <2>1 DEF Closed
  <2>3. /\ x # 0 => h.cells[x].st # "free"
        /\ p # 0 => h.cells[p].st # "free"
    BY <1>4, LiveFacts
  <2>4. /\ g.cells[m].next = x \/ g.cells[m].next = h.cells[m].next
        /\ g.cells[m].prev = p \/ g.cells[m].prev = h.cells[m].prev
    BY <1>6
  <2> QED BY <1>4, <1>14, <2>1, <2>2, <2>3, <2>4
<1> QED BY <1>8, <1>10, <1>11, <1>12, <1>13, <1>14, <1>15 DEF Linked, g

(* New keys, new values: the links stay.                                   *)
LEMMA RelabelLinked ==
    ASSUME NEW h \in Store, NEW g \in Store,
           \A m \in Slots : /\ g.cells[m].st = h.cells[m].st
                            /\ g.cells[m].next = h.cells[m].next
                            /\ g.cells[m].prev = h.cells[m].prev
    PROVE /\ Live(g) = Live(h)
          /\ \A r : Linked(r, h) => Linked(r, g)
          /\ Closed(h) => Closed(g)
<1>1. Live(g) = Live(h)
  BY DEF Live
<1>2. 0 \notin Slots /\ Live(h) \subseteq Slots
  BY LiveFacts
<1>3. ASSUME NEW r, LinksAgree(r, h) PROVE LinksAgree(r, g)
  <2>1. ASSUME NEW m \in Live(g)
        PROVE /\ g.cells[m].next \in Live(g) \cup {0}
              /\ g.cells[m].prev \in Live(g) \cup {0}
              /\ g.cells[m].next = 0 <=> m = r.last
              /\ g.cells[m].prev = 0 <=> m = r.first
              /\ g.cells[m].next # 0 => g.cells[g.cells[m].next].prev = m
              /\ g.cells[m].prev # 0 => g.cells[g.cells[m].prev].next = m
    <3>1. m \in Live(h) /\ m \in Slots
      BY <1>1, <1>2
    <3>2. /\ h.cells[m].next \in Live(h) \cup {0}
          /\ h.cells[m].prev \in Live(h) \cup {0}
          /\ (h.cells[m].next = 0 <=> m = r.last)
          /\ (h.cells[m].prev = 0 <=> m = r.first)
          /\ (h.cells[m].next # 0 => h.cells[h.cells[m].next].prev = m)
          /\ (h.cells[m].prev # 0 => h.cells[h.cells[m].prev].next = m)
      BY <1>3, <3>1 DEF LinksAgree
    <3> QED BY <1>1, <1>2, <3>1, <3>2
  <2> QED BY <1>1, <1>3, <2>1 DEF LinksAgree
<1>4. Ranked(h) => Ranked(g)
  <2> SUFFICES ASSUME NEW rank \in [Slots -> Nat], Ranks(h, rank) PROVE Ranks(g, rank)
    BY DEF Ranked
  <2> QED BY <1>1, <1>2 DEF Ranks
<1>5. ASSUME Closed(h) PROVE Closed(g)
  <2> SUFFICES ASSUME NEW m \in Slots, g.cells[m].st # "free"
               PROVE /\ g.cells[m].next # 0 => g.cells[g.cells[m].next].st # "free"
                     /\ g.cells[m].prev # 0 => g.cells[g.cells[m].prev].st # "free"
    BY DEF Closed
  <2>1. /\ h.cells[m].next # 0 => h.cells[m].next \in Slots
        /\ h.cells[m].prev # 0 => h.cells[m].prev \in Slots
    BY LinkTypes
  <2> QED BY <1>5, <2>1 DEF Closed
<1> QED BY <1>1, <1>3, <1>4, <1>5 DEF Linked

(* Cells of a list with integer keys are given different keys: the one     *)
(* further on has more such cells before it.                               *)
LEMMA NewKeysDiffer ==
    ASSUME NEW h \in Store, NEW r \in Table, Linked(r, h),
           NEW a \in IntCells(h, r.first), NEW b \in IntCells(h, r.first), a # b
    PROVE NewKey(h, r.first, a) # NewKey(h, r.first, b)
<1> DEFINE W == Walk(h, r.first)
           Before(n) == IntsBefore(h, r.first, n)
<1>1. PICK rank \in [Slots -> Nat] : Ranks(h, rank)
  BY DEF Linked, Ranked
<1>2. /\ \A i \in 0..MaxSlots : W[i] \in Live(h) \cup {0}
      /\ \A j \in 0..MaxSlots : \A i \in 0..(j - 1) :
           W[j] # 0 => W[i] # 0 /\ rank[W[i]] < rank[W[j]]
  BY <1>1, WalkOfList DEF Linked
<1>3. /\ Live(h) \subseteq Slots /\ 0 \notin Slots
      /\ a \in Slots /\ b \in Slots /\ h.cells[a].k \in IntKeys /\ h.cells[b].k \in IntKeys
  BY LiveFacts, ChainType DEF IntCells
<1>4. \A n : /\ Before(n) \subseteq Slots
             /\ \A m : m \in Before(n) <=>
                  /\ m \in Slots /\ h.cells[m].k \in IntKeys
                  /\ \E i, j \in 0..MaxSlots : i < j /\ W[i] = m /\ W[j] = n
  BY DEF IntsBefore
<1>5. /\ \E i \in 0..MaxSlots : W[i] = a
      /\ \E i \in 0..MaxSlots : W[i] = b
  BY DEF IntCells, Chain
<1> HIDE DEF W, Before
<1>6. \A i, j \in 0..MaxSlots : W[i] # 0 /\ W[i] = W[j] => i = j
  <2> SUFFICES ASSUME NEW i \in 0..MaxSlots, NEW j \in 0..MaxSlots, i < j, W[i] # 0,
                      W[i] = W[j]
               PROVE FALSE
    BY BoundsAssumption
  <2>1. i \in 0..(j - 1)
    BY BoundsAssumption
  <2>2. rank[W[i]] < rank[W[j]]
    BY <1>2, <2>1
  <2>3. rank[W[i]] \in Nat
    BY <1>1, <1>2, <1>3
  <2> QED BY <2>2, <2>3
<1>7. ASSUME NEW c \in Slots, NEW d \in Slots, h.cells[c].k \in IntKeys,
             NEW x \in 0..MaxSlots, NEW y \in 0..MaxSlots, W[x] = c, W[y] = d, x < y
      PROVE Cardinality(Before(c)) < Cardinality(Before(d))
  <2>1. c \in Before(d)
    BY <1>4, <1>7
  <2>2. c \notin Before(c)
    <3> SUFFICES ASSUME c \in Before(c) PROVE FALSE
      OBVIOUS
    <3>1. PICK i, j \in 0..MaxSlots : i < j /\ W[i] = c /\ W[j] = c
      BY <1>4
    <3> QED BY <1>3, <1>6, <3>1
  <2>3. ASSUME NEW m \in Before(c) PROVE m \in Before(d)
    <3>1. PICK i, j \in 0..MaxSlots : i < j /\ W[i] = m /\ W[j] = c
      BY <1>4
    <3>2. j = x
      BY <1>3, <1>6, <1>7, <3>1
    <3>3. i < y
      BY <1>7, <3>1, <3>2
    <3>4. m \in Slots /\ h.cells[m].k \in IntKeys
      BY <1>4
    <3> QED BY <1>4, <1>7, <3>1, <3>3, <3>4
  <2>4. IsFiniteSet(Before(d))
    <3>1. IsFiniteSet(Slots) /\ Before(d) \subseteq Slots
      BY <1>4, FS_Interval, BoundsAssumption DEF Slots
    <3> QED BY <3>1, FS_Subset
  <2>5. Before(c) \in SUBSET Before(d) /\ Before(c) # Before(d)
    BY <2>1, <2>2, <2>3
  <2>6. /\ Cardinality(Before(c)) <= Cardinality(Before(d))
        /\ Cardinality(Before(c)) # Cardinality(Before(d))
    BY <2>4, <2>5, FS_Subset
  <2>7. Cardinality(Before(c)) \in Nat /\ Cardinality(Before(d)) \in Nat
    BY <2>4, <2>5, FS_Subset, FS_CardinalityType
  <2> QED BY <2>6, <2>7
<1>8. PICK x \in 0..MaxSlots : W[x] = a
  BY <1>5
<1>9. PICK y \in 0..MaxSlots : W[y] = b
  BY <1>5
<1>10. Cardinality(Before(a)) \in Nat /\ Cardinality(Before(b)) \in Nat
  <2>1. \A n : Cardinality(Before(n)) \in 0..MaxSlots
    BY <1>4, SubsetSize
  <2> QED BY <2>1
<1>11. x # y
  BY <1>8, <1>9
<1>12. Cardinality(Before(a)) # Cardinality(Before(b))
  <2>1. CASE x < y
    BY <1>3, <1>7, <1>8, <1>9, <1>10, <2>1
  <2>2. CASE y < x
    BY <1>3, <1>7, <1>8, <1>9, <1>10, <2>2
  <2> QED BY <1>11, <2>1, <2>2
<1> QED BY <1>12 DEF NewKey, Before

(* ResetIntKeys, Shift and Unshift rebuild the integer map to match.       *)
LEMMA RenumberLinked ==
    ASSUME NEW h \in Store, NEW r \in Table, Linked(r, h), Closed(h),
           IndexedOn(h, Keys \ IntKeys)
    PROVE LET g == Renumber(h, r.first)
          IN  /\ g \in Store /\ Live(g) = Live(h)
              /\ \A q : Linked(q, h) => Linked(q, g)
              /\ IndexedOn(g, Keys) /\ Closed(g)
              /\ \A m \in Slots : g.cells[m].st = h.cells[m].st
<1> DEFINE g == Renumber(h, r.first)
           I == IntCells(h, r.first)
           new(n) == NewKey(h, r.first, n)
           at(k) == {n \in I : new(n) = k}
<1>1. g \in Store
  BY RenumberType
<1>2. \A n \in I : new(n) \in IntKeys
  <2>1. \A n : IntsBefore(h, r.first, n) \in SUBSET Slots
    BY DEF IntsBefore
  <2> QED BY <2>1, SubsetSize, SizeIsKey DEF NewKey
<1>3. I = {n \in Live(h) : h.cells[n].k \in IntKeys}
  BY WalkIsLive DEF Linked, IntCells
<1>4. \A n \in Slots : g.cells[n] = IF n \in I THEN [h.cells[n] EXCEPT !.k = new(n)]
                                    ELSE h.cells[n]
  BY DEF Renumber
<1>5. \A k \in Keys : g.idx[k] = IF k \notin IntKeys THEN h.idx[k]
                                 ELSE IF at(k) = {} THEN 0 ELSE CHOOSE n \in at(k) : TRUE
  BY DEF Renumber
<1>6. \A a, b \in I : a # b => new(a) # new(b)
  BY NewKeysDiffer
<1>7. Live(h) \subseteq Slots /\ 0 \notin Slots
  BY LiveFacts
<1> HIDE DEF g, I, new, at
<1>8. \A n \in Slots : /\ g.cells[n].st = h.cells[n].st
                       /\ g.cells[n].next = h.cells[n].next
                       /\ g.cells[n].prev = h.cells[n].prev
                       /\ g.cells[n].k = IF n \in I THEN new(n) ELSE h.cells[n].k
  <2> TAKE n \in Slots
  <2>1. h.cells[n] \in Cell
    BY DEF Store
  <2>2. CASE n \in I
    <3>1. g.cells[n] = [h.cells[n] EXCEPT !.k = new(n)]
      BY <1>4, <2>2
    <3> QED BY <2>1, <2>2, <3>1 DEF Cell
  <2>3. CASE n \notin I
    BY <1>4, <2>3
  <2> QED BY <2>2, <2>3
<1>9. /\ Live(g) = Live(h) /\ \A q : Linked(q, h) => Linked(q, g)
      /\ Closed(g)
  BY <1>1, <1>8, RelabelLinked
<1>10. ASSUME NEW m \in Live(g), g.cells[m].k \in Keys PROVE g.idx[g.cells[m].k] = m
  <2>1. m \in Live(h) /\ m \in Slots
    BY <1>7, <1>9
  <2>2. CASE m \in I
    <3>1. g.cells[m].k = new(m) /\ new(m) \in IntKeys
      BY <1>2, <1>8, <2>1, <2>2
    <3>2. at(new(m)) = {m}
      BY <1>6, <2>2 DEF at
    <3>3. (CHOOSE n \in {m} : TRUE) = m
      OBVIOUS
    <3> QED BY <1>5, <1>10, <3>1, <3>2, <3>3
  <2>3. CASE m \notin I
    <3>1. g.cells[m].k = h.cells[m].k /\ h.cells[m].k \notin IntKeys
      BY <1>3, <1>8, <2>1, <2>3
    <3>2. h.idx[h.cells[m].k] = m
      BY <1>10, <2>1, <3>1 DEF IndexedOn
    <3> QED BY <1>5, <1>10, <3>1, <3>2
  <2> QED BY <2>2, <2>3
<1>11. ASSUME NEW k \in Keys, g.idx[k] # 0
       PROVE g.idx[k] \in Live(g) /\ g.cells[g.idx[k]].k = k
  <2>1. CASE k \notin IntKeys
    <3>1. g.idx[k] = h.idx[k]
      BY <1>5, <2>1
    <3>2. h.idx[k] \in Live(h) /\ h.cells[h.idx[k]].k = k
      BY <1>11, <2>1, <3>1 DEF IndexedOn
    <3>3. h.idx[k] \notin I /\ h.idx[k] \in Slots
      BY <1>3, <1>7, <2>1, <3>2
    <3> QED BY <1>8, <1>9, <3>1, <3>2, <3>3
  <2>2. CASE k \in IntKeys
    <3> DEFINE n == CHOOSE x \in at(k) : TRUE
    <3>1. at(k) # {} /\ g.idx[k] = n
      BY <1>5, <1>11, <2>2
    <3>2. n \in at(k)
      BY <3>1
    <3> HIDE DEF n
    <3>3. n \in I /\ new(n) = k /\ n \in Live(h) /\ n \in Slots
      BY <1>3, <1>7, <3>2 DEF at
    <3> QED BY <1>8, <1>9, <3>1, <3>3
  <2> QED BY <2>1, <2>2
<1>12. IndexedOn(g, Keys)
  BY <1>10, <1>11 DEF IndexedOn
<1> QED BY <1>1, <1>8, <1>9, <1>12 DEF g

(* The cells of g: those of h with a cell n pushed in front of the list.   *)
InFront(h, first, n, v, g) ==
    \A m \in Slots : g.cells[m] =
      CASE m = n -> [prev |-> 0, next |-> first, k |-> 0, v |-> v, st |-> "live"]
        [] m = first /\ m # n -> [h.cells[m] EXCEPT !.prev = n]
        [] OTHER -> h.cells[m]

LEMMA PushFrontLinked ==
    ASSUME NEW h \in Store, NEW r \in Table, Linked(r, h), IndexedOn(h, Keys), Closed(h),
           NEW n \in Slots, h.cells[n].st = "free", NEW v, NEW g \in Store, g.idx = h.idx,
           InFront(h, r.first, n, v, g),
           NEW q \in Table, q.count = r.count + 1, q.first = n,
           r.first = 0 => q.last = n, r.first # 0 => q.last = r.last
    PROVE /\ Linked(q, g) /\ IndexedOn(g, Keys \ IntKeys) /\ Closed(g)
          /\ \A m \in Slots : h.cells[m].st # "free" => g.cells[m].st # "free"
<1> DEFINE f == r.first
<1>1. /\ LinksAgree(r, h) /\ Ranked(h) /\ r.count = Cardinality(Live(h))
      /\ (f = 0 <=> r.last = 0) /\ (f = 0 => Live(h) = {})
  BY WalkIsLive DEF Linked, LinksAgree
<1>2. /\ Live(h) \subseteq Slots /\ 0 \notin Slots /\ IsFiniteSet(Live(h)) /\ n \notin Live(h)
      /\ n # 0
  BY LiveFacts
<1>3. f # 0 => f \in Live(h) /\ f # n /\ f \in Slots
  BY <1>1, <1>2 DEF LinksAgree
<1>4. /\ g.cells[n] = [prev |-> 0, next |-> f, k |-> 0, v |-> v, st |-> "live"]
      /\ \A m \in Slots : m # n /\ m # f => g.cells[m] = h.cells[m]
      /\ f # 0 => g.cells[f] = [h.cells[f] EXCEPT !.prev = n]
  BY <1>3 DEF InFront
<1>5. /\ g.cells[n].prev = 0 /\ g.cells[n].next = f /\ g.cells[n].k = 0 /\ g.cells[n].st = "live"
      /\ \A m \in Slots : m # n =>
           /\ g.cells[m].next = h.cells[m].next /\ g.cells[m].k = h.cells[m].k
           /\ g.cells[m].st = h.cells[m].st
           /\ g.cells[m].prev = IF m = f THEN n ELSE h.cells[m].prev
  <2>1. /\ g.cells[n].prev = 0 /\ g.cells[n].next = f /\ g.cells[n].k = 0
        /\ g.cells[n].st = "live"
    BY <1>4
  <2>2. ASSUME NEW m \in Slots, m # n
        PROVE /\ g.cells[m].next = h.cells[m].next /\ g.cells[m].k = h.cells[m].k
              /\ g.cells[m].st = h.cells[m].st
              /\ g.cells[m].prev = IF m = f THEN n ELSE h.cells[m].prev
    <3>1. h.cells[m] \in Cell
      BY DEF Store
    <3>2. CASE m # f
      BY <1>4, <2>2, <3>2
    <3>3. CASE m = f
      <4>1. g.cells[m] = [h.cells[m] EXCEPT !.prev = n]
        BY <1>2, <1>4, <3>3
      <4> HIDE DEF f
      <4> QED BY <3>1, <3>3, <4>1 DEF Cell
    <3> QED BY <3>2, <3>3
  <2> QED BY <2>1, <2>2
<1> HIDE DEF f
<1>6. Live(g) = Live(h) \cup {n}
  BY <1>2, <1>5 DEF Live
<1>7. Ranked(g)
  <2>1. PICK rank \in [Slots -> Nat] : Ranks(h, rank)
    BY <1>1 DEF Ranked
  <2> DEFINE up == [m \in Slots |-> IF m = n THEN 0 ELSE rank[m] + 1]
  <2>2. up \in [Slots -> Nat]
    BY <2>1
  <2>3. Ranks(g, up)
    <3> SUFFICES ASSUME NEW m \in Live(g), g.cells[m].next # 0
                 PROVE up[m] < up[g.cells[m].next]
      BY DEF Ranks
    <3>1. CASE m = n
      <4>1. f # 0 /\ g.cells[m].next = f
        BY <1>5, <3>1
      <4>2. rank[f] \in Nat
        BY <1>3, <2>1, <4>1
      <4> QED BY <1>3, <3>1, <4>1, <4>2
    <3>2. CASE m # n
      <4>1. m \in Live(h) /\ m \in Slots
        BY <1>2, <1>6, <3>2
      <4>2. g.cells[m].next = h.cells[m].next /\ h.cells[m].next \in Live(h)
        BY <1>1, <1>5, <3>2, <4>1 DEF LinksAgree
      <4>3. h.cells[m].next \in Slots /\ h.cells[m].next # n
        BY <1>2, <4>2
      <4>4. rank[m] < rank[h.cells[m].next]
        BY <1>2, <2>1, <4>1, <4>2 DEF Ranks
      <4>5. rank[m] \in Nat /\ rank[h.cells[m].next] \in Nat
        BY <2>1, <4>1, <4>3
      <4> QED BY <3>2, <4>1, <4>2, <4>3, <4>4, <4>5
    <3> QED BY <3>1, <3>2
  <2> HIDE DEF up
  <2> QED BY <2>2, <2>3 DEF Ranked
<1>8. LinksAgree(q, g)
  <2>1. q.first \in Live(g) \cup {0} /\ q.last \in Live(g) \cup {0} /\ (q.first = 0 <=> q.last = 0)
    BY <1>1, <1>2, <1>6 DEF LinksAgree, f
  <2> SUFFICES ASSUME NEW m \in Live(g)
               PROVE /\ g.cells[m].next \in Live(g) \cup {0}
                     /\ g.cells[m].prev \in Live(g) \cup {0}
                     /\ g.cells[m].next = 0 <=> m = q.last
                     /\ g.cells[m].prev = 0 <=> m = q.first
                     /\ g.cells[m].next # 0 => g.cells[g.cells[m].next].prev = m
                     /\ g.cells[m].prev # 0 => g.cells[g.cells[m].prev].next = m
    BY <2>1 DEF LinksAgree
  <2>2. CASE m = n
    <3>1. (f = 0 <=> m = q.last) /\ m = q.first
      BY <1>1, <1>2, <2>2 DEF LinksAgree, f
    <3> QED BY <1>3, <1>5, <1>6, <2>2, <3>1
  <2>3. CASE m # n
    <3>1. m \in Live(h) /\ m \in Slots /\ m # 0
      BY <1>2, <1>6, <2>3
    <3>2. /\ h.cells[m].next \in Live(h) \cup {0}
          /\ h.cells[m].prev \in Live(h) \cup {0}
          /\ (h.cells[m].next = 0 <=> m = r.last)
          /\ (h.cells[m].prev = 0 <=> m = f)
          /\ (h.cells[m].next # 0 => h.cells[h.cells[m].next].prev = m)
          /\ (h.cells[m].prev # 0 => h.cells[h.cells[m].prev].next = m)
      BY <1>1, <3>1 DEF LinksAgree, f
    <3>3. f # 0 /\ q.last = r.last
      BY <1>1, <3>1 DEF f
    <3>4. (g.cells[m].next = 0 <=> m = q.last) /\ (g.cells[m].prev = 0 <=> m = q.first)
      BY <1>2, <1>5, <2>3, <3>1, <3>2, <3>3
    <3>5. /\ g.cells[m].next \in Live(g) \cup {0} /\ g.cells[m].prev \in Live(g) \cup {0}
      BY <1>5, <1>6, <2>3, <3>1, <3>2
    <3>6. g.cells[m].next # 0 => g.cells[g.cells[m].next].prev = m
      <4>1. h.cells[f].prev = 0
        BY <1>1, <1>3, <3>3 DEF LinksAgree, f
      <4> QED BY <1>2, <1>5, <2>3, <3>1, <3>2, <4>1
    <3>7. g.cells[m].prev # 0 => g.cells[g.cells[m].prev].next = m
      BY <1>2, <1>5, <2>3, <3>1, <3>2
    <3> QED BY <3>4, <3>5, <3>6, <3>7
  <2> QED BY <2>2, <2>3
<1>9. q.count = Cardinality(Live(g))
  <2>1. Cardinality(Live(h) \cup {n}) = Cardinality(Live(h)) + 1
    BY <1>2, FS_AddElement
  <2> QED BY <1>1, <1>6, <2>1
<1>10. IndexedOn(g, Keys \ IntKeys)
  <2>1. 0 \in IntKeys
    BY BoundsAssumption DEF IntKeys
  <2>2. ASSUME NEW m \in Live(g), g.cells[m].k \in Keys \ IntKeys
        PROVE g.idx[g.cells[m].k] = m
    <3>1. m # n /\ m \in Live(h) /\ m \in Slots
      BY <1>2, <1>5, <1>6, <2>1, <2>2
    <3> QED BY <1>5, <2>2, <3>1 DEF IndexedOn
  <2>3. ASSUME NEW j \in Keys \ IntKeys, g.idx[j] # 0
        PROVE g.idx[j] \in Live(g) /\ g.cells[g.idx[j]].k = j
    <3>1. h.idx[j] \in Live(h) /\ h.cells[h.idx[j]].k = j
      BY <2>3 DEF IndexedOn
    <3> QED BY <1>2, <1>5, <1>6, <3>1
  <2> QED BY <2>2, <2>3 DEF IndexedOn
<1>11. \A m \in Slots : h.cells[m].st # "free" => g.cells[m].st # "free" /\ m # n
  BY <1>5
<1>12. Closed(g)
  <2> SUFFICES ASSUME NEW m \in Slots, g.cells[m].st # "free"
               PROVE /\ g.cells[m].next # 0 => g.cells[g.cells[m].next].st # "free"
                     /\ g.cells[m].prev # 0 => g.cells[g.cells[m].prev].st # "free"
    BY DEF Closed
  <2>1. CASE m = n
    <3>1. f # 0 => h.cells[f].st = "live"
      BY <1>3, LiveFacts
    <3> QED BY <1>3, <1>5, <2>1, <3>1
  <2>2. CASE m # n
    <3>1. h.cells[m].st # "free" /\ g.cells[m].next = h.cells[m].next
      BY <1>5, <2>2
    <3>2. /\ h.cells[m].next # 0 => h.cells[m].next \in Slots
          /\ h.cells[m].prev # 0 => h.cells[m].prev \in Slots
      BY LinkTypes
    <3>3. /\ h.cells[m].next # 0 => h.cells[h.cells[m].next].st # "free"
          /\ h.cells[m].prev # 0 => h.cells[h.cells[m].prev].st # "free"
      BY <3>1 DEF Closed
    <3>4. g.cells[m].prev = n \/ g.cells[m].prev = h.cells[m].prev
      BY <1>5, <2>2
    <3> QED BY <1>5, <1>11, <3>1, <3>2, <3>3, <3>4
  <2> QED BY <2>1, <2>2
<1> QED BY <1>7, <1>8, <1>9, <1>10, <1>11, <1>12 DEF Linked

(* What Clear leaves of the store h: the indexed cells marked deleted.     *)
Cleared(h, g) ==
    /\ g.idx = [k \in Keys |-> 0]
    /\ \A m \in Slots : g.cells[m] =
         IF m \notin {h.idx[k] : k \in Keys} THEN h.cells[m]
         ELSE [h.cells[m] EXCEPT !.st = "dead", !.k = 0, !.v = None]

(* Clear: every live cell is indexed, so every one is marked deleted.      *)
LEMMA ClearLinked ==
    ASSUME NEW h \in Store, IndexedOn(h, Keys), Closed(h), NEW g \in Store, Cleared(h, g),
           NEW q \in Table, q.first = 0, q.last = 0, q.count = 0
    PROVE /\ Linked(q, g) /\ IndexedOn(g, Keys) /\ Closed(g)
          /\ \A m \in Slots : h.cells[m].st # "free" => g.cells[m].st # "free"
<1> USE DEF Cleared
<1> DEFINE indexed == {h.idx[k] : k \in Keys}
<1>1. \A m \in Slots : /\ g.cells[m].st = IF m \in indexed THEN "dead" ELSE h.cells[m].st
                       /\ g.cells[m].next = h.cells[m].next
                       /\ g.cells[m].prev = h.cells[m].prev
  <2> TAKE m \in Slots
  <2>1. h.cells[m] \in Cell
    BY DEF Store
  <2>2. CASE m \in indexed
    <3>1. g.cells[m] = [h.cells[m] EXCEPT !.st = "dead", !.k = 0, !.v = None]
      BY <2>2
    <3> HIDE DEF indexed
    <3> QED BY <2>1, <2>2, <3>1, DeadCell
  <2>3. CASE m \notin indexed
    BY <2>3
  <2> QED BY <2>2, <2>3
<1>2. \A m \in Slots : h.cells[m].st = "live" => m \in indexed
  <2> SUFFICES ASSUME NEW m \in Slots, h.cells[m].st = "live" PROVE m \in indexed
    OBVIOUS
  <2>1. m \in Live(h) /\ h.cells[m].k \in Keys
    BY LinkTypes DEF Live
  <2>2. h.idx[h.cells[m].k] = m
    BY <2>1 DEF IndexedOn
  <2> QED BY <2>1, <2>2
<1>3. \A m \in indexed : m # 0 => h.cells[m].st # "free"
  <2> SUFFICES ASSUME NEW k \in Keys, h.idx[k] # 0 PROVE h.cells[h.idx[k]].st # "free"
    OBVIOUS
  <2>1. h.idx[k] \in Live(h)
    BY DEF IndexedOn
  <2> QED BY <2>1 DEF Live
<1> HIDE DEF indexed
<1>4. Live(g) = {}
  BY <1>1, <1>2 DEF Live
<1>5. \A m \in Slots : g.cells[m].st # "free" <=> h.cells[m].st # "free"
  <2>1. 0 \notin Slots
    BY LiveFacts
  <2> QED BY <1>1, <1>3, <2>1
<1>6. Closed(g)
  <2> SUFFICES ASSUME NEW m \in Slots, g.cells[m].st # "free"
               PROVE /\ g.cells[m].next # 0 => g.cells[g.cells[m].next].st # "free"
                     /\ g.cells[m].prev # 0 => g.cells[g.cells[m].prev].st # "free"
    BY DEF Closed
  <2>1. /\ h.cells[m].next # 0 => h.cells[m].next \in Slots
        /\ h.cells[m].prev # 0 => h.cells[m].prev \in Slots
    BY LinkTypes
  <2>2. /\ g.cells[m].next = h.cells[m].next
        /\ g.cells[m].prev = h.cells[m].prev
    BY <1>1
  <2>3. h.cells[m].st # "free"
    BY <1>5
  <2>4. /\ h.cells[m].next # 0 => h.cells[h.cells[m].next].st # "free"
        /\ h.cells[m].prev # 0 => h.cells[h.cells[m].prev].st # "free"
    BY <2>3 DEF Closed
  <2>5. /\ h.cells[m].next # 0 => g.cells[h.cells[m].next].st # "free"
        /\ h.cells[m].prev # 0 => g.cells[h.cells[m].prev].st # "free"
    BY <1>5, <2>1, <2>4
  <2> QED BY <2>2, <2>5
<1>7. Linked(q, g)
  <2>1. [m \in Slots |-> 0] \in [Slots -> Nat]
    OBVIOUS
  <2>2. Ranked(g)
    BY <1>4, <2>1 DEF Ranked, Ranks
  <2> QED BY <1>4, <2>2, FS_EmptySet DEF Linked, LinksAgree
<1>8. IndexedOn(g, Keys)
  <2>1. \A k \in Keys : g.idx[k] = 0
    OBVIOUS
  <2> QED BY <1>4, <2>1 DEF IndexedOn
<1> QED BY <1>5, <1>6, <1>7, <1>8

-----------------------------------------------------------------------------
(* One lemma per action.                                                   *)

LEMMA LinkedFields ==
    ASSUME NEW r, NEW h, Linked(r, h), NEW q,
           q.first = r.first, q.last = r.last, q.count = r.count
    PROVE Linked(q, h)
BY DEF Linked, LinksAgree

(* The fields of the table after a step are those of a table.              *)
LEMMA CommitTyped ==
    ASSUME Inv, Inv', NEW t \in Tables, NEW s, NEW r, NEW h, Commit(t, s, r, h)
    PROVE r \in Table
<1>1. tab'[t] = r
  BY DEF Commit, Inv, TypeOK
<1> QED BY <1>1 DEF Inv, TypeOK

LEMMA AppendedFields ==
    ASSUME NEW r \in Table, NEW s \in Stores, NEW n \in Slots
    PROVE LET q == Appended(r, s, n)
          IN  /\ q.count = r.count + 1 /\ q.last = n
              /\ q.first = IF r.last = 0 THEN n ELSE r.first
              /\ q.main = r.main \/ q.main = At(s, n)
              /\ q.store = r.store
              /\ \A x : LET w == [q EXCEPT !.inc = x]
                        IN  /\ w.count = q.count /\ w.last = q.last /\ w.first = q.first
                            /\ w.main = q.main /\ w.store = q.store
              /\ \A x : LET w == Advanced(q, x)
                        IN  /\ w.count = q.count /\ w.last = q.last /\ w.first = q.first
                            /\ w.main = q.main /\ w.store = q.store
<1> DEFINE q == Appended(r, s, n)
<1>1. /\ q.count = r.count + 1 /\ q.last = n
      /\ q.first = IF r.last = 0 THEN n ELSE r.first
      /\ q.main = r.main \/ q.main = At(s, n)
      /\ q.store = r.store
  BY DEF Appended, Table
<1>2. q \in Table
  BY AppendedType
<1> HIDE DEF q
<1>3. \A x : LET w == [q EXCEPT !.inc = x]
             IN  /\ w.count = q.count /\ w.last = q.last /\ w.first = q.first
                 /\ w.main = q.main /\ w.store = q.store
  BY <1>2 DEF Table
<1>4. \A x : LET w == Advanced(q, x)
             IN  /\ w.count = q.count /\ w.last = q.last /\ w.first = q.first
                 /\ w.main = q.main /\ w.store = q.store
  BY <1>2 DEF Advanced, Table
<1> QED BY <1>1, <1>3, <1>4 DEF q

LEMMA UnlinkedFields ==
    ASSUME NEW r \in Table, NEW h \in Store, NEW n \in Slots
    PROVE LET q == Unlinked(r, h, n)
          IN  /\ q \in Table /\ q.count = r.count - 1 /\ q.main = r.main
              /\ q.first = IF r.first = n THEN h.cells[n].next ELSE r.first
              /\ q.last = IF r.last = n THEN h.cells[n].prev ELSE r.last
              /\ q.store = r.store
<1>1. Unlinked(r, h, n) \in Table
  BY UnlinkedType
<1> QED BY <1>1 DEF Unlinked, Table

(* What every write has in hand once its store is chosen.                  *)
LEMMA HomeFacts ==
    ASSUME Inv, Connected, NEW t \in Tables, tab[t].live, NEW s \in Stores, Home(t, s)
    PROVE /\ PrivateStore(t) \in Store /\ Private(t, s) \in Table
          /\ Private(t, s).store = s /\ Private(t, s).live
          /\ Linked(Private(t, s), PrivateStore(t))
          /\ IndexedOn(PrivateStore(t), Keys) /\ Closed(PrivateStore(t))
BY HomeIsPrivate, PrivateFacts

LEMMA NewConnected ==
    ASSUME Inv, Connected, NEW t \in Tables, New(t) PROVE Connected'
<1>1. PICK s \in Stores : NewStore(s) /\ Commit(t, s, NewTable(s), EmptyStore)
  BY DEF New
<1>2. /\ NewTable(s) \in Table /\ EmptyStore \in Store
      /\ NewTable(s).store = s /\ NewTable(s).main = PastEnd
  BY EmptyTypes DEF NewTable, NoTable
<1>3. /\ Linked(NewTable(s), EmptyStore) /\ IndexedOn(EmptyStore, Keys) /\ Closed(EmptyStore)
  BY EmptyStoreFacts
<1>4. /\ CursorIn(Placed(s, EmptyStore), NewTable(s).main)
      /\ \A u \in Tables : CursorIn(Placed(s, EmptyStore), tab[u].main)
      /\ \A i \in Iters : CursorIn(Placed(s, EmptyStore), its[i].cur)
  BY <1>1, <1>2, NewStoreCursors DEF CursorIn
<1>5. /\ its' = its /\ its' \in [Iters -> Iter \cup {NoIter}]
      /\ \A u \in Tables : tab[u].store # s
  BY <1>1 DEF New, Inv, TypeOK, NewStore, FreeStore
<1> QED BY <1>1, <1>2, <1>3, <1>4, <1>5, CommitConnected

LEMMA DupConnected ==
    ASSUME Inv, Connected, NEW t \in Tables, NEW u \in Tables, Dup(t, u) PROVE Connected'
<1>1. /\ tab \in [Tables -> Table] /\ heap' = heap /\ its' = its /\ tab[t].live
  BY DEF Dup, Inv, TypeOK
<1>2. \A w \in Tables :
        \/ tab'[w] = tab[w]
        \/ /\ tab'[w].first = tab[t].first /\ tab'[w].last = tab[t].last
           /\ tab'[w].count = tab[t].count /\ tab'[w].store = tab[t].store
           /\ tab'[w].main = tab[t].main
  <2> TAKE w \in Tables
  <2>1. CASE w = u
    BY <1>1, <2>1 DEF Dup, Table
  <2>2. CASE w = t /\ w # u
    <3>1. tab'[w] = [tab[t] EXCEPT !.cow = TRUE]
      BY <1>1, <2>2 DEF Dup
    <3> QED BY <1>1, <3>1 DEF Table
  <2>3. CASE w # t /\ w # u
    BY <1>1, <2>3 DEF Dup
  <2> QED BY <2>1, <2>2, <2>3
<1>3. ASSUME NEW w \in Tables, tab'[w].live
      PROVE Linked(tab'[w], heap[tab'[w].store]) /\ IndexedOn(heap[tab'[w].store], Keys)
  BY <1>1, <1>2, <1>3, LinkedFields DEF Connected, TablesLinked
<1>4. \A w \in Tables : CursorIn(heap, tab'[w].main)
  BY <1>2 DEF Connected
<1>5. TablesLinked'
  <2>1. ASSUME NEW w \in Tables, tab'[w].live
        PROVE Linked(tab'[w], heap'[tab'[w].store]) /\ IndexedOn(heap'[tab'[w].store], Keys)
    BY <1>1, <1>3, <2>1
  <2> QED BY <2>1 DEF TablesLinked, Linked, LinksAgree, Ranked, Ranks, IndexedOn, Live
<1>6. (\A s \in Stores : Closed(heap[s])') /\ \A i \in Iters : CursorIn(heap, its[i].cur)'
  BY <1>1 DEF Connected, Closed, CursorIn
<1>7. \A w \in Tables : CursorIn(heap, tab[w].main)'
  BY <1>1, <1>4 DEF CursorIn
<1> QED BY <1>5, <1>6, <1>7 DEF Connected

LEMMA DeepCopyConnected ==
    ASSUME Inv, Connected, NEW t \in Tables, NEW u \in Tables, DeepCopy(t, u)
    PROVE Connected'
<1> DEFINE o == tab[t]
           h == Copy(heap[o.store], o.first)
           q(s) == [o EXCEPT !.store = s, !.cow = FALSE, !.incInit = FALSE,
                             !.main = At(s, o.first)]
<1>1. PICK s \in Stores : NewStore(s) /\ Commit(u, s, q(s), h)
  BY DEF DeepCopy
<1>2. /\ o \in Table /\ o.live /\ heap[o.store] \in Store /\ its' = its
      /\ its' \in [Iters -> Iter \cup {NoIter}]
      /\ Linked(o, heap[o.store]) /\ IndexedOn(heap[o.store], Keys)
  BY DEF DeepCopy, Inv, TypeOK, Connected, TablesLinked
<1>3. /\ q(s).first = o.first /\ q(s).last = o.last /\ q(s).count = o.count
      /\ q(s).store = s /\ q(s).main = At(s, o.first)
  BY <1>2 DEF Table
<1>4. q(s) \in Table
  <2>1. Inv'
    BY DeepCopyStep
  <2> HIDE DEF q, h
  <2> QED BY <1>1, <2>1, CommitTyped
<1> HIDE DEF o, q
<1>5. /\ h \in Store /\ Live(h) = Live(heap[o.store]) /\ Linked(o, h)
      /\ IndexedOn(h, Keys) /\ Closed(h)
  BY <1>2, CopyFacts
<1> HIDE DEF h
<1>6. Linked(q(s), h)
  BY <1>3, <1>5, LinkedFields
<1>7. CursorIn(Placed(s, h), q(s).main)
  <2>1. o.first \in Links /\ (o.first # 0 => h.cells[o.first].st # "free")
    BY <1>2, <1>5 DEF Linked, LinksAgree, Live, Table
  <2>2. Placed(s, h)[s] = h
    BY PlacedFacts
  <2> QED BY <1>3, <2>1, <2>2, AtIn
<1>8. /\ \A w \in Tables : CursorIn(Placed(s, h), tab[w].main)
      /\ \A i \in Iters : CursorIn(Placed(s, h), its'[i].cur)
      /\ \A w \in Tables : tab[w].store # s
  BY <1>1, <1>2, NewStoreCursors DEF NewStore, FreeStore
<1> QED BY <1>1, <1>2, <1>3, <1>4, <1>5, <1>6, <1>7, <1>8, CommitConnected

LEMMA SeparateConnected ==
    ASSUME Inv, Connected, NEW t \in Tables, Separate(t) PROVE Connected'
<1>1. PICK s \in Stores : Home(t, s) /\ Commit(t, s, Private(t, s), PrivateStore(t))
  BY DEF Separate
<1>2. tab[t].live /\ UNCHANGED its
  BY DEF Separate
<1> QED BY <1>1, <1>2, HomeFacts, WriteConnected

LEMMA AppendRefusedConnected ==
    ASSUME Inv, Connected, NEW t \in Tables, AppendRefused(t) PROVE Connected'
<1> DEFINE h == PrivateStore(t)
           r(s) == Private(t, s)
           q(s) == [r(s) EXCEPT !.inc = NextKey(r(s), h)]
<1>1. PICK s \in Stores : Home(t, s) /\ Commit(t, s, q(s), h)
  BY DEF AppendRefused
<1>2. tab[t].live /\ UNCHANGED its
  BY DEF AppendRefused
<1>3. /\ h \in Store /\ r(s) \in Table /\ r(s).store = s
      /\ Linked(r(s), h) /\ IndexedOn(h, Keys) /\ Closed(h)
  BY <1>1, <1>2, HomeFacts
<1>4. q(s) \in Table
  <2>1. Inv'
    BY AppendRefusedStep
  <2> HIDE DEF q, h
  <2> QED BY <1>1, <2>1, CommitTyped
<1> HIDE DEF r
<1>5. /\ q(s).first = r(s).first /\ q(s).last = r(s).last /\ q(s).count = r(s).count
      /\ q(s).store = s /\ q(s).main = r(s).main
  BY <1>3 DEF Table
<1> HIDE DEF q
<1>6. Linked(q(s), h)
  BY <1>3, <1>5, LinkedFields
<1> QED BY <1>1, <1>2, <1>3, <1>4, <1>5, <1>6, WriteConnected DEF r

LEMMA ClearConnected ==
    ASSUME Inv, Connected, NEW t \in Tables, Clear(t) PROVE Connected'
<1> DEFINE h == PrivateStore(t)
           r(s) == Private(t, s)
           q(s) == [r(s) EXCEPT !.count = 0, !.inc = 0, !.incInit = FALSE,
                                !.first = 0, !.last = 0, !.main = PastEnd]
           indexed == {h.idx[k] : k \in Keys}
           cell(n) == IF n \notin indexed THEN h.cells[n]
                      ELSE [h.cells[n] EXCEPT !.st = "dead", !.k = 0, !.v = None]
           g == [cells |-> [n \in Slots |-> cell(n)], idx |-> [k \in Keys |-> 0]]
<1>1. PICK s \in Stores : Home(t, s) /\ Commit(t, s, q(s), g)
  BY DEF Clear
<1>2. tab[t].live /\ UNCHANGED its
  BY DEF Clear
<1>3. /\ h \in Store /\ r(s) \in Table /\ r(s).store = s
      /\ IndexedOn(h, Keys) /\ Closed(h)
  BY <1>1, <1>2, HomeFacts
<1>4. q(s) \in Table
  <2>1. Inv'
    BY ClearStep
  <2> HIDE DEF q, g
  <2> QED BY <1>1, <2>1, CommitTyped
<1> HIDE DEF r
<1>5. /\ q(s).first = 0 /\ q(s).last = 0 /\ q(s).count = 0
      /\ q(s).store = s /\ q(s).main = PastEnd
  BY <1>3 DEF Table
<1> HIDE DEF q, h
<1>6. g \in Store
  <2>1. 0 \in Links
    BY BoundsAssumption DEF Links
  <2>2. ASSUME NEW n \in Slots PROVE cell(n) \in Cell
    <3>1. h.cells[n] \in Cell
      BY <1>3 DEF Store
    <3>2. [h.cells[n] EXCEPT !.st = "dead", !.k = 0, !.v = None] \in Cell
      BY <3>1, DeadCell
    <3> QED BY <3>1, <3>2
  <2> HIDE DEF cell
  <2> QED BY <2>1, <2>2 DEF Store
<1>7. Cleared(h, g)
  BY DEF Cleared
<1> HIDE DEF g, indexed
<1>8. /\ Linked(q(s), g) /\ IndexedOn(g, Keys) /\ Closed(g)
      /\ \A m \in Slots : h.cells[m].st # "free" => g.cells[m].st # "free"
  <2> DEFINE e == q(s)
  <2>1. e \in Table /\ e.first = 0 /\ e.last = 0 /\ e.count = 0
    BY <1>4, <1>5
  <2> HIDE DEF e
  <2>2. /\ Linked(e, g) /\ IndexedOn(g, Keys) /\ Closed(g)
        /\ \A m \in Slots : h.cells[m].st # "free" => g.cells[m].st # "free"
    BY <1>3, <1>6, <1>7, <2>1, ClearLinked
  <2> QED BY <2>2 DEF e
<1> QED BY <1>1, <1>2, <1>4, <1>5, <1>6, <1>8, WriteConnected DEF h

LEMMA OverwriteConnected ==
    ASSUME Inv, Connected, NEW t \in Tables, NEW k \in Keys, NEW v \in Vals, Overwrite(t, k, v)
    PROVE Connected'
<1> DEFINE h == PrivateStore(t)
           n == h.idx[k]
           g == [h EXCEPT !.cells[n].v = v]
<1>1. PICK s \in Stores : Home(t, s) /\ n # 0 /\ Commit(t, s, Private(t, s), g)
  BY DEF Overwrite
<1>2. tab[t].live /\ UNCHANGED its
  BY DEF Overwrite
<1>3. /\ h \in Store /\ Private(t, s) \in Table /\ Private(t, s).store = s
      /\ Linked(Private(t, s), h) /\ IndexedOn(h, Keys) /\ Closed(h)
  BY <1>1, <1>2, HomeFacts
<1> HIDE DEF h
<1>4. n \in Slots
  BY <1>1, <1>3 DEF Store, Links, Slots
<1> HIDE DEF n
<1> DEFINE c == [h.cells[n] EXCEPT !.v = v]
<1>5. h.cells[n] \in Cell /\ c \in Cell
  BY <1>3, <1>4 DEF Store, Cell
<1>6. c.st = h.cells[n].st /\ c.next = h.cells[n].next /\ c.prev = h.cells[n].prev
      /\ c.k = h.cells[n].k
  BY <1>5 DEF Cell
<1>7. g.idx = h.idx /\ g.cells = [h.cells EXCEPT ![n] = c] /\ g \in Store
  <2>1. g = [h EXCEPT !.cells = [h.cells EXCEPT ![n] = c]]
    BY <1>3 DEF Store
  <2>2. [h.cells EXCEPT ![n] = c] \in [Slots -> Cell]
    BY <1>3, <1>5 DEF Store
  <2> HIDE DEF c, g
  <2> QED BY <1>3, <2>1, <2>2 DEF Store
<1> HIDE DEF c, g
<1>8. \A m \in Slots : /\ g.cells[m].st = h.cells[m].st
                       /\ g.cells[m].next = h.cells[m].next
                       /\ g.cells[m].prev = h.cells[m].prev
                       /\ g.cells[m].k = h.cells[m].k
  <2> TAKE m \in Slots
  <2>1. h.cells \in [Slots -> Cell]
    BY <1>3 DEF Store
  <2>2. g.cells[m] = IF m = n THEN c ELSE h.cells[m]
    BY <1>7, <2>1
  <2> QED BY <1>6, <2>2
<1>9. /\ Live(g) = Live(h) /\ Linked(Private(t, s), g) /\ Closed(g)
  BY <1>3, <1>7, <1>8, RelabelLinked
<1>10. IndexedOn(g, Keys)
  <2>1. Live(h) \subseteq Slots
    BY <1>3, LiveFacts
  <2>2. \A m \in Live(g) : g.cells[m].k \in Keys => g.idx[g.cells[m].k] = m
    BY <1>3, <1>7, <1>8, <1>9, <2>1 DEF IndexedOn
  <2>3. \A j \in Keys : g.idx[j] # 0 => g.idx[j] \in Live(g) /\ g.cells[g.idx[j]].k = j
    BY <1>3, <1>7, <1>8, <1>9, <2>1 DEF IndexedOn
  <2> QED BY <2>2, <2>3 DEF IndexedOn
<1> QED BY <1>1, <1>2, <1>3, <1>7, <1>8, <1>9, <1>10, WriteConnected DEF h

LEMMA InsertConnected ==
    ASSUME Inv, Connected, NEW t \in Tables, NEW k \in Keys, NEW v \in Vals, Insert(t, k, v)
    PROVE Connected'
<1> DEFINE h == PrivateStore(t)
           r(s) == Private(t, s)
           q(s, n) == Advanced(Appended(r(s), s, n), k)
           g(s, n) == AppendCell(h, r(s).last, n, k, v)
<1>1. PICK s \in Stores, n \in Slots :
        Home(t, s) /\ h.idx[k] = 0 /\ FreshSlot(h, n) /\ Commit(t, s, q(s, n), g(s, n))
  BY DEF Insert
<1>2. tab[t].live /\ UNCHANGED its /\ h.cells[n].st = "free"
  BY <1>1 DEF Insert, FreshSlot
<1>3. /\ h \in Store /\ r(s) \in Table /\ r(s).store = s
      /\ Linked(r(s), h) /\ IndexedOn(h, Keys) /\ Closed(h)
  BY <1>1, <1>2, HomeFacts
<1>4. q(s, n) \in Table
  <2>1. Inv'
    BY InsertStep
  <2> HIDE DEF q, g
  <2> QED BY <1>1, <2>1, CommitTyped
<1> HIDE DEF r, h
<1>5. /\ q(s, n).count = r(s).count + 1 /\ q(s, n).last = n
      /\ q(s, n).first = IF r(s).last = 0 THEN n ELSE r(s).first
      /\ q(s, n).main = r(s).main \/ q(s, n).main = At(s, n)
      /\ q(s, n).store = s
  BY <1>3, AppendedFields
<1> HIDE DEF q
<1>6. /\ Linked(q(s, n), g(s, n)) /\ IndexedOn(g(s, n), Keys) /\ Closed(g(s, n))
      /\ \A m \in Slots : h.cells[m].st # "free" => g(s, n).cells[m].st # "free"
      /\ g(s, n).cells[n].st # "free"
  BY <1>1, <1>2, <1>3, <1>4, <1>5, AppendLinked
<1>7. g(s, n) \in Store /\ n \in Links
  BY <1>3, AppendCellType DEF Table, Slots, Links
<1> HIDE DEF g
<1> QED BY <1>1, <1>2, <1>4, <1>5, <1>6, <1>7, WriteConnected DEF h, r

(* Append takes a key that is free.                                        *)
LEMMA NextKeyFree ==
    ASSUME NEW r \in Table, NEW h, FreeKeys(r, h) # {}
    PROVE NextKey(r, h) \in FreeKeys(r, h)
<1> DEFINE F == FreeKeys(r, h)
           least == {k \in F : \A j \in F : k <= j}
<1>1. r.inc \in Int /\ \A k \in F : k \in Int /\ r.inc <= k
  BY BoundsAssumption DEF FreeKeys, Table, IntKeys
<1>2. NextKey(r, h) = IF least = {} THEN MaxInt ELSE CHOOSE k \in least : TRUE
  BY DEF NextKey
<1> HIDE DEF F
<1>3. \E k \in F : \A j \in F : k <= j
  BY <1>1, LeastElement DEF F
<1>4. least # {} /\ least \subseteq F
  BY <1>3
<1> HIDE DEF least
<1> QED BY <1>2, <1>4 DEF F

LEMMA AppendConnected ==
    ASSUME Inv, Connected, NEW t \in Tables, NEW v \in Vals, Append(t, v)
    PROVE Connected'
<1> DEFINE h == PrivateStore(t)
           r(s) == Private(t, s)
           k(s) == NextKey(r(s), h)
           q(s, n) == [Appended(r(s), s, n) EXCEPT
                         !.inc = IF k(s) < MaxInt THEN k(s) + 1 ELSE k(s)]
           g(s, n) == AppendCell(h, r(s).last, n, k(s), v)
<1>1. PICK s \in Stores, n \in Slots :
        /\ Home(t, s) /\ FreeKeys(r(s), h) # {} /\ FreshSlot(h, n)
        /\ Commit(t, s, q(s, n), g(s, n))
  BY DEF Append
<1>2. tab[t].live /\ UNCHANGED its /\ h.cells[n].st = "free"
  BY <1>1 DEF Append, FreshSlot
<1>3. /\ h \in Store /\ r(s) \in Table /\ r(s).store = s
      /\ Linked(r(s), h) /\ IndexedOn(h, Keys) /\ Closed(h)
  BY <1>1, <1>2, HomeFacts
<1>4. q(s, n) \in Table
  <2>1. Inv'
    BY AppendStep
  <2> HIDE DEF q, g
  <2> QED BY <1>1, <2>1, CommitTyped
<1>5. k(s) \in Keys /\ h.idx[k(s)] = 0
  <2>1. k(s) \in FreeKeys(r(s), h)
    BY <1>1, <1>3, NextKeyFree
  <2>2. k(s) \in IntKeys
    BY <1>3, NextKeyType
  <2> QED BY <2>1, <2>2 DEF FreeKeys, Keys
<1> HIDE DEF r, h, k
<1>6. /\ q(s, n).count = r(s).count + 1 /\ q(s, n).last = n
      /\ q(s, n).first = IF r(s).last = 0 THEN n ELSE r(s).first
      /\ q(s, n).main = r(s).main \/ q(s, n).main = At(s, n)
      /\ q(s, n).store = s
  BY <1>3, AppendedFields
<1> HIDE DEF q
<1>7. /\ Linked(q(s, n), g(s, n)) /\ IndexedOn(g(s, n), Keys) /\ Closed(g(s, n))
      /\ \A m \in Slots : h.cells[m].st # "free" => g(s, n).cells[m].st # "free"
      /\ g(s, n).cells[n].st # "free"
  BY <1>2, <1>3, <1>4, <1>5, <1>6, AppendLinked
<1>8. g(s, n) \in Store /\ n \in Links
  BY <1>3, <1>5, AppendCellType DEF Table, Slots, Links
<1> HIDE DEF g
<1> QED BY <1>1, <1>2, <1>4, <1>6, <1>7, <1>8, WriteConnected DEF h, r

LEMMA UnsetConnected ==
    ASSUME Inv, Connected, NEW t \in Tables, NEW k \in Keys, Unset(t, k) PROVE Connected'
<1> DEFINE h == PrivateStore(t)
           r(s) == Private(t, s)
           n == h.idx[k]
           q(s) == Unlinked(r(s), h, n)
           g == UnlinkCell(h, n)
<1>1. PICK s \in Stores : Home(t, s) /\ n # 0 /\ Commit(t, s, q(s), g)
  BY DEF Unset
<1>2. tab[t].live /\ UNCHANGED its
  BY DEF Unset
<1>3. /\ h \in Store /\ r(s) \in Table /\ r(s).store = s
      /\ Linked(r(s), h) /\ IndexedOn(h, Keys) /\ Closed(h)
  BY <1>1, <1>2, HomeFacts
<1>4. n \in Live(h) /\ n \in Slots
  BY <1>1, <1>3 DEF IndexedOn, Live
<1> HIDE DEF r, h, n
<1>5. /\ q(s) \in Table /\ q(s).count = r(s).count - 1 /\ q(s).main = r(s).main
      /\ q(s).first = IF r(s).first = n THEN h.cells[n].next ELSE r(s).first
      /\ q(s).last = IF r(s).last = n THEN h.cells[n].prev ELSE r(s).last
      /\ q(s).store = s
  BY <1>3, <1>4, UnlinkedFields
<1> HIDE DEF q
<1>6. /\ Linked(q(s), g) /\ IndexedOn(g, Keys) /\ Closed(g)
      /\ \A m \in Slots : h.cells[m].st # "free" => g.cells[m].st # "free"
  BY <1>3, <1>4, <1>5, UnlinkLinked
<1>7. g \in Store
  BY <1>3, <1>4, UnlinkCellType
<1> HIDE DEF g
<1> QED BY <1>1, <1>2, <1>5, <1>6, <1>7, WriteConnected DEF h, r

LEMMA ArrayPopConnected ==
    ASSUME Inv, Connected, NEW t \in Tables, ArrayPop(t) PROVE Connected'
<1> DEFINE h == PrivateStore(t)
           r(s) == Private(t, s)
           u(s, n) == Unlinked(r(s), h, n)
           w(s, n) == SteppedBack(u(s, n), h.cells[n].k)
           q(s, n) == [w(s, n) EXCEPT !.main = At(s, u(s, n).first)]
           g(n) == UnlinkCell(h, n)
<1>1. PICK s \in Stores, n \in Slots :
        /\ Home(t, s) /\ Commit(t, s, q(s, n), g(n))
        /\ \E z \in Chain(h, r(s).first) : n = h.idx[h.cells[z].k]
  BY DEF ArrayPop
<1>2. tab[t].live /\ UNCHANGED its
  BY DEF ArrayPop
<1>3. /\ h \in Store /\ r(s) \in Table /\ r(s).store = s
      /\ Linked(r(s), h) /\ IndexedOn(h, Keys) /\ Closed(h)
  BY <1>1, <1>2, HomeFacts
<1>4. q(s, n) \in Table
  <2>1. Inv'
    BY ArrayPopStep
  <2> HIDE DEF q, g
  <2> QED BY <1>1, <2>1, CommitTyped
<1> HIDE DEF r, h
<1>5. n \in Live(h)
  <2>1. PICK z \in Chain(h, r(s).first) : n = h.idx[h.cells[z].k]
    BY <1>1
  <2>2. z \in Live(h) /\ z \in Slots
    BY <1>3, WalkIsLive, LiveFacts DEF Linked
  <2>3. h.cells[z].k \in Keys
    BY <1>3, <2>2, LinkTypes
  <2>4. h.idx[h.cells[z].k] = z
    BY <1>3, <2>2, <2>3 DEF IndexedOn
  <2> QED BY <2>1, <2>2, <2>4
<1>6. /\ u(s, n) \in Table /\ u(s, n).count = r(s).count - 1
      /\ u(s, n).first = IF r(s).first = n THEN h.cells[n].next ELSE r(s).first
      /\ u(s, n).last = IF r(s).last = n THEN h.cells[n].prev ELSE r(s).last
      /\ u(s, n).store = s
  BY <1>3, UnlinkedFields
<1> HIDE DEF u
<1>7. /\ q(s, n).count = u(s, n).count /\ q(s, n).first = u(s, n).first
      /\ q(s, n).last = u(s, n).last /\ q(s, n).store = s
      /\ q(s, n).main = At(s, u(s, n).first)
  <2>1. w(s, n) = u(s, n) \/ \E x : w(s, n) = [u(s, n) EXCEPT !.inc = x]
    BY DEF SteppedBack
  <2>2. /\ w(s, n).count = u(s, n).count /\ w(s, n).first = u(s, n).first
        /\ w(s, n).last = u(s, n).last /\ w(s, n).store = s
        /\ DOMAIN w(s, n) = DOMAIN u(s, n)
    <3> HIDE DEF w
    <3> QED BY <1>6, <2>1 DEF Table
  <2>3. "main" \in DOMAIN w(s, n)
    BY <1>6, <2>2 DEF Table
  <2> HIDE DEF w
  <2> QED BY <1>6, <2>2, <2>3
<1> HIDE DEF w, q
<1>8. /\ Linked(q(s, n), g(n)) /\ IndexedOn(g(n), Keys) /\ Closed(g(n))
      /\ \A m \in Slots : h.cells[m].st # "free" => g(n).cells[m].st # "free"
  BY <1>3, <1>4, <1>5, <1>6, <1>7, UnlinkLinked
<1>9. g(n) \in Store
  BY <1>3, UnlinkCellType
<1> HIDE DEF g
<1>10. /\ u(s, n).first \in Links
       /\ u(s, n).first # 0 => g(n).cells[u(s, n).first].st # "free"
  BY <1>6, <1>7, <1>8 DEF Linked, LinksAgree, Live, Table
<1> QED BY <1>1, <1>2, <1>4, <1>7, <1>8, <1>9, <1>10, WriteConnected DEF h, r

LEMMA RenumberedFields ==
    ASSUME NEW r \in Table, NEW h, NEW c
    PROVE LET q == Renumbered(r, h)
              w == [Renumbered(r, h) EXCEPT !.main = c]
          IN  /\ q.count = r.count /\ q.first = r.first /\ q.last = r.last
              /\ q.store = r.store /\ q.main = r.main
              /\ w.count = r.count /\ w.first = r.first /\ w.last = r.last
              /\ w.store = r.store /\ w.main = c
BY DEF Renumbered, Table

LEMMA ArrayShiftConnected ==
    ASSUME Inv, Connected, NEW t \in Tables, ArrayShift(t) PROVE Connected'
<1> DEFINE h == PrivateStore(t)
           r(s) == Private(t, s)
           n(s) == r(s).first
           h1(s) == UnlinkCell(h, n(s))
           r1(s) == Unlinked(r(s), h, n(s))
           q(s) == [Renumbered(r1(s), h1(s)) EXCEPT !.main = At(s, r1(s).first)]
           g(s) == Renumber(h1(s), r1(s).first)
<1>1. PICK s \in Stores : Home(t, s) /\ n(s) # 0 /\ Commit(t, s, q(s), g(s))
  BY DEF ArrayShift
<1>2. tab[t].live /\ UNCHANGED its
  BY DEF ArrayShift
<1>3. /\ h \in Store /\ r(s) \in Table /\ r(s).store = s
      /\ Linked(r(s), h) /\ IndexedOn(h, Keys) /\ Closed(h)
  BY <1>1, <1>2, HomeFacts
<1>4. q(s) \in Table
  <2>1. Inv'
    BY ArrayShiftStep
  <2> HIDE DEF q, g
  <2> QED BY <1>1, <2>1, CommitTyped
<1>5. n(s) \in Live(h) /\ n(s) \in Slots
  BY <1>1, <1>3 DEF Linked, LinksAgree, Live
<1> HIDE DEF r, h, n
<1>6. /\ r1(s) \in Table /\ r1(s).count = r(s).count - 1 /\ r1(s).main = r(s).main
      /\ r1(s).first = IF r(s).first = n(s) THEN h.cells[n(s)].next ELSE r(s).first
      /\ r1(s).last = IF r(s).last = n(s) THEN h.cells[n(s)].prev ELSE r(s).last
      /\ r1(s).store = s
  BY <1>3, <1>5, UnlinkedFields
<1> HIDE DEF r1
<1>7. /\ Linked(r1(s), h1(s)) /\ IndexedOn(h1(s), Keys) /\ Closed(h1(s))
      /\ \A m \in Slots : h.cells[m].st # "free" => h1(s).cells[m].st # "free"
  BY <1>3, <1>5, <1>6, UnlinkLinked
<1>8. h1(s) \in Store
  BY <1>3, <1>5, UnlinkCellType
<1> HIDE DEF h1
<1>9. IndexedOn(h1(s), Keys \ IntKeys)
  BY <1>7 DEF IndexedOn
<1>10. /\ g(s) \in Store /\ Linked(r1(s), g(s)) /\ IndexedOn(g(s), Keys) /\ Closed(g(s))
       /\ \A m \in Slots : g(s).cells[m].st = h1(s).cells[m].st
  BY <1>6, <1>7, <1>8, <1>9, RenumberLinked
<1> HIDE DEF g
<1>11. /\ q(s).count = r1(s).count /\ q(s).first = r1(s).first /\ q(s).last = r1(s).last
       /\ q(s).store = s /\ q(s).main = At(s, r1(s).first)
  BY <1>6, RenumberedFields
<1> HIDE DEF q
<1>12. Linked(q(s), g(s))
  BY <1>10, <1>11, LinkedFields
<1>13. /\ r1(s).first \in Links
       /\ r1(s).first # 0 => g(s).cells[r1(s).first].st # "free"
  BY <1>6, <1>10 DEF Linked, LinksAgree, Live, Table
<1>14. \A m \in Slots : h.cells[m].st # "free" => g(s).cells[m].st # "free"
  BY <1>7, <1>10
<1> QED
  BY <1>1, <1>2, <1>4, <1>10, <1>11, <1>12, <1>13, <1>14, WriteConnected DEF h

LEMMA ArrayUnshiftConnected ==
    ASSUME Inv, Connected, NEW t \in Tables, NEW v \in Vals, ArrayUnshift(t, v)
    PROVE Connected'
<1> DEFINE h == PrivateStore(t)
           r(s) == Private(t, s)
           cell(s, n, m) == CASE m = n -> [prev |-> 0, next |-> r(s).first, k |-> 0, v |-> v,
                                           st |-> "live"]
                              [] m = r(s).first /\ m # n -> [h.cells[m] EXCEPT !.prev = n]
                              [] OTHER -> h.cells[m]
           h1(s, n) == [h EXCEPT !.cells = [m \in Slots |-> cell(s, n, m)]]
           r1(s, n) == [r(s) EXCEPT !.count = @ + 1, !.first = n,
                                    !.last = IF r(s).first = 0 THEN n ELSE @]
           q(s, n) == Renumbered(r1(s, n), h1(s, n))
           g(s, n) == Renumber(h1(s, n), n)
<1>1. PICK s \in Stores, n \in Slots :
        Home(t, s) /\ FreshSlot(h, n) /\ Commit(t, s, q(s, n), g(s, n))
  BY DEF ArrayUnshift
<1>2. tab[t].live /\ UNCHANGED its /\ h.cells[n].st = "free"
  BY <1>1 DEF ArrayUnshift, FreshSlot
<1>3. /\ h \in Store /\ r(s) \in Table /\ r(s).store = s
      /\ Linked(r(s), h) /\ IndexedOn(h, Keys) /\ Closed(h)
  BY <1>1, <1>2, HomeFacts
<1>4. q(s, n) \in Table
  <2>1. Inv'
    BY ArrayUnshiftStep
  <2> HIDE DEF q, g
  <2> QED BY <1>1, <2>1, CommitTyped
<1> HIDE DEF r, h
<1>5. n \in Links /\ 0 \in Links /\ 0 \in Keys
  BY BoundsAssumption DEF Links, Slots, Keys, IntKeys
<1>6. h1(s, n) \in Store /\ h1(s, n).idx = h.idx
      /\ \A m \in Slots : h1(s, n).cells[m] = cell(s, n, m)
  <2>1. \A m \in Slots : cell(s, n, m) \in Cell
    <3> TAKE m \in Slots
    <3>1. h.cells[m] \in Cell /\ [h.cells[m] EXCEPT !.prev = n] \in Cell
      BY <1>3, <1>5 DEF Store, Cell
    <3>2. [prev |-> 0, next |-> r(s).first, k |-> 0, v |-> v, st |-> "live"] \in Cell
      BY <1>3, <1>5 DEF Table, Cell
    <3> QED BY <3>1, <3>2
  <2> HIDE DEF cell
  <2> QED BY <1>3, <2>1 DEF Store
<1>7. /\ r1(s, n).count = r(s).count + 1 /\ r1(s, n).first = n
      /\ r1(s, n).last = IF r(s).first = 0 THEN n ELSE r(s).last
      /\ r1(s, n).store = s /\ r1(s, n).main = r(s).main
  BY <1>3 DEF Table
<1>8. r1(s, n) \in Table
  <2>1. r(s).count + 1 \in Int /\ (IF r(s).first = 0 THEN n ELSE r(s).last) \in Links
    BY <1>3, <1>5 DEF Table
  <2> QED BY <1>3, <1>5, <2>1 DEF Table
<1> HIDE DEF h1, r1
<1>9. \A m \in Slots : h1(s, n).cells[m] =
        CASE m = n -> [prev |-> 0, next |-> r(s).first, k |-> 0, v |-> v, st |-> "live"]
          [] m = r(s).first /\ m # n -> [h.cells[m] EXCEPT !.prev = n]
          [] OTHER -> h.cells[m]
  BY <1>6
<1> HIDE DEF cell
<1>10. /\ Linked(r1(s, n), h1(s, n)) /\ IndexedOn(h1(s, n), Keys \ IntKeys)
       /\ Closed(h1(s, n))
       /\ \A m \in Slots : h.cells[m].st # "free" => h1(s, n).cells[m].st # "free"
  <2> HIDE DEF g, q
  <2> DEFINE w == r(s)
             x == h1(s, n)
             y == r1(s, n)
  <2>1. /\ x \in Store /\ x.idx = h.idx /\ y \in Table
        /\ y.count = w.count + 1 /\ y.first = n
        /\ w.first = 0 => y.last = n
        /\ w.first # 0 => y.last = w.last
    BY <1>6, <1>7, <1>8
  <2>2. InFront(h, w.first, n, v, x)
    BY <1>9 DEF InFront
  <2>4. w \in Table /\ Linked(w, h)
    BY <1>3
  <2> HIDE DEF w, x, y
  <2>3. /\ Linked(y, x) /\ IndexedOn(x, Keys \ IntKeys) /\ Closed(x)
        /\ \A m \in Slots : h.cells[m].st # "free" => x.cells[m].st # "free"
    BY <1>2, <1>3, <2>1, <2>2, <2>4, PushFrontLinked, SMTT(60)
  <2> QED BY <2>3 DEF x, y
<1>11. /\ g(s, n) \in Store /\ Linked(r1(s, n), g(s, n)) /\ IndexedOn(g(s, n), Keys)
       /\ Closed(g(s, n))
       /\ \A m \in Slots : g(s, n).cells[m].st = h1(s, n).cells[m].st
  <2> HIDE DEF q
  <2> DEFINE x == h1(s, n)
             y == r1(s, n)
             z == Renumber(x, y.first)
  <2>1. z = g(s, n)
    BY <1>7
  <2>2. x \in Store /\ y \in Table /\ Linked(y, x) /\ Closed(x) /\ IndexedOn(x, Keys \ IntKeys)
    BY <1>6, <1>8, <1>10
  <2> HIDE DEF g, x, y
  <2>3. /\ z \in Store /\ Linked(y, z) /\ IndexedOn(z, Keys) /\ Closed(z)
        /\ \A m \in Slots : z.cells[m].st = x.cells[m].st
    BY <2>2, RenumberLinked
  <2> HIDE DEF z
  <2> QED BY <2>1, <2>3 DEF x, y
<1> HIDE DEF g
<1>12. /\ q(s, n).count = r1(s, n).count /\ q(s, n).first = r1(s, n).first
       /\ q(s, n).last = r1(s, n).last /\ q(s, n).store = s /\ q(s, n).main = r(s).main
  BY <1>7, <1>8, RenumberedFields
<1> HIDE DEF q
<1>13. Linked(q(s, n), g(s, n))
  BY <1>11, <1>12, LinkedFields
<1>14. \A m \in Slots : h.cells[m].st # "free" => g(s, n).cells[m].st # "free"
  BY <1>10, <1>11
<1> QED
  BY <1>1, <1>2, <1>4, <1>11, <1>12, <1>13, <1>14, WriteConnected DEF h, r

LEMMA WriteKeeps == ASSUME Inv, Connected, NEW t \in Tables, Write(t) PROVE Connected'
BY SeparateConnected, AppendRefusedConnected, ClearConnected, ArrayShiftConnected,
   ArrayPopConnected, UnsetConnected, OverwriteConnected, InsertConnected, AppendConnected,
   ArrayUnshiftConnected DEF Write

(* Steps that only move cursors or let a table go.                         *)
LEMMA QuietConnected ==
    ASSUME Inv, Connected, tab' \in [Tables -> Table], its' \in [Iters -> Iter \cup {NoIter}],
           heap' = Collected(heap),
           \A u \in Tables : tab'[u].live =>
             /\ tab[u].live /\ tab'[u].store = tab[u].store /\ tab'[u].first = tab[u].first
             /\ tab'[u].last = tab[u].last /\ tab'[u].count = tab[u].count,
           \A u \in Tables : CursorIn(heap, tab'[u].main),
           \A i \in Iters : CursorIn(heap, its'[i].cur)
    PROVE Connected'
<1>1. heap \in [Stores -> Store] /\ \A s \in Stores : Closed(heap[s])
  BY DEF Inv, TypeOK, Connected
<1>2. ASSUME NEW u \in Tables, tab'[u].live
      PROVE /\ tab'[u].store \in Stores
            /\ Linked(tab'[u], heap[tab'[u].store]) /\ IndexedOn(heap[tab'[u].store], Keys)
  <2>1. /\ tab[u].live /\ tab'[u].store = tab[u].store /\ tab[u].store \in Stores
        /\ Linked(tab[u], heap[tab[u].store]) /\ IndexedOn(heap[tab[u].store], Keys)
    BY <1>2 DEF Inv, TypeOK, Connected, TablesLinked
  <2> QED BY <1>2, <2>1, LinkedFields
<1> QED BY <1>1, <1>2, CollectedConnected

LEMMA DropConnected ==
    ASSUME Inv, Connected, NEW t \in Tables, Drop(t) PROVE Connected'
<1>1. /\ tab' = [tab EXCEPT ![t] = NoTable] /\ its' = its /\ heap' = Collected(heap)
      /\ NoTable \in Table /\ ~ NoTable.live /\ NoTable.main = PastEnd
  BY EmptyTypes DEF Drop, NoTable
<1>2. /\ tab' \in [Tables -> Table] /\ tab'[t] = NoTable
      /\ \A u \in Tables : u # t => tab'[u] = tab[u]
  BY <1>1 DEF Inv, TypeOK
<1>3. \A u \in Tables : CursorIn(heap, tab'[u].main)
  BY <1>1, <1>2 DEF Connected, CursorIn
<1>4. /\ \A i \in Iters : CursorIn(heap, its'[i].cur)
      /\ its' \in [Iters -> Iter \cup {NoIter}]
  BY <1>1 DEF Connected, Inv, TypeOK
<1> QED BY <1>1, <1>2, <1>3, <1>4, QuietConnected

LEMMA MoveMainConnected ==
    ASSUME Inv, Connected, NEW t \in Tables, NEW c,
           tab[t].live => c \in Cursor /\ CursorIn(heap, c), MoveMain(t, c)
    PROVE Connected'
<1> DEFINE r == [tab[t] EXCEPT !.main = c]
<1>1. /\ tab[t] \in Table /\ tab[t].live /\ c \in Cursor /\ CursorIn(heap, c)
      /\ tab' = [tab EXCEPT ![t] = r] /\ its' = its /\ heap' = Collected(heap)
  BY DEF MoveMain, Inv, TypeOK
<1>2. /\ r \in Table /\ r.store = tab[t].store /\ r.first = tab[t].first
      /\ r.last = tab[t].last /\ r.count = tab[t].count /\ r.main = c
  BY <1>1, FieldTypes DEF Table
<1> HIDE DEF r
<1>3. /\ tab' \in [Tables -> Table] /\ tab'[t] = r
      /\ \A u \in Tables : u # t => tab'[u] = tab[u]
  BY <1>1, <1>2 DEF Inv, TypeOK
<1>4. \A u \in Tables : CursorIn(heap, tab'[u].main)
  BY <1>1, <1>2, <1>3 DEF Connected
<1>5. /\ \A i \in Iters : CursorIn(heap, its'[i].cur)
      /\ its' \in [Iters -> Iter \cup {NoIter}]
  BY <1>1 DEF Connected, Inv, TypeOK
<1>6. \A u \in Tables : tab'[u].live =>
        /\ tab[u].live /\ tab'[u].store = tab[u].store /\ tab'[u].first = tab[u].first
        /\ tab'[u].last = tab[u].last /\ tab'[u].count = tab[u].count
  BY <1>1, <1>2, <1>3
<1> QED BY <1>1, <1>3, <1>4, <1>5, <1>6, QuietConnected

LEMMA MoveConnected == ASSUME Inv, Connected, NEW t \in Tables, Move(t) PROVE Connected'
<1>1. /\ tab[t].main \in Cursor /\ CursorIn(heap, tab[t].main)
      /\ tab[t].first \in Links /\ tab[t].last \in Links
  BY DEF Inv, TypeOK, Table, Connected
<1>2. ASSUME tab[t].live
      PROVE /\ At(tab[t].store, tab[t].first) \in Cursor
            /\ At(tab[t].store, tab[t].last) \in Cursor
            /\ CursorIn(heap, At(tab[t].store, tab[t].first))
            /\ CursorIn(heap, At(tab[t].store, tab[t].last))
  BY <1>1, <1>2, AtType, EndsIn
<1>3. CASE MainNext(t)
  <2>1. NextCursor(tab[t].main) \in Cursor /\ CursorIn(heap, NextCursor(tab[t].main))
    BY <1>1, NextCursorType, NextCursorIn DEF Inv
  <2> QED BY <1>3, <2>1, MoveMainConnected DEF MainNext
<1>4. CASE MainPrev(t)
  <2>1. tab[t].live => PrevCursor(t) \in Cursor /\ CursorIn(heap, PrevCursor(t))
    BY PrevCursorType, PrevCursorIn DEF Inv
  <2> QED BY <1>4, <2>1, MoveMainConnected DEF MainPrev
<1>5. CASE MainReset(t)
  BY <1>2, <1>5, MoveMainConnected DEF MainReset
<1>6. CASE MainEnd(t)
  BY <1>2, <1>6, MoveMainConnected DEF MainEnd
<1>7. CASE ResetIfEnd(t)
  <2> DEFINE c == Settled(heap, tab[t].main)
             d == IF c = PastEnd THEN At(tab[t].store, tab[t].first) ELSE c
  <2>1. c \in Cursor /\ CursorIn(heap, c)
    BY <1>1, SettledType, SettledIn
  <2>2. tab[t].live => d \in Cursor /\ CursorIn(heap, d)
    <3> HIDE DEF c
    <3> QED BY <1>2, <2>1
  <2>3. MoveMain(t, d)
    BY <1>7 DEF ResetIfEnd
  <2> HIDE DEF d
  <2> QED BY <2>2, <2>3, MoveMainConnected
<1> QED BY <1>3, <1>4, <1>5, <1>6, <1>7 DEF Move

LEMMA ForeachStartConnected ==
    ASSUME Inv, Connected, NEW t \in Tables, NEW i \in Iters, ForeachStart(t, i)
    PROVE Connected'
<1> DEFINE h == Copy(heap[tab[t].store], tab[t].first)
           r(s) == CopiedTable(t, s)
           q(s) == [r(s) EXCEPT !.incInit = FALSE]
           it(s) == [t |-> t, cur |-> At(s, tab[t].first)]
<1>1. PICK s \in Stores :
        NewStore(s) /\ its' = [its EXCEPT ![i] = it(s)] /\ Commit(t, s, q(s), h)
  BY DEF ForeachStart
<1>2. /\ tab[t].live /\ tab[t] \in Table /\ tab[t].first \in Links /\ r(s) \in Table
      /\ its \in [Iters -> Iter \cup {NoIter}]
  BY CopiedTableType DEF ForeachStart, Inv, TypeOK, Table
<1>3. /\ h \in Store /\ Linked(r(s), h) /\ IndexedOn(h, Keys) /\ Closed(h)
      /\ CursorIn(Placed(s, h), r(s).main)
  BY <1>1, <1>2, SeparatedFacts
<1>4. q(s) \in Table /\ its' \in [Iters -> Iter \cup {NoIter}]
  <2>1. Inv'
    BY ForeachStartStep
  <2>2. its' \in [Iters -> Iter \cup {NoIter}]
    BY <2>1 DEF Inv, TypeOK
  <2> HIDE DEF q, h
  <2> QED BY <1>1, <2>1, <2>2, CommitTyped
<1>5. r(s).store = s /\ r(s).first = tab[t].first
  BY <1>2 DEF CopiedTable, Table
<1> HIDE DEF r, h
<1>6. /\ q(s).first = r(s).first /\ q(s).last = r(s).last /\ q(s).count = r(s).count
      /\ q(s).store = s /\ q(s).main = r(s).main
  BY <1>2, <1>5 DEF Table
<1> HIDE DEF q
<1>7. Linked(q(s), h)
  BY <1>3, <1>6, LinkedFields
<1>8. CursorIn(Placed(s, h), At(s, tab[t].first))
  <2>1. tab[t].first # 0 => h.cells[tab[t].first].st # "free"
    BY <1>3, <1>5 DEF Linked, LinksAgree, Live
  <2>2. Placed(s, h)[s] = h
    BY PlacedFacts
  <2> QED BY <1>2, <2>1, <2>2, AtIn
<1>9. /\ \A u \in Tables : CursorIn(Placed(s, h), tab[u].main)
      /\ \A j \in Iters : CursorIn(Placed(s, h), its[j].cur)
      /\ \A u \in Tables : tab[u].store # s
  BY <1>1, NewStoreCursors DEF NewStore, FreeStore
<1>10. \A j \in Iters : CursorIn(Placed(s, h), its'[j].cur)
  <2> TAKE j \in Iters
  <2>1. CASE j = i
    BY <1>1, <1>2, <1>8, <2>1
  <2>2. CASE j # i
    BY <1>1, <1>2, <1>9, <2>2
  <2> QED BY <2>1, <2>2
<1>11. CursorIn(Placed(s, h), q(s).main)
  BY <1>3, <1>6
<1> QED BY <1>1, <1>3, <1>4, <1>6, <1>7, <1>9, <1>10, <1>11, CommitConnected

LEMMA ForeachTurnConnected ==
    ASSUME Inv, Connected, NEW i \in Iters, ForeachNext(i) \/ ForeachEnd(i)
    PROVE Connected'
<1>1. /\ tab' = tab /\ heap' = Collected(heap) /\ its[i] \in Iter
      /\ its \in [Iters -> Iter \cup {NoIter}]
  BY DEF ForeachNext, ForeachEnd, Inv, TypeOK
<1>2. its' \in [Iters -> Iter \cup {NoIter}] /\ tab' \in [Tables -> Table]
  <2>1. Inv'
    BY ForeachTurnStep
  <2> QED BY <2>1 DEF Inv, TypeOK
<1>3. CursorIn(heap, its'[i].cur)
  <2>1. CASE ForeachNext(i)
    <3>1. its'[i].cur = NextCursor(its[i].cur) /\ its[i].cur \in Cursor
      BY <1>1, <2>1 DEF ForeachNext, Iter
    <3>2. CursorIn(heap, its[i].cur)
      BY DEF Connected
    <3> QED BY <3>1, <3>2, NextCursorIn
  <2>2. CASE ForeachEnd(i)
    BY <1>1, <2>2 DEF ForeachEnd, NoIter, CursorIn
  <2> QED BY <2>1, <2>2
<1>4. \A j \in Iters : j # i => its'[j] = its[j]
  BY <1>1 DEF ForeachNext, ForeachEnd
<1>5. \A j \in Iters : CursorIn(heap, its'[j].cur)
  BY <1>3, <1>4 DEF Connected
<1>6. \A u \in Tables : CursorIn(heap, tab'[u].main)
  BY <1>1 DEF Connected
<1> QED BY <1>1, <1>2, <1>5, <1>6, QuietConnected

-----------------------------------------------------------------------------
(* The theorems.                                                           *)

LEMMA InitConnected == Init => Connected
<1> SUFFICES ASSUME Init PROVE Connected
  OBVIOUS
<1>1. TablesLinked
  BY DEF Init, TablesLinked, NoTable
<1>2. \A s \in Stores : Closed(heap[s])
  BY EmptyStoreFacts DEF Init
<1>3. /\ \A t \in Tables : CursorIn(heap, tab[t].main)
      /\ \A i \in Iters : CursorIn(heap, its[i].cur)
  BY DEF Init, NoTable, NoIter, CursorIn
<1> QED BY <1>1, <1>2, <1>3 DEF Connected

LEMMA NextConnected == ASSUME Inv, Connected, Next PROVE Connected'
<1>1. CASE \E t \in Tables : New(t) \/ Drop(t) \/ Write(t) \/ Move(t)
  BY <1>1, NewConnected, DropConnected, WriteKeeps, MoveConnected
<1>2. CASE \E t, u \in Tables : Dup(t, u) \/ DeepCopy(t, u)
  BY <1>2, DupConnected, DeepCopyConnected
<1>3. CASE \E t \in Tables, i \in Iters : ForeachStart(t, i)
  BY <1>3, ForeachStartConnected
<1>4. CASE \E i \in Iters : ForeachNext(i) \/ ForeachEnd(i)
  BY <1>4, ForeachTurnConnected
<1> QED BY <1>1, <1>2, <1>3, <1>4 DEF Next

LEMMA StutterConnected == ASSUME Connected, UNCHANGED vars PROVE Connected'
<1>1. tab' = tab /\ heap' = heap /\ its' = its
  BY DEF vars
<1>2. TablesLinked'
  <2>1. ASSUME NEW w \in Tables, tab'[w].live
        PROVE Linked(tab'[w], heap'[tab'[w].store]) /\ IndexedOn(heap'[tab'[w].store], Keys)
    BY <1>1, <2>1 DEF Connected, TablesLinked
  <2> QED BY <2>1 DEF TablesLinked, Linked, LinksAgree, Ranked, Ranks, IndexedOn, Live
<1>3. \A s \in Stores : Closed(heap[s])'
  BY <1>1 DEF Connected, Closed
<1>4. /\ \A t \in Tables : CursorIn(heap, tab[t].main)'
      /\ \A i \in Iters : CursorIn(heap, its[i].cur)'
  BY <1>1 DEF Connected, CursorIn
<1> QED BY <1>2, <1>3, <1>4 DEF Connected

LEMMA ConnectedHolds == Spec => [](Inv /\ Connected)
<1>1. Inv /\ Connected /\ [Next]_vars => Connected'
  BY NextConnected, StutterConnected
<1>2. Inv /\ [Next]_vars => Inv'
  BY NextStep, StutterStep
<1> QED BY InitInv, InitConnected, <1>1, <1>2, PTL DEF Spec

(* The table an iterator runs over is live: only Drop takes a table away,   *)
(* and not while an iterator holds it.                                     *)
RunningOnLive == \A i \in Iters : its[i] # NoIter => its[i].t \in Tables /\ tab[its[i].t].live

KeptLive == its' = its /\ \A u \in Tables : tab[u].live => tab'[u].live

LEMMA LiveFields ==
    ASSUME NEW r \in Table, r.live
    PROVE /\ \A s, n : Appended(r, s, n).live
          /\ \A h, n : Unlinked(r, h, n).live
          /\ \A k : SteppedBack(r, k).live
          /\ \A k : Advanced(r, k).live
          /\ \A h : Renumbered(r, h).live
          /\ \A c : [r EXCEPT !.main = c].live
          /\ \A x : [r EXCEPT !.inc = x].live
<1>1. \A s, n : Appended(r, s, n).live
  BY DEF Appended, Table
<1>2. \A h, n : Unlinked(r, h, n).live
  BY DEF Unlinked, Table
<1>3. \A k : SteppedBack(r, k).live /\ Advanced(r, k).live
  BY DEF SteppedBack, Advanced, Table
<1>4. \A h : Renumbered(r, h).live
  BY DEF Renumbered, Table
<1>5. \A x : [r EXCEPT !.main = x].live /\ [r EXCEPT !.inc = x].live
  BY DEF Table
<1> QED BY <1>1, <1>2, <1>3, <1>4, <1>5

LEMMA PrivateLive ==
    ASSUME Inv, NEW t \in Tables, tab[t].live, NEW s \in Stores, Home(t, s)
    PROVE Private(t, s) \in Table /\ PrivateStore(t) \in Store /\ Private(t, s).live
<1>1. tab[t] \in Table
  BY DEF Inv, TypeOK
<1>2. Private(t, s).live
  BY <1>1 DEF Private, CopiedTable, Table
<1> QED BY <1>2, HomeIsPrivate

LEMMA CommitLive ==
    ASSUME Inv, NEW t \in Tables, NEW s, NEW r, NEW h, Commit(t, s, r, h), r.live, its' = its
    PROVE KeptLive
BY DEF Commit, Inv, TypeOK, KeptLive

LEMMA WriteLive ==
    ASSUME Inv, NEW t \in Tables, Write(t) PROVE KeptLive
<1> DEFINE h == PrivateStore(t)
           r(s) == Private(t, s)
<1>0. tab[t].live => \A s \in Stores : Home(t, s) => r(s) \in Table /\ h \in Store /\ r(s).live
  BY PrivateLive
<1> HIDE DEF h, r
<1>1. CASE Separate(t)
  <2>1. PICK s \in Stores : Home(t, s) /\ Commit(t, s, r(s), h)
    BY <1>1 DEF Separate, h, r
  <2> QED BY <1>0, <1>1, <2>1, CommitLive DEF Separate
<1>2. CASE AppendRefused(t)
  <2>1. PICK s \in Stores :
          Home(t, s) /\ Commit(t, s, [r(s) EXCEPT !.inc = NextKey(r(s), h)], h)
    BY <1>2 DEF AppendRefused, h, r
  <2> QED BY <1>0, <1>2, <2>1, CommitLive, LiveFields DEF AppendRefused
<1>3. CASE Clear(t)
  <2>1. PICK s, g :
          /\ s \in Stores /\ Home(t, s)
          /\ Commit(t, s, [r(s) EXCEPT !.count = 0, !.inc = 0, !.incInit = FALSE,
                                       !.first = 0, !.last = 0, !.main = PastEnd], g)
    BY <1>3 DEF Clear, r
  <2>2. [r(s) EXCEPT !.count = 0, !.inc = 0, !.incInit = FALSE,
                     !.first = 0, !.last = 0, !.main = PastEnd].live
    BY <1>0, <1>3, <2>1 DEF Clear, Table
  <2> QED BY <1>3, <2>1, <2>2, CommitLive DEF Clear
<1>4. CASE ArrayShift(t)
  <2> DEFINE g(s) == UnlinkCell(h, r(s).first)
             q(s) == Unlinked(r(s), h, r(s).first)
             w(s) == Renumbered(q(s), g(s))
  <2>1. PICK s \in Stores :
          /\ Home(t, s) /\ r(s).first # 0
          /\ Commit(t, s, [w(s) EXCEPT !.main = At(s, q(s).first)], Renumber(g(s), q(s).first))
    BY <1>4 DEF ArrayShift, h, r
  <2>2. /\ r(s) \in Table /\ h \in Store /\ r(s).live /\ r(s).first \in Slots
        /\ its' = its
    BY <1>0, <1>4, <2>1 DEF ArrayShift, Table, Links, Slots
  <2>3. q(s) \in Table /\ q(s).live /\ g(s) \in Store
    BY <2>2, UnlinkedType, UnlinkCellType, LiveFields
  <2> HIDE DEF q, g
  <2>4. w(s) \in Table /\ w(s).live
    BY <2>3, RenumberedType, LiveFields
  <2> HIDE DEF w
  <2>5. [w(s) EXCEPT !.main = At(s, q(s).first)].live
    BY <2>4, LiveFields
  <2> QED BY <2>1, <2>2, <2>5, CommitLive
<1>5. CASE ArrayPop(t)
  <2> DEFINE q(s, n) == Unlinked(r(s), h, n)
             w(s, n) == SteppedBack(q(s, n), h.cells[n].k)
  <2>1. PICK s \in Stores, n \in Slots :
          /\ Home(t, s)
          /\ Commit(t, s, [w(s, n) EXCEPT !.main = At(s, q(s, n).first)], UnlinkCell(h, n))
    BY <1>5 DEF ArrayPop, h, r
  <2>2. r(s) \in Table /\ h \in Store /\ r(s).live /\ its' = its
    BY <1>0, <1>5, <2>1 DEF ArrayPop
  <2>3. q(s, n) \in Table /\ q(s, n).live
    BY <2>2, UnlinkedType, LiveFields
  <2> HIDE DEF q
  <2>4. w(s, n).live /\ w(s, n) \in Table
    BY <2>3, LiveFields, UnlinkedType DEF SteppedBack, Table
  <2> HIDE DEF w
  <2>5. [w(s, n) EXCEPT !.main = At(s, q(s, n).first)].live
    BY <2>4, LiveFields
  <2> QED BY <2>1, <2>2, <2>5, CommitLive
<1>6. CASE \E k \in Keys : Unset(t, k)
  <2>1. PICK k \in Keys : Unset(t, k)
    BY <1>6
  <2>2. PICK s \in Stores : /\ Home(t, s)
                            /\ Commit(t, s, Unlinked(r(s), h, h.idx[k]), UnlinkCell(h, h.idx[k]))
    BY <2>1 DEF Unset, h, r
  <2> QED BY <1>0, <2>1, <2>2, CommitLive, LiveFields DEF Unset
<1>7. CASE \E k \in Keys, v \in Vals : Overwrite(t, k, v)
  <2>1. PICK k \in Keys, v \in Vals : Overwrite(t, k, v)
    BY <1>7
  <2>2. PICK s \in Stores :
          Home(t, s) /\ Commit(t, s, r(s), [h EXCEPT !.cells[h.idx[k]].v = v])
    BY <2>1 DEF Overwrite, h, r
  <2> QED BY <1>0, <2>1, <2>2, CommitLive DEF Overwrite
<1>8. CASE \E k \in Keys, v \in Vals : Insert(t, k, v)
  <2>1. PICK k \in Keys, v \in Vals : Insert(t, k, v)
    BY <1>8
  <2>2. PICK s \in Stores, n \in Slots :
          /\ Home(t, s)
          /\ Commit(t, s, Advanced(Appended(r(s), s, n), k), AppendCell(h, r(s).last, n, k, v))
    BY <2>1 DEF Insert, h, r
  <2>3. Appended(r(s), s, n) \in Table /\ Appended(r(s), s, n).live
    BY <1>0, <2>1, <2>2, AppendedType, LiveFields DEF Insert
  <2> QED BY <2>1, <2>2, <2>3, CommitLive, LiveFields DEF Insert
<1>9. CASE \E v \in Vals : Append(t, v)
  <2> DEFINE k(s) == NextKey(r(s), h)
             x(s) == IF k(s) < MaxInt THEN k(s) + 1 ELSE k(s)
  <2>1. PICK v \in Vals : Append(t, v)
    BY <1>9
  <2>2. PICK s \in Stores, n \in Slots :
          /\ Home(t, s)
          /\ Commit(t, s, [Appended(r(s), s, n) EXCEPT !.inc = x(s)],
                    AppendCell(h, r(s).last, n, k(s), v))
    BY <2>1 DEF Append, h, r
  <2> HIDE DEF x, k
  <2>3. Appended(r(s), s, n) \in Table /\ Appended(r(s), s, n).live
    BY <1>0, <2>1, <2>2, AppendedType, LiveFields DEF Append
  <2> QED BY <2>1, <2>2, <2>3, CommitLive, LiveFields DEF Append
<1>10. CASE \E v \in Vals : ArrayUnshift(t, v)
  <2>1. PICK v \in Vals : ArrayUnshift(t, v)
    BY <1>10
  <2> DEFINE q(s, n) == [r(s) EXCEPT !.count = @ + 1, !.first = n,
                                     !.last = IF r(s).first = 0 THEN n ELSE @]
  <2>2. PICK s, n, g, f :
          s \in Stores /\ Home(t, s) /\ Commit(t, s, Renumbered(q(s, n), g), f)
    BY <2>1 DEF ArrayUnshift, r
  <2>3. r(s) \in Table /\ r(s).live /\ its' = its
    BY <1>0, <2>1, <2>2 DEF ArrayUnshift
  <2>4. q(s, n).live /\ Renumbered(q(s, n), g).live
    BY <2>3 DEF Renumbered, Table
  <2> HIDE DEF q
  <2> QED BY <2>2, <2>3, <2>4, CommitLive
<1> QED BY <1>1, <1>2, <1>3, <1>4, <1>5, <1>6, <1>7, <1>8, <1>9, <1>10 DEF Write

LEMMA RunningKept == ASSUME RunningOnLive, KeptLive PROVE RunningOnLive'
BY DEF RunningOnLive, KeptLive, NoIter

LEMMA NextRunning == ASSUME Inv, RunningOnLive, [Next]_vars PROVE RunningOnLive'
<1>0. tab \in [Tables -> Table] /\ its \in [Iters -> Iter \cup {NoIter}]
  BY DEF Inv, TypeOK
<1>1. CASE \E t \in Tables : Write(t)
  BY <1>1, WriteLive, RunningKept
<1>2. CASE \E t \in Tables : New(t)
  <2>1. PICK t \in Tables : New(t)
    BY <1>2
  <2>2. PICK s \in Stores : Commit(t, s, NewTable(s), EmptyStore)
    BY <2>1 DEF New
  <2>3. NewTable(s).live
    BY DEF NewTable, NoTable
  <2>4. KeptLive
    BY <2>1, <2>2, <2>3, CommitLive DEF New
  <2> QED BY <2>4, RunningKept
<1>3. CASE \E t \in Tables : Drop(t)
  <2>1. PICK t \in Tables : Drop(t)
    BY <1>3
  <2> QED BY <1>0, <2>1 DEF Drop, RunningOnLive
<1>4. CASE \E t \in Tables : Move(t)
  <2>1. PICK t, c : t \in Tables /\ MoveMain(t, c)
    BY <1>4 DEF Move, MainNext, MainPrev, MainReset, MainEnd, ResetIfEnd
  <2>2. KeptLive
    BY <1>0, <2>1 DEF MoveMain, KeptLive, Table
  <2> QED BY <2>2, RunningKept
<1>5. CASE \E t, u \in Tables : Dup(t, u)
  <2>1. PICK t \in Tables, u \in Tables : Dup(t, u)
    BY <1>5
  <2>2. KeptLive
    <3> SUFFICES ASSUME NEW w \in Tables, tab[w].live PROVE tab'[w].live
      BY <2>1 DEF KeptLive, Dup
    <3>1. CASE w = t
      BY <1>0, <2>1, <3>1 DEF Dup, Table
    <3>2. CASE w # t
      BY <1>0, <2>1, <3>2 DEF Dup
    <3> QED BY <3>1, <3>2
  <2> QED BY <2>2, RunningKept
<1>6. CASE \E t, u \in Tables : DeepCopy(t, u)
  <2>1. PICK t \in Tables, u \in Tables : DeepCopy(t, u)
    BY <1>6
  <2>2. ~ tab[u].live /\ its' = its /\ \A w \in Tables : w # u => tab'[w] = tab[w]
    BY <1>0, <2>1 DEF DeepCopy, Commit
  <2>3. KeptLive
    BY <2>2 DEF KeptLive
  <2> QED BY <2>3, RunningKept
<1>7. CASE \E t \in Tables, i \in Iters : ForeachStart(t, i)
  <2>1. PICK t \in Tables, i \in Iters : ForeachStart(t, i)
    BY <1>7
  <2>2. PICK s, h :
          /\ s \in Stores
          /\ its' = [its EXCEPT ![i] = [t |-> t, cur |-> At(s, tab[t].first)]]
          /\ tab' = [tab EXCEPT ![t] = [CopiedTable(t, s) EXCEPT !.incInit = FALSE]]
    BY <2>1 DEF ForeachStart, Commit
  <2>3. tab'[t].live /\ \A w \in Tables : w # t => tab'[w] = tab[w]
    BY <1>0, <2>1, <2>2 DEF ForeachStart, CopiedTable, Table
  <2>4. its'[i].t = t /\ \A j \in Iters : j # i => its'[j] = its[j]
    BY <1>0, <2>2
  <2> QED BY <2>3, <2>4 DEF RunningOnLive
<1>8. CASE \E i \in Iters : ForeachNext(i) \/ ForeachEnd(i)
  <2>1. PICK i \in Iters : ForeachNext(i) \/ ForeachEnd(i)
    BY <1>8
  <2>2. tab' = tab /\ (its'[i] = NoIter \/ (its'[i].t = its[i].t /\ its[i] # NoIter))
    <3>1. CASE ForeachNext(i)
      <4>1. its' = [its EXCEPT ![i] = [its[i] EXCEPT !.cur = NextCursor(its[i].cur)]]
        BY <3>1 DEF ForeachNext
      <4>2. its[i] \in Iter /\ tab' = tab /\ its[i] # NoIter
        BY <1>0, <3>1 DEF ForeachNext
      <4>3. its'[i] = [its[i] EXCEPT !.cur = NextCursor(its[i].cur)]
        BY <1>0, <4>1
      <4> QED BY <4>2, <4>3 DEF Iter
    <3>2. CASE ForeachEnd(i)
      BY <1>0, <3>2 DEF ForeachEnd
    <3> QED BY <2>1, <3>1, <3>2
  <2>3. \A j \in Iters : j # i => its'[j] = its[j]
    BY <1>0, <2>1 DEF ForeachNext, ForeachEnd
  <2> QED BY <2>2, <2>3 DEF RunningOnLive
<1>9. CASE UNCHANGED vars
  <2>1. KeptLive
    BY <1>9 DEF vars, KeptLive
  <2> QED BY <2>1, RunningKept
<1> QED BY <1>1, <1>2, <1>3, <1>4, <1>5, <1>6, <1>7, <1>8, <1>9 DEF Next

LEMMA RunningHolds == Spec => []RunningOnLive
<1>1. Init => RunningOnLive
  BY DEF Init, RunningOnLive
<1>2. Inv /\ RunningOnLive /\ [Next]_vars => RunningOnLive'
  BY NextRunning
<1>3. Inv /\ [Next]_vars => Inv'
  BY NextStep, StutterStep
<1> QED BY InitInv, <1>1, <1>2, <1>3, PTL DEF Spec

(* Every list can be walked both ways from end to end and holds no deleted *)
(* cell, however writes, copies and unlinks follow each other              *)
(* (hashtable.go: SetX, UnsetX, Shift, doCopy).                            *)
THEOREM ListsWellFormed == Spec => []ChainWellFormed
<1>1. Inv /\ Connected => ChainWellFormed
  <2> SUFFICES ASSUME Inv, Connected, NEW t \in Tables, tab[t].live
               PROVE LET r == tab[t]
                         h == heap[r.store]
                         C == Chain(h, r.first)
                     IN  /\ r.first = 0 <=> r.last = 0
                         /\ r.first # 0 => h.cells[r.first].prev = 0
                         /\ r.last # 0 => r.last \in C /\ h.cells[r.last].next = 0
                         /\ \A n \in C :
                              /\ h.cells[n].st = "live"
                              /\ h.cells[n].next # 0 => h.cells[h.cells[n].next].prev = n
    BY DEF ChainWellFormed
  <2> DEFINE r == tab[t]
             h == heap[r.store]
  <2>1. r \in Table /\ h \in Store /\ LinksAgree(r, h) /\ Ranked(h)
    BY DEF Inv, TypeOK, Connected, TablesLinked, Linked
  <2> HIDE DEF r, h
  <2>2. Chain(h, r.first) = Live(h)
    BY <2>1, WalkIsLive
  <2>3. \A n \in Live(h) : h.cells[n].st = "live"
    BY DEF Live
  <2>4. /\ r.first = 0 <=> r.last = 0
        /\ r.first # 0 => h.cells[r.first].prev = 0
        /\ r.last # 0 => r.last \in Live(h) /\ h.cells[r.last].next = 0
        /\ \A n \in Live(h) :
             h.cells[n].next # 0 => h.cells[h.cells[n].next].prev = n
    BY <2>1 DEF LinksAgree
  <2> QED BY <2>2, <2>3, <2>4 DEF r, h
<1> QED BY ConnectedHolds, <1>1, PTL

(* Tables that are linked and indexed on every key are what IndexCoherent  *)
(* asks for.                                                               *)
LEMMA ConnectedIsCoherent == ASSUME Inv, Connected PROVE IndexCoherent
<1> SUFFICES ASSUME Inv, Connected, NEW t \in Tables, tab[t].live
             PROVE LET h == heap[tab[t].store]
                       C == Chain(h, tab[t].first)
                   IN  /\ \A n \in C : h.idx[h.cells[n].k] = n
                       /\ \A k \in Keys :
                            h.idx[k] # 0 => h.idx[k] \in C /\ h.cells[h.idx[k]].k = k
                       /\ tab[t].count = Cardinality(C)
  BY DEF IndexCoherent
<1> DEFINE r == tab[t]
           h == heap[r.store]
<1>1. r \in Table /\ h \in Store /\ Linked(r, h) /\ IndexedOn(h, Keys)
  BY DEF Inv, TypeOK, Connected, TablesLinked
<1> HIDE DEF r, h
<1>2. Chain(h, r.first) = Live(h) /\ r.count = Cardinality(Live(h))
  BY <1>1, WalkIsLive DEF Linked
<1>3. ASSUME NEW n \in Live(h) PROVE h.idx[h.cells[n].k] = n
  <2>1. h.cells[n].k \in Keys
    BY <1>1, LiveFacts, LinkTypes
  <2> QED BY <1>1, <2>1 DEF IndexedOn
<1>4. \A k \in Keys : h.idx[k] # 0 => h.idx[k] \in Live(h) /\ h.cells[h.idx[k]].k = k
  BY <1>1 DEF IndexedOn
<1>5. /\ \A n \in Chain(h, r.first) : h.idx[h.cells[n].k] = n
      /\ \A k \in Keys :
           h.idx[k] # 0 => h.idx[k] \in Chain(h, r.first) /\ h.cells[h.idx[k]].k = k
      /\ r.count = Cardinality(Chain(h, r.first))
  <2> DEFINE L == Live(h)
             C == Chain(h, r.first)
  <2>1. C = L /\ r.count = Cardinality(L)
    BY <1>2
  <2>2. /\ \A n \in L : h.idx[h.cells[n].k] = n
        /\ \A k \in Keys : h.idx[k] # 0 => h.idx[k] \in L /\ h.cells[h.idx[k]].k = k
    BY <1>3, <1>4
  <2> HIDE DEF L, C
  <2> QED BY <2>1, <2>2 DEF C
<1> QED BY <1>5 DEF r, h

(* Lookup, iteration and count() of a table agree: index maps and list     *)
(* name the same elements once each (hashtable.go: SetX, UnsetX, Append,   *)
(* Clear, ResetIntKeys, Shift, Unshift, doCopy).                           *)
THEOREM IndexMatchesList == Spec => []IndexCoherent
<1>1. Inv /\ Connected => IndexCoherent
  BY ConnectedIsCoherent
<1> QED BY ConnectedHolds, <1>1, PTL

(* A cursor in the store of its table, even on a cell deleted under it,    *)
(* settles on an element of the list or past the end: Valid never delivers *)
(* an element that has been unset (hashtable-iter.go: Valid, Next, Prev).  *)
THEOREM CursorsStayConnected == Spec => []IteratorsStayConnected
<1>1. ASSUME Inv, Connected, NEW t \in Tables, tab[t].live, NEW c \in Cursor, CursorIn(heap, c)
      PROVE InStep(t, c)
  <2> SUFFICES ASSUME c.s = tab[t].store, c.n # 0
               PROVE \/ Settled(heap, c) = PastEnd
                     \/ Settled(heap, c).n \in Chain(heap[c.s], tab[t].first)
    BY DEF InStep, Settled
  <2> DEFINE h == heap[c.s]
             m == SettledLink(h, c.n)
  <2>1. /\ h \in Store /\ Closed(h) /\ c.n \in Links /\ c # PastEnd
        /\ tab[t] \in Table /\ Linked(tab[t], h)
    BY <1>1 DEF Inv, TypeOK, Connected, TablesLinked, Cursor, PastEnd, Slots, Links
  <2>2. h.cells[c.n].st # "free"
    BY <1>1, <2>1 DEF CursorIn
  <2>3. Settled(heap, c) = At(c.s, m)
    BY DEF Settled
  <2> HIDE DEF h
  <2>4. m \in Live(h) \cup {0}
    BY <2>1, <2>2, SettledLive
  <2>5. Chain(h, tab[t].first) = Live(h)
    BY <2>1, WalkIsLive DEF Linked
  <2> HIDE DEF m
  <2> QED BY <2>3, <2>4, <2>5 DEF At, h
<1>2. ASSUME Inv, Connected, RunningOnLive PROVE IteratorsStayConnected
  <2>1. ASSUME NEW t \in Tables, tab[t].live PROVE InStep(t, tab[t].main)
    <3>1. tab[t].main \in Cursor /\ CursorIn(heap, tab[t].main)
      BY <1>2 DEF Inv, TypeOK, Table, Connected
    <3> QED BY <1>1, <1>2, <2>1, <3>1
  <2>2. ASSUME NEW i \in Iters, its[i] # NoIter PROVE InStep(its[i].t, its[i].cur)
    <3>1. /\ its[i].t \in Tables /\ its[i].cur \in Cursor /\ CursorIn(heap, its[i].cur)
          /\ tab[its[i].t].live
      BY <1>2, <2>2 DEF Inv, TypeOK, Iter, Connected, RunningOnLive
    <3> QED BY <1>1, <1>2, <3>1
  <2> QED BY <2>1, <2>2 DEF IteratorsStayConnected
<1> QED BY ConnectedHolds, RunningHolds, <1>1, <1>2, PTL
=============================================================================
