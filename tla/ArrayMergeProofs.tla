-------------------------- MODULE ArrayMergeProofs ---------------------------
(* array_merge of two arrays, for any arrays of which the second brings no *)
(* string key that the first does not have: its result is as well linked   *)
(* and indexed as every other table, the arguments are what they were, and *)
(* two lists are put one behind the other.                                 *)
EXTENDS ArrayMerge, HashTableMapProofs

(* One turn of MergeTable, with the cell m of g or the end.                *)
Turn(p, m, g) == IF m = 0 THEN p ELSE MergeCell(p, g.cells[m])

(* f turns from x along the cells of g that W names.                       *)
IsTurns(f, x, W, g) ==
    f = [i \in 0..MaxSlots |-> IF i = 0 THEN x ELSE Turn(f[i - 1], W[i - 1], g)]

(* MergeTable is the result of MaxSlots turns along the list of w.         *)
LEMMA TurnsExist ==
    ASSUME NEW x, NEW W, NEW g
    PROVE \E f : IsTurns(f, x, W, g)
<1> DEFINE Def(f, i) == IF i = 0 THEN x ELSE Turn(f[i - 1], W[i - 1], g)
           T == {m \in 0..MaxSlots : \E f : f = [i \in 0..m |-> Def(f, i)]}
<1>1. 0 \in T
  <2> DEFINE f == [i \in 0..0 |-> x]
  <2>1. f = [i \in 0..0 |-> Def(f, i)]
    OBVIOUS
  <2>2. 0 \in 0..MaxSlots
    BY BoundsAssumption
  <2> HIDE DEF f, Def
  <2> QED BY <2>1, <2>2
<1>2. ASSUME NEW m \in 0 .. MaxSlots - 1, m \in T PROVE m + 1 \in T
  <2>1. PICK f : f = [i \in 0..m |-> Def(f, i)]
    BY <1>2
  <2> DEFINE n == Turn(f[m], W[m], g)
             e == [i \in 0 .. m + 1 |-> IF i <= m THEN f[i] ELSE n]
  <2>2. ASSUME NEW i \in 0 .. m + 1 PROVE e[i] = Def(e, i)
    <3>1. CASE i = 0
      BY <2>1, <3>1, BoundsAssumption
    <3>2. CASE i # 0 /\ i <= m
      <4>1. i \in 0..m /\ i - 1 \in 0..m /\ i - 1 \in 0 .. m + 1 /\ i - 1 <= m
        BY <3>2, BoundsAssumption
      <4>2. e[i] = f[i] /\ e[i - 1] = f[i - 1]
        BY <3>2, <4>1
      <4>3. f[i] = Turn(f[i - 1], W[i - 1], g)
        BY <2>1, <3>2, <4>1
      <4> QED BY <3>2, <4>2, <4>3
    <3>3. CASE i = m + 1
      <4>1. i - 1 = m /\ m \in 0 .. m + 1 /\ i # 0 /\ ~ (i <= m)
        BY <3>3, BoundsAssumption
      <4>2. e[i] = n /\ e[i - 1] = f[m]
        BY <4>1
      <4> QED BY <4>1, <4>2
    <3> QED BY <3>1, <3>2, <3>3, BoundsAssumption
  <2>3. e = [i \in 0 .. m + 1 |-> Def(e, i)]
    <3> HIDE DEF Def
    <3> QED BY <2>2
  <2>4. m + 1 \in 0..MaxSlots
    BY BoundsAssumption
  <2> HIDE DEF e
  <2> QED BY <2>3, <2>4
<1>3. MaxSlots \in T
  <2> HIDE DEF T
  <2>1. 0..MaxSlots \subseteq T
    BY <1>1, <1>2, UpToInduction, BoundsAssumption
  <2> QED BY <2>1, BoundsAssumption
<1> QED BY <1>3 DEF IsTurns

(* MergeTable is MaxSlots turns along the list of w, those after its end   *)
(* without effect.                                                         *)
LEMMA MergeTableIs ==
    ASSUME NEW r, NEW h, NEW w, NEW g, g = heap[tab[w].store], NEW W, W = Walk(g, tab[w].first)
    PROVE \E f : /\ f[0] = [r |-> r, h |-> h]
                 /\ \A i \in 0 .. MaxSlots - 1 : f[i + 1] = Turn(f[i], W[i], g)
                 /\ MergeTable(r, h, w) = f[MaxSlots]
<1> DEFINE x == [r |-> r, h |-> h]
           Def(f, i) == IF i = 0 THEN x ELSE Turn(f[i - 1], W[i - 1], g)
           M == CHOOSE f : f = [i \in 0..MaxSlots |-> Def(f, i)]
<1>1. M = [i \in 0..MaxSlots |-> Def(M, i)]
  <2>1. \E f : f = [i \in 0..MaxSlots |-> Def(f, i)]
    <3>1. \E f : IsTurns(f, x, W, g)
      <4> HIDE DEF x
      <4> QED BY TurnsExist
    <3> QED BY <3>1 DEF IsTurns
  <2> HIDE DEF Def
  <2> QED BY <2>1
<1>2. MergeTable(r, h, w) = M[MaxSlots]
  BY DEF MergeTable, Turn
<1> HIDE DEF M, x
<1>3. M[0] = x
  BY <1>1, BoundsAssumption
<1>4. ASSUME NEW i \in 0 .. MaxSlots - 1 PROVE M[i + 1] = Turn(M[i], W[i], g)
  <2>1. i + 1 \in 0..MaxSlots /\ i + 1 # 0 /\ (i + 1) - 1 = i
    BY BoundsAssumption
  <2>2. M[i + 1] = Def(M, i + 1)
    <3> HIDE DEF Def
    <3> QED BY <1>1, <2>1
  <2> QED BY <2>1, <2>2
<1> QED BY <1>2, <1>3, <1>4 DEF x

-----------------------------------------------------------------------------
(* One turn keeps what a table of its own needs.                           *)

(* A store without deleted cells has a cell left for one more element.     *)
LEMMA FreshExists ==
    ASSUME NEW h \in Store, \A m \in Slots : h.cells[m].st # "dead",
           Cardinality(Live(h)) < MaxSlots
    PROVE LET n == CHOOSE m \in Slots : FreshSlot(h, m)
          IN  n \in Slots /\ h.cells[n].st = "free"
<1> DEFINE F == {m \in Slots : h.cells[m].st = "free"}
<1>1. F # {}
  <2> SUFFICES ASSUME F = {} PROVE FALSE
    OBVIOUS
  <2>1. \A m \in Slots : h.cells[m].st = "live"
    BY DEF Store, Cell
  <2>2. Live(h) = 1..MaxSlots
    BY <2>1 DEF Live, Slots
  <2> QED BY <2>2, FS_Interval, BoundsAssumption
<1>2. 0 \in Int /\ \A m \in F : m \in Int /\ 0 <= m
  BY BoundsAssumption DEF Slots
<1> HIDE DEF F
<1>3. \E n \in F : \A m \in F : n <= m
  BY <1>1, <1>2, LeastElement
<1>4. \E n \in Slots : FreshSlot(h, n)
  BY <1>3 DEF F, FreshSlot
<1> DEFINE n == CHOOSE m \in Slots : FreshSlot(h, m)
<1>5. n \in Slots /\ FreshSlot(h, n)
  BY <1>4
<1> QED BY <1>5 DEF FreshSlot

(* nextInt stays an integer key.                                           *)
LEMMA SuccType == ASSUME NEW k \in IntKeys PROVE Succ(k) \in IntKeys
BY BoundsAssumption DEF Succ, IntKeys

(* What a table is after a cell has been put behind its last one.          *)
LEMMA AttachedFields ==
    ASSUME NEW r \in Table, NEW n \in Slots, NEW q, q = Attached(r, n)
    PROVE /\ q \in Table /\ q.count = r.count + 1 /\ q.last = n
          /\ q.first = IF r.last = 0 THEN n ELSE r.first
          /\ q.store = r.store /\ q.live = r.live /\ q.cow = r.cow /\ q.inc = r.inc
<1> DEFINE f == IF r.last = 0 THEN n ELSE r.first
           a == [r EXCEPT !.count = r.count + 1]
           b == [a EXCEPT !.last = n]
           d == [b EXCEPT !.first = f]
<1>1. n \in Links /\ f \in Links /\ r.count + 1 \in Int
  BY DEF Links, Slots, Table
<1> HIDE DEF f
<1>2. a \in Table
  BY <1>1, FieldTypes
<1>3. b \in Table
  <2> HIDE DEF a
  <2> QED BY <1>1, <1>2, FieldTypes
<1>4. d \in Table
  <2> HIDE DEF b
  <2> QED BY <1>1, <1>3, FieldTypes
<1>5. /\ d.count = r.count + 1 /\ d.last = n /\ d.first = f
      /\ d.store = r.store /\ d.live = r.live /\ d.cow = r.cow /\ d.inc = r.inc
  BY DEF Table
<1>6. Attached(r, n) = d
  BY DEF Attached, f, Table
<1> QED BY <1>4, <1>5, <1>6 DEF f

(* The table that MergeTable fills: its own store s, at most x elements,   *)
(* string keys as in h, integer keys not yet.                              *)
Merging(p, s, h, x) ==
    /\ p.r \in Table /\ p.h \in Store /\ p.r.store = s /\ p.r.live /\ ~ p.r.cow
    /\ Linked(p.r, p.h) /\ Closed(p.h) /\ IndexedOn(p.h, Keys \ IntKeys)
    /\ \A m \in Slots : p.h.cells[m].st # "dead"
    /\ \A k \in Keys \ IntKeys : p.h.idx[k] = h.idx[k]
    /\ p.r.count <= x

(* Its list has integer keys and the values of vals, up to x.              *)
Spelled(p, x, vals) ==
    \E y : /\ Listed(x, y, p.r, p.h)
           /\ \A i \in 1..x : p.h.cells[y[i]].k \in IntKeys /\ p.h.cells[y[i]].v = vals[i]

(* The turn of p over c links in cell n and makes the fields q and store g. *)
Grown(p, c, s, h, x, n, q, g) ==
    /\ n \in Slots /\ p.h.cells[n].st = "free"
    /\ q.first = IF p.r.last = 0 THEN n ELSE p.r.first
    /\ g = AppendCell(p.h, p.r.last, n, p.r.inc, c.v)
    /\ MergeCell(p, c) = [r |-> q, h |-> g]
    /\ Merging([r |-> q, h |-> g], s, h, x + 1)

(* A new cell under an integer key; the old index may lose its entry.      *)
LEMMA AppendTurn ==
    ASSUME NEW s, NEW h, NEW x \in Nat, x < MaxSlots, NEW p, Merging(p, s, h, x),
           NEW c \in Cell, c.k \in IntKeys
    PROVE \E n, q, g : Grown(p, c, s, h, x, n, q, g)
<1> DEFINE n == CHOOSE m \in Slots : FreshSlot(p.h, m)
           a == Attached(p.r, n)
           q == [a EXCEPT !.inc = Succ(a.inc)]
           k == p.r.inc
           g == AppendCell(p.h, p.r.last, n, k, c.v)
<1>1. /\ p.r \in Table /\ p.h \in Store /\ p.r.store = s /\ p.r.live /\ ~ p.r.cow
      /\ Linked(p.r, p.h) /\ Closed(p.h) /\ IndexedOn(p.h, Keys \ IntKeys)
      /\ \A m \in Slots : p.h.cells[m].st # "dead"
      /\ \A j \in Keys \ IntKeys : p.h.idx[j] = h.idx[j]
      /\ p.r.count <= x /\ p.r.count = Cardinality(Live(p.h)) /\ p.r.count \in Int
  BY DEF Merging, Linked, Table
<1>2. n \in Slots /\ p.h.cells[n].st = "free"
  <2>1. Cardinality(Live(p.h)) < MaxSlots
    BY <1>1, BoundsAssumption
  <2> QED BY <1>1, <2>1, FreshExists
<1>3. MergeCell(p, c) = [r |-> q, h |-> g]
  <2>1. q = [a EXCEPT !.inc = Succ(@)]
    BY <1>1, <1>2, AttachedFields DEF Table
  <2> QED BY <2>1 DEF MergeCell
<1> HIDE DEF n
<1>4. /\ a \in Table /\ a.count = p.r.count + 1 /\ a.last = n
      /\ a.first = IF p.r.last = 0 THEN n ELSE p.r.first
      /\ a.store = s /\ a.live /\ ~ a.cow /\ a.inc \in IntKeys
  BY <1>1, <1>2, AttachedFields DEF Table
<1> HIDE DEF a
<1>5. /\ q \in Table /\ q.count = p.r.count + 1 /\ q.last = n
      /\ q.first = IF p.r.last = 0 THEN n ELSE p.r.first
      /\ q.store = s /\ q.live /\ ~ q.cow
  <2>1. q \in Table
    BY <1>4, SuccType, FieldTypes
  <2>2. /\ q.count = a.count /\ q.last = a.last /\ q.first = a.first
        /\ q.store = a.store /\ q.live = a.live /\ q.cow = a.cow
    BY <1>4 DEF Table
  <2> QED BY <1>4, <2>1, <2>2
<1> HIDE DEF q
<1>6. k \in IntKeys /\ k \in Keys /\ c.v \in Vals \cup {None}
  BY <1>1 DEF Table, Keys, Cell
<1> HIDE DEF k
<1>7. /\ g \in Store /\ Linked(q, g) /\ Closed(g)
      /\ Live(g) = Live(p.h) \cup {n} /\ n \notin Live(p.h)
      /\ g.cells[n].k = k /\ g.cells[n].st = "live"
      /\ \A m \in Slots : m # n => /\ g.cells[m].k = p.h.cells[m].k
                                   /\ g.cells[m].st = p.h.cells[m].st
      /\ \A j \in Keys : g.idx[j] = IF j = k THEN n ELSE p.h.idx[j]
  <2> DEFINE v == c.v
             e == p.r
             l == p.h
             j0 == AppendCell(l, e.last, n, k, v)
  <2>1. /\ v \in Vals \cup {None} /\ g = j0
        /\ e \in Table /\ l \in Store /\ Linked(e, l) /\ Closed(l) /\ l.cells[n].st = "free"
        /\ q.count = e.count + 1 /\ q.last = n
        /\ q.first = IF e.last = 0 THEN n ELSE e.first
    BY <1>1, <1>2, <1>5, <1>6
  <2> HIDE DEF v, g, e, l
  <2>2. n \in Slots /\ k \in Keys
    BY <1>2, <1>6
  <2>3. Joined(l, j0, q, n, k)
    BY <2>1, <2>2, AppendJoined
  <2> HIDE DEF j0
  <2> QED BY <2>1, <2>3 DEF l, Joined
<1> DEFINE b == p.h
<1>8. b = p.h /\ Live(b) \subseteq Slots
  BY <1>1, LiveFacts
<1> HIDE DEF g, b
<1>9. IndexedOn(g, Keys \ IntKeys)
  <2>1. ASSUME NEW m \in Live(g), g.cells[m].k \in Keys \ IntKeys PROVE g.idx[g.cells[m].k] = m
    <3>1. m # n /\ m \in Live(p.h) /\ g.cells[m].k = p.h.cells[m].k /\ g.cells[m].k # k
      BY <1>6, <1>7, <1>8, <2>1
    <3> QED BY <1>1, <1>7, <2>1, <3>1 DEF IndexedOn
  <2>2. ASSUME NEW j \in Keys \ IntKeys, g.idx[j] # 0
        PROVE g.idx[j] \in Live(g) /\ g.cells[g.idx[j]].k = j
    <3>1. g.idx[j] = p.h.idx[j]
      BY <1>6, <1>7
    <3>2. p.h.idx[j] \in Live(p.h) /\ p.h.cells[p.h.idx[j]].k = j
      BY <1>1, <2>2, <3>1 DEF IndexedOn
    <3> QED BY <1>7, <1>8, <3>1, <3>2
  <2> QED BY <2>1, <2>2 DEF IndexedOn
<1>10. \A m \in Slots : g.cells[m].st # "dead"
  BY <1>1, <1>7
<1>11. \A j \in Keys \ IntKeys : g.idx[j] = h.idx[j]
  BY <1>1, <1>6, <1>7
<1>12. Merging([r |-> q, h |-> g], s, h, x + 1)
  <2>1. q.count <= x + 1
    BY <1>1, <1>5
  <2> QED BY <1>5, <1>7, <1>9, <1>10, <1>11, <2>1 DEF Merging
<1>13. g = AppendCell(p.h, p.r.last, n, p.r.inc, c.v)
  BY DEF g, k
<1>14. MergeCell(p, c) = [r |-> q, h |-> g]
  BY <1>3
<1>15. Grown(p, c, s, h, x, n, q, g)
  BY <1>2, <1>5, <1>12, <1>13, <1>14 DEF Grown
<1> QED BY <1>15

(* A string key that is there takes the value.                             *)
LEMMA OverwriteTurn ==
    ASSUME NEW s, NEW h, NEW x \in Nat, NEW p, Merging(p, s, h, x),
           NEW c \in Cell, c.k \notin IntKeys, h.idx[c.k] # 0
    PROVE Merging(MergeCell(p, c), s, h, x + 1)
<1> DEFINE b == p.h
           n == b.idx[c.k]
           d == [b.cells[n] EXCEPT !.v = c.v]
           g == [b EXCEPT !.cells = [b.cells EXCEPT ![n] = d]]
<1>1. /\ p.r \in Table /\ b \in Store /\ p.r.store = s /\ p.r.live /\ ~ p.r.cow
      /\ Linked(p.r, b) /\ Closed(b) /\ IndexedOn(b, Keys \ IntKeys)
      /\ \A m \in Slots : b.cells[m].st # "dead"
      /\ \A j \in Keys \ IntKeys : b.idx[j] = h.idx[j]
      /\ p.r.count <= x /\ p.r.count \in Int
  BY DEF Merging, Table
<1>2. c.k \in Keys \ IntKeys /\ c.v \in Vals \cup {None}
  BY DEF Cell
<1>3. n # 0 /\ n \in Slots
  BY <1>1, <1>2 DEF Store, Links, Slots
<1>4. MergeCell(p, c) = [r |-> p.r, h |-> g]
  <2>1. g = [p.h EXCEPT !.cells[n].v = c.v]
    BY <1>1 DEF Store
  <2> QED BY <1>3, <2>1 DEF MergeCell
<1> HIDE DEF b, n
<1>5. b.cells[n] \in Cell /\ b.cells \in [Slots -> Cell]
  BY <1>1, <1>3 DEF Store
<1>6. /\ d \in Cell /\ d.st = b.cells[n].st /\ d.next = b.cells[n].next
      /\ d.prev = b.cells[n].prev /\ d.k = b.cells[n].k
  BY <1>2, <1>5 DEF Cell
<1> HIDE DEF d
<1>7. g \in Store /\ g.idx = b.idx /\ g.cells = [b.cells EXCEPT ![n] = d]
  BY <1>1, <1>5, <1>6 DEF Store
<1> HIDE DEF g
<1>8. \A m \in Slots : /\ g.cells[m].st = b.cells[m].st
                       /\ g.cells[m].next = b.cells[m].next
                       /\ g.cells[m].prev = b.cells[m].prev
                       /\ g.cells[m].k = b.cells[m].k
  BY <1>5, <1>6, <1>7
<1>9. Live(g) = Live(b) /\ Linked(p.r, g) /\ Closed(g)
  BY <1>1, <1>7, <1>8, RelabelLinked
<1>10. IndexedOn(g, Keys \ IntKeys)
  <2>1. Live(b) \subseteq Slots
    BY <1>1, LiveFacts
  <2>2. \A m \in Live(g) : g.cells[m].k \in Keys \ IntKeys => g.idx[g.cells[m].k] = m
    BY <1>1, <1>7, <1>8, <1>9, <2>1 DEF IndexedOn
  <2>3. \A j \in Keys \ IntKeys :
          g.idx[j] # 0 => g.idx[j] \in Live(g) /\ g.cells[g.idx[j]].k = j
    BY <1>1, <1>7, <1>8, <1>9, <2>1 DEF IndexedOn
  <2> QED BY <2>2, <2>3 DEF IndexedOn
<1>11. p.r.count <= x + 1
  BY <1>1
<1>12. /\ \A m \in Slots : g.cells[m].st # "dead"
       /\ \A j \in Keys \ IntKeys : g.idx[j] = h.idx[j]
  BY <1>1, <1>7, <1>8
<1>13. Merging([r |-> p.r, h |-> g], s, h, x + 1)
  BY <1>1, <1>7, <1>9, <1>10, <1>11, <1>12 DEF Merging
<1> QED BY <1>4, <1>13

(* The list grows by the value of the cell.                                *)
LEMMA SpelledTurn ==
    ASSUME NEW s, NEW h, NEW x \in Nat, x < MaxSlots, NEW p, Merging(p, s, h, x),
           NEW c \in Cell, c.k \in IntKeys, NEW vals, Spelled(p, x, vals), vals[x + 1] = c.v
    PROVE Spelled(MergeCell(p, c), x + 1, vals)
<1>1. PICK n, q, g : Grown(p, c, s, h, x, n, q, g)
  BY AppendTurn
<1>2. /\ n \in Slots /\ p.h.cells[n].st = "free"
      /\ q.first = IF p.r.last = 0 THEN n ELSE p.r.first
      /\ g = AppendCell(p.h, p.r.last, n, p.r.inc, c.v)
      /\ MergeCell(p, c) = [r |-> q, h |-> g]
      /\ Merging([r |-> q, h |-> g], s, h, x + 1)
  BY <1>1 DEF Grown
<1>3. p.r \in Table /\ p.h \in Store /\ Linked(p.r, p.h) /\ p.r.inc \in IntKeys
  BY DEF Merging, Table
<1>4. g \in Store /\ q \in Table /\ Linked(q, g)
  BY <1>2 DEF Merging
<1>5. PICK y : /\ Listed(x, y, p.r, p.h)
               /\ \A i \in 1..x : p.h.cells[y[i]].k \in IntKeys /\ p.h.cells[y[i]].v = vals[i]
  BY DEF Spelled
<1> DEFINE E == ElementsOf(x, y, p.h)
           z == [k |-> p.r.inc, v |-> c.v]
<1>6. PICK w : /\ ListOf(x + 1, w, g, q.first)
               /\ ElementsOf(x + 1, w, g) = Longer(x, E, z)
  <2> DEFINE k == p.r.inc
             v == c.v
             f == q.first
             e == p.r
             b == p.h
  <2>1. /\ b \in Store /\ e \in Table /\ Linked(e, b) /\ Listed(x, y, e, b)
        /\ n \in Slots /\ b.cells[n].st = "free" /\ g = AppendCell(b, e.last, n, k, v)
        /\ f = IF e.last = 0 THEN n ELSE e.first
    BY <1>2, <1>3, <1>5
  <2> HIDE DEF k, v, f, e, b
  <2>2. \E w : /\ ListOf(x + 1, w, g, f)
               /\ \A i \in 1 .. x + 1 : w[i] \in Live(g)
               /\ ElementsOf(x + 1, w, g)
                    = Longer(x, ElementsOf(x, y, b), [k |-> k, v |-> v])
    BY <2>1, AppendList
  <2> QED BY <2>2 DEF k, v, f, b
<1>7. Listed(x + 1, w, q, g)
  BY <1>4, <1>6, ListIsListed
<1>8. \A i \in 1 .. x + 1 : g.cells[w[i]].k \in IntKeys /\ g.cells[w[i]].v = vals[i]
  <2> SUFFICES ASSUME NEW i \in 1 .. x + 1
               PROVE g.cells[w[i]].k \in IntKeys /\ g.cells[w[i]].v = vals[i]
    OBVIOUS
  <2>1. ElementAt(g, w[i]) = IF i <= x THEN E[i] ELSE z
    <3> HIDE DEF E, z
    <3>1. ElementsOf(x + 1, w, g)[i] = Longer(x, E, z)[i]
      BY <1>6
    <3> QED BY <3>1 DEF ElementsOf, Longer
  <2>2. /\ ElementAt(g, w[i]).k = g.cells[w[i]].k
        /\ ElementAt(g, w[i]).v = g.cells[w[i]].v
    BY DEF ElementAt
  <2>3. CASE i <= x
    <3>1. i \in 1..x
      BY <2>3
    <3>2. E[i].k = p.h.cells[y[i]].k /\ E[i].v = p.h.cells[y[i]].v
      BY <3>1 DEF ElementsOf, ElementAt
    <3> HIDE DEF E
    <3> QED BY <1>5, <2>1, <2>2, <2>3, <3>1, <3>2
  <2>4. CASE ~ (i <= x)
    <3>1. i = x + 1
      BY <2>4
    <3> QED BY <1>3, <2>1, <2>2, <2>4, <3>1
  <2> QED BY <2>3, <2>4
<1>9. Spelled([r |-> q, h |-> g], x + 1, vals)
  BY <1>7, <1>8 DEF Spelled
<1> QED BY <1>2, <1>9

-----------------------------------------------------------------------------
(* The turns together.                                                     *)

(* f turns from x along the m cells of g that y lists.                     *)
Turns(f, x, m, y, g) ==
    f[0] = x /\ \A i \in 0 .. m - 1 : f[i + 1] = MergeCell(f[i], g.cells[y[i + 1]])

(* The table w merged into x makes p.                                      *)
MergeMakes(x, w, p) ==
    \E r, h : x = [r |-> r, h |-> h] /\ p = MergeTable(r, h, w)

(* m turns along y lead from x to p.                                       *)
TurnsTo(p, x, m, y, g) == \E f : Turns(f, x, m, y, g) /\ p = f[m]

(* What MergeTable does, as one turn for each cell of the list of w.       *)
LEMMA MergeTurns ==
    ASSUME NEW w, NEW g, g = heap[tab[w].store], NEW m, NEW y, Listed(m, y, tab[w], g),
           NEW x, NEW p, MergeMakes(x, w, p)
    PROVE TurnsTo(p, x, m, y, g)
<1> DEFINE W == Walk(g, tab[w].first)
<1>1. PICK f : /\ f[0] = x
               /\ \A i \in 0 .. MaxSlots - 1 : f[i + 1] = Turn(f[i], W[i], g)
               /\ p = f[MaxSlots]
  <2>1. W = Walk(g, tab[w].first)
    OBVIOUS
  <2>2. PICK r, h : x = [r |-> r, h |-> h] /\ p = MergeTable(r, h, w)
    BY DEF MergeMakes
  <2> HIDE DEF W
  <2>3. \E f : /\ f[0] = [r |-> r, h |-> h]
               /\ \A i \in 0 .. MaxSlots - 1 : f[i + 1] = Turn(f[i], W[i], g)
               /\ MergeTable(r, h, w) = f[MaxSlots]
    BY <2>1, MergeTableIs
  <2> QED BY <2>2, <2>3
<1>2. /\ m \in Nat /\ m <= MaxSlots /\ y \in [1..m -> Slots]
      /\ \A i \in 1..m : W[i - 1] = y[i]
      /\ \A i \in m..MaxSlots : W[i] = 0
  BY DEF Listed, ListOf, Walked
<1> HIDE DEF W
<1>3. ASSUME NEW i \in 0 .. m - 1 PROVE f[i + 1] = MergeCell(f[i], g.cells[y[i + 1]])
  <2>1. i + 1 \in 1..m /\ (i + 1) - 1 = i /\ i \in 0 .. MaxSlots - 1
    BY <1>2, BoundsAssumption
  <2>2. W[i] = y[i + 1] /\ y[i + 1] # 0
    BY <1>2, <2>1 DEF Slots
  <2> QED BY <1>1, <2>1, <2>2 DEF Turn
<1>4. f[MaxSlots] = f[m]
  <2> DEFINE S == {d \in 0 .. MaxSlots - m : f[m + d] = f[m]}
  <2>1. 0 \in S
    BY <1>2, BoundsAssumption
  <2>2. ASSUME NEW d \in 0 .. (MaxSlots - m) - 1, d \in S PROVE d + 1 \in S
    <3>1. /\ m + d \in 0 .. MaxSlots - 1 /\ m + d \in m..MaxSlots /\ (m + d) + 1 = m + (d + 1)
          /\ d + 1 \in 0 .. MaxSlots - m
      BY <1>2, BoundsAssumption
    <3>2. f[(m + d) + 1] = f[m + d]
      BY <1>1, <1>2, <3>1 DEF Turn
    <3> QED BY <2>2, <3>1, <3>2
  <2>3. MaxSlots - m \in Nat
    BY <1>2, BoundsAssumption
  <2> DEFINE D == MaxSlots - m
  <2>4. D \in S
    <3>1. D \in Nat /\ 0 \in S /\ \A d \in 0 .. D - 1 : d \in S => d + 1 \in S
      BY <2>1, <2>2, <2>3
    <3> HIDE DEF S, D
    <3>2. 0..D \subseteq S
      BY <3>1, UpToInduction
    <3> QED BY <3>1, <3>2
  <2>5. m + (MaxSlots - m) = MaxSlots
    BY <1>2, BoundsAssumption
  <2> QED BY <2>4, <2>5 DEF S
<1>5. Turns(f, x, m, y, g)
  BY <1>1, <1>3 DEF Turns
<1> QED BY <1>1, <1>4, <1>5 DEF TurnsTo

(* The list is as long as count says.                                      *)
LEMMA ListCount ==
    ASSUME NEW h \in Store, NEW r, Linked(r, h), NEW n, NEW y, Listed(n, y, r, h)
    PROVE n \in Nat /\ n = r.count
<1>1. /\ n \in Nat /\ y \in [1..n -> Slots] /\ \A i \in 1..n : y[i] \in Live(h)
      /\ \A m \in Live(h) : \E i \in 1..n : y[i] = m
      /\ \A i, j \in 1..n : y[i] = y[j] => i = j
      /\ r.count = Cardinality(Live(h))
  BY DEF Listed, ListOf, Complete, Linked
<1>2. y \in [1..n -> Live(h)]
  BY <1>1
<1>3. IsFiniteSet(1..n) /\ Cardinality(1..n) = n
  BY <1>1, FS_Interval
<1> DEFINE J == 1..n
           T == Live(h)
<1>4. /\ IsFiniteSet(J) /\ y \in [J -> T] /\ \A i, j \in J : y[i] = y[j] => i = j
      /\ \A m \in T : \E i \in J : y[i] = m
  BY <1>1, <1>2, <1>3
<1> HIDE DEF J, T
<1>5. Cardinality(T) = Cardinality(J)
  BY <1>4, SameNumber
<1> QED BY <1>1, <1>3, <1>5 DEF J, T

(* MergeTable of a table w that has elements for which x is a start and    *)
(* which bring no string key that h has not indexed.                       *)
LEMMA TurnsKeep ==
    ASSUME NEW s, NEW h, NEW n \in Nat, NEW m \in Nat, n + m <= MaxSlots,
           NEW g \in Store, NEW y \in [1..m -> Slots],
           \A i \in 1..m : g.cells[y[i]].k \in IntKeys \/ h.idx[g.cells[y[i]].k] # 0,
           NEW x, Merging(x, s, h, n), NEW f, Turns(f, x, m, y, g)
    PROVE \A i \in 0..m : Merging(f[i], s, h, n + i)
<1> DEFINE S == {i \in 0..m : Merging(f[i], s, h, n + i)}
<1>1. 0 \in S
  BY DEF Turns
<1>2. ASSUME NEW i \in 0 .. m - 1, i \in S PROVE i + 1 \in S
  <2>1. i + 1 \in 0..m /\ i + 1 \in 1..m /\ n + i \in Nat /\ n + i < MaxSlots
        /\ n + (i + 1) = (n + i) + 1
    BY BoundsAssumption
  <2> DEFINE c == g.cells[y[i + 1]]
             p == f[i]
             z == n + i
  <2>2. f[i + 1] = MergeCell(p, c)
    BY DEF Turns
  <2>3. c \in Cell /\ (c.k \in IntKeys \/ h.idx[c.k] # 0) /\ Merging(p, s, h, z)
    BY <1>2, <2>1 DEF Store
  <2> HIDE DEF c, p
  <2>4. Merging(MergeCell(p, c), s, h, z + 1)
    <3>1. z \in Nat /\ z < MaxSlots
      BY <2>1
    <3> HIDE DEF z
    <3>2. CASE c.k \in IntKeys
      <4>1. PICK e, q, k : Grown(p, c, s, h, z, e, q, k)
        BY <2>3, <3>1, <3>2, AppendTurn
      <4> QED BY <4>1 DEF Grown
    <3>3. CASE c.k \notin IntKeys
      BY <2>3, <3>1, <3>3, OverwriteTurn
    <3> QED BY <3>2, <3>3
  <2> QED BY <2>1, <2>2, <2>4
<1> HIDE DEF S
<1>3. 0..m \subseteq S
  BY <1>1, <1>2, UpToInduction
<1> QED BY <1>3 DEF S

(* The turns along a list put its values behind those that are there.      *)
LEMMA TurnsSpell ==
    ASSUME NEW s, NEW h, NEW n \in Nat, NEW m \in Nat, n + m <= MaxSlots,
           NEW g \in Store, NEW y \in [1..m -> Slots],
           \A i \in 1..m : g.cells[y[i]].k \in IntKeys,
           NEW x, Merging(x, s, h, n), NEW f, Turns(f, x, m, y, g),
           NEW vals, Spelled(x, n, vals),
           \A i \in 1..m : vals[n + i] = g.cells[y[i]].v
    PROVE Spelled(f[m], n + m, vals)
<1>1. \A i \in 0..m : Merging(f[i], s, h, n + i)
  BY TurnsKeep
<1> DEFINE S == {i \in 0..m : Spelled(f[i], n + i, vals)}
<1>2. 0 \in S
  BY DEF Turns
<1>3. ASSUME NEW i \in 0 .. m - 1, i \in S PROVE i + 1 \in S
  <2>1. i + 1 \in 0..m /\ i + 1 \in 1..m /\ i \in 0..m /\ n + i \in Nat /\ n + i < MaxSlots
        /\ n + (i + 1) = (n + i) + 1
    BY BoundsAssumption
  <2> DEFINE c == g.cells[y[i + 1]]
             p == f[i]
             z == n + i
  <2>2. f[i + 1] = MergeCell(p, c)
    BY DEF Turns
  <2>3. /\ c \in Cell /\ c.k \in IntKeys /\ vals[z + 1] = c.v
        /\ Merging(p, s, h, z) /\ Spelled(p, z, vals)
    BY <1>1, <1>3, <2>1 DEF Store
  <2> HIDE DEF c, p
  <2>4. Spelled(MergeCell(p, c), z + 1, vals)
    <3>1. z \in Nat /\ z < MaxSlots
      BY <2>1
    <3> HIDE DEF z
    <3> QED BY <2>3, <3>1, SpelledTurn
  <2> QED BY <2>1, <2>2, <2>4
<1> HIDE DEF S
<1>4. 0..m \subseteq S
  BY <1>2, <1>3, UpToInduction
<1> QED BY <1>4 DEF S

-----------------------------------------------------------------------------
(* array_merge of two arrays.                                              *)

Started(t, s) == [CopiedTable(t, s) EXCEPT !.incInit = FALSE]
CopyOf(t) == Copy(heap[tab[t].store], tab[t].first)

(* array_merge($t, $w) makes the table p in the store s.                   *)
Merges(t, w, u, s, p) ==
    /\ s \in Stores /\ NewStore(s)
    /\ p = MergeTable(Started(t, s), CopyOf(t), w)
    /\ tab' = [tab EXCEPT ![t].cow = TRUE, ![u] = Reset(p.r, p.h)]
    /\ heap' = Collected(Placed(s, Renumber(p.h, p.r.first)))

(* array_merge of two arrays, without the LET of its definition.           *)
LEMMA MergeTwoIs ==
    ASSUME NEW t \in Tables, NEW w \in Tables, NEW u \in Tables, MergeTwo(t, w, u)
    PROVE /\ tab[t].live /\ tab[w].live /\ ~ tab[u].live /\ its' = its
          /\ tab[t].count + tab[w].count <= MaxSlots
          /\ \E s, p : Merges(t, w, u, s, p)
<1>1. PICK s \in Stores :
        /\ NewStore(s)
        /\ LET p == MergeTable([CopiedTable(t, s) EXCEPT !.incInit = FALSE],
                               Copy(heap[tab[t].store], tab[t].first), w)
           IN  /\ tab' = [tab EXCEPT ![t].cow = TRUE, ![u] = Reset(p.r, p.h)]
               /\ heap' = Collected([heap EXCEPT ![s] = Renumber(p.h, p.r.first)])
  BY DEF MergeTwo
<1> DEFINE p == MergeTable(Started(t, s), CopyOf(t), w)
<1>2. /\ tab' = [tab EXCEPT ![t].cow = TRUE, ![u] = Reset(p.r, p.h)]
      /\ heap' = Collected(Placed(s, Renumber(p.h, p.r.first)))
  BY <1>1 DEF Started, CopyOf, Placed
<1> HIDE DEF p
<1>3. Merges(t, w, u, s, p)
  BY <1>1, <1>2 DEF Merges, p
<1> QED BY <1>3 DEF MergeTwo

(* What every table is after it.                                           *)
LEMMA MergeTables ==
    ASSUME Inv, NEW t \in Tables, NEW w, NEW u \in Tables, tab[t].live, ~ tab[u].live,
           NEW s, NEW p, Merges(t, w, u, s, p)
    PROVE /\ tab'[u] = Reset(p.r, p.h)
          /\ \A v \in Tables : v # u =>
               /\ tab'[v] \in Table /\ tab'[v].live = tab[v].live
               /\ tab'[v].store = tab[v].store /\ tab'[v].main = tab[v].main
               /\ tab'[v].first = tab[v].first /\ tab'[v].last = tab[v].last
               /\ tab'[v].count = tab[v].count /\ tab'[v].inc = tab[v].inc
               /\ tab[v].cow => tab'[v].cow
<1> DEFINE q == Reset(p.r, p.h)
           d == [tab[t] EXCEPT !.cow = TRUE]
<1>1. tab \in [Tables -> Table] /\ t # u
  BY DEF Inv, TypeOK
<1>2. /\ d \in Table /\ d.live = tab[t].live /\ d.store = tab[t].store /\ d.main = tab[t].main
      /\ d.first = tab[t].first /\ d.last = tab[t].last /\ d.count = tab[t].count
      /\ d.inc = tab[t].inc /\ d.cow
  BY <1>1 DEF Table
<1>3. tab' = [[tab EXCEPT ![t] = d] EXCEPT ![u] = q]
  BY DEF Merges
<1> HIDE DEF q, d
<1>4. tab'[u] = q /\ \A v \in Tables : v # u => tab'[v] = IF v = t THEN d ELSE tab[v]
  BY <1>1, <1>3
<1>5. ASSUME NEW v \in Tables, v # u
      PROVE /\ tab'[v] \in Table /\ tab'[v].live = tab[v].live
            /\ tab'[v].store = tab[v].store /\ tab'[v].main = tab[v].main
            /\ tab'[v].first = tab[v].first /\ tab'[v].last = tab[v].last
            /\ tab'[v].count = tab[v].count /\ tab'[v].inc = tab[v].inc
            /\ tab[v].cow => tab'[v].cow
  <2>1. CASE v = t
    BY <1>2, <1>4, <1>5, <2>1
  <2>2. CASE v # t
    BY <1>1, <1>4, <1>5, <2>2
  <2> QED BY <2>1, <2>2
<1> QED BY <1>4, <1>5 DEF q

(* The copy has the cells of the list and no other.                        *)
LEMMA CopiedCells ==
    ASSUME Inv, Connected, NEW t \in Tables, tab[t].live
    PROVE LET h == heap[tab[t].store]
          IN  /\ Chain(h, tab[t].first) = Live(h) /\ Live(CopyOf(t)) = Live(h)
              /\ \A m \in Slots :
                   CopyOf(t).cells[m] = IF m \in Live(h) THEN h.cells[m] ELSE FreeCell
<1> DEFINE h == heap[tab[t].store]
<1>1. /\ h \in Store /\ tab[t] \in Table /\ Linked(tab[t], h) /\ IndexedOn(h, Keys)
  BY DEF Inv, TypeOK, Connected, TablesLinked
<1>2. CopyOf(t) = Copy(h, tab[t].first)
  BY DEF CopyOf
<1> HIDE DEF h
<1>3. Chain(h, tab[t].first) = Live(h) /\ Live(CopyOf(t)) = Live(h)
  BY <1>1, <1>2, CopyFacts
<1>4. \A m \in Slots :
        CopyOf(t).cells[m] = IF m \in Chain(h, tab[t].first) THEN h.cells[m] ELSE FreeCell
  BY <1>2, SMTT(60) DEF Copy
<1> QED BY <1>3, <1>4 DEF h

(* The Dup, separated, is where the merge starts from.                     *)
LEMMA MergeStart ==
    ASSUME Inv, Connected, NEW t \in Tables, tab[t].live, NEW s \in Stores, NewStore(s)
    PROVE /\ Merging([r |-> Started(t, s), h |-> CopyOf(t)], s, CopyOf(t), tab[t].count)
          /\ Started(t, s).first = tab[t].first /\ Started(t, s).last = tab[t].last
          /\ Started(t, s).count = tab[t].count
          /\ CopyOf(t) \in Store /\ IndexedOn(CopyOf(t), Keys)
<1> DEFINE h0 == heap[tab[t].store]
           h == CopyOf(t)
           c == CopiedTable(t, s)
           r == Started(t, s)
<1>1. /\ h0 \in Store /\ tab[t] \in Table /\ Linked(tab[t], h0) /\ IndexedOn(h0, Keys)
  BY DEF Inv, TypeOK, Connected, TablesLinked
<1>2. h \in Store /\ Linked(c, h) /\ IndexedOn(h, Keys) /\ Closed(h)
  BY SeparatedFacts DEF CopyOf
<1>3. \A m \in Slots : h.cells[m] = IF m \in Live(h0) THEN h0.cells[m] ELSE FreeCell
  BY CopiedCells
<1>4. \A m \in Slots : h.cells[m].st # "dead"
  <2> HIDE DEF h, h0
  <2> QED BY <1>3 DEF Live, FreeCell
<1>5. /\ c \in Table /\ c.store = s /\ ~ c.cow /\ c.live = tab[t].live
      /\ c.first = tab[t].first /\ c.last = tab[t].last /\ c.count = tab[t].count
  BY <1>1, CopiedTableType DEF CopiedTable, Table, Inv
<1> HIDE DEF h0, c
<1>6. /\ r \in Table /\ r.store = s /\ ~ r.cow /\ r.live
      /\ r.first = tab[t].first /\ r.last = tab[t].last /\ r.count = tab[t].count
  <2>1. r = [c EXCEPT !.incInit = FALSE]
    BY DEF Started, c
  <2>2. r \in Table
    BY <1>5, <2>1, FieldTypes
  <2> QED BY <1>5, <2>1, <2>2 DEF Table
<1> HIDE DEF h, r
<1>7. Linked(r, h)
  BY <1>2, <1>5, <1>6, LinkedFields
<1>8. IndexedOn(h, Keys \ IntKeys)
  BY <1>2 DEF IndexedOn
<1>9. r.count <= tab[t].count
  BY <1>1, <1>6 DEF Table
<1>10. Merging([r |-> r, h |-> h], s, h, tab[t].count)
  BY <1>2, <1>4, <1>6, <1>7, <1>8, <1>9 DEF Merging
<1> QED BY <1>2, <1>6, <1>10 DEF h, r

(* The string keys of $w that $t has are indexed in the copy.              *)
LEMMA KeysFound ==
    ASSUME Inv, Connected, NEW t \in Tables, NEW w \in Tables, tab[t].live, tab[w].live,
           NoNewStrings(t, w), NEW s \in Stores, NewStore(s),
           NEW g, g = heap[tab[w].store], NEW n \in Live(g)
    PROVE g.cells[n].k \in IntKeys \/ CopyOf(t).idx[g.cells[n].k] # 0
<1> DEFINE h == heap[tab[t].store]
           k == g.cells[n].k
           c == CopyOf(t)
<1>1. g \in Store /\ Chain(g, tab[w].first) = Live(g) /\ Chain(h, tab[t].first) = Live(h)
  BY CopiedCells DEF Inv, TypeOK
<1>2. k \in KeysOf(w)
  BY <1>1 DEF KeysOf
<1>3. CASE k \in KeysOf(t)
  <2>1. PICK b \in Live(h) : h.cells[b].k = k
    BY <1>1, <1>3 DEF KeysOf
  <2>2. b \in Slots /\ b # 0
    BY <2>1 DEF Live, Slots
  <2>3. c.cells[b] = h.cells[b] /\ b \in Live(c)
    <3>1. Live(c) = Live(h) /\ c.cells[b] = IF b \in Live(h) THEN h.cells[b] ELSE FreeCell
      BY <2>2, CopiedCells
    <3> HIDE DEF c, h
    <3> QED BY <2>1, <3>1
  <2>4. k \in Keys
    BY <1>1, LinkTypes DEF Live
  <2>5. IndexedOn(c, Keys)
    BY MergeStart
  <2> HIDE DEF c, k, h
  <2>6. c.idx[k] = b
    BY <2>1, <2>2, <2>3, <2>4, <2>5 DEF IndexedOn
  <2> QED BY <2>2, <2>6 DEF c, k
<1>4. CASE k \in IntKeys
  BY <1>4
<1> QED BY <1>2, <1>3, <1>4 DEF NoNewStrings

(* What MergeTable has made.                                               *)
LEMMA MergedTable ==
    ASSUME Inv, Connected, NEW t \in Tables, NEW w \in Tables, NEW u \in Tables,
           tab[t].live, tab[w].live, tab[t].count + tab[w].count <= MaxSlots,
           NoNewStrings(t, w), NEW s, NEW p, Merges(t, w, u, s, p)
    PROVE Merging(p, s, CopyOf(t), tab[t].count + tab[w].count)
<1> DEFINE g == heap[tab[w].store]
           o == tab[w]
           h == CopyOf(t)
           r == Started(t, s)
           x == [r |-> r, h |-> h]
           n == tab[t].count
<1>1. s \in Stores /\ NewStore(s) /\ p = MergeTable(r, h, w)
  BY DEF Merges
<1>2. g \in Store /\ o \in Table /\ Linked(o, g)
  BY DEF Inv, TypeOK, Connected, TablesLinked
<1>3. Merging(x, s, h, n) /\ h \in Store
  BY <1>1, MergeStart
<1>4. n \in Nat /\ o.count \in Nat
  <2>1. Linked(tab[t], heap[tab[t].store]) /\ Live(heap[tab[t].store]) \in SUBSET Slots
    BY DEF Connected, TablesLinked, Live
  <2>2. Live(g) \in SUBSET Slots
    BY DEF Live
  <2> QED BY <1>2, <2>1, <2>2, SubsetSize, BoundsAssumption DEF Linked
<1>5. \E m \in Nat : \E y \in [1..m -> Slots] : Listed(m, y, o, g)
  <2> HIDE DEF o, g
  <2> QED BY <1>2, ListExists
<1>6. PICK m \in Nat : \E y \in [1..m -> Slots] : Listed(m, y, o, g)
  BY <1>5
<1>7. PICK y \in [1..m -> Slots] : Listed(m, y, o, g)
  BY <1>6
<1>8. m = o.count
  <2> HIDE DEF o, g
  <2> QED BY <1>2, <1>7, ListCount
<1>9. PICK f : Turns(f, x, m, y, g) /\ p = f[m]
  <2>1. g = heap[tab[w].store] /\ Listed(m, y, tab[w], g) /\ MergeMakes(x, w, p)
    BY <1>1, <1>7 DEF MergeMakes
  <2> HIDE DEF g, r, h, x
  <2>2. TurnsTo(p, x, m, y, g)
    BY <2>1, MergeTurns
  <2> QED BY <2>2 DEF TurnsTo
<1>10. \A i \in 1..m : g.cells[y[i]].k \in IntKeys \/ h.idx[g.cells[y[i]].k] # 0
  <2>1. \A i \in 1..m : y[i] \in Live(g)
    BY <1>7 DEF Listed, Complete
  <2> QED BY <1>1, <2>1, KeysFound
<1>11. n + m <= MaxSlots
  BY <1>8
<1> HIDE DEF g, o, h, r, x, n
<1>12. Merging(f[m], s, h, n + m)
  <2>1. \A i \in 0..m : Merging(f[i], s, h, n + i)
    BY <1>2, <1>3, <1>4, <1>7, <1>9, <1>10, <1>11, TurnsKeep
  <2> QED BY <2>1
<1> QED BY <1>8, <1>9, <1>12 DEF h, n, o

(* The table that Reset makes of it, with its store.                       *)
LEMMA ResetTable ==
    ASSUME NEW s \in Stores, NEW h, NEW x, NEW p, Merging(p, s, h, x),
           NEW q, q = Reset(p.r, p.h), NEW g, g = Renumber(p.h, p.r.first)
    PROVE /\ q \in Table /\ q.live /\ ~ q.cow /\ q.store = s /\ q.first = p.r.first
          /\ q.main = At(s, p.r.first) /\ p.r.first \in Links
          /\ p.r.first # 0 => g.cells[p.r.first].st # "free"
          /\ g \in Store /\ Linked(q, g) /\ IndexedOn(g, Keys) /\ Closed(g)
          /\ Live(g) = Live(p.h)
<1> DEFINE r == p.r
           b == p.h
           e == Renumbered(r, b)
<1>1. /\ r \in Table /\ b \in Store /\ r.store = s /\ r.live /\ ~ r.cow
      /\ Linked(r, b) /\ Closed(b) /\ IndexedOn(b, Keys \ IntKeys)
  BY DEF Merging
<1>2. q = [e EXCEPT !.main = At(s, r.first)] /\ g = Renumber(b, r.first)
  BY <1>1 DEF Reset
<1> HIDE DEF r, b
<1>3. /\ e \in Table /\ e.live /\ ~ e.cow /\ e.store = s /\ e.first = r.first
      /\ e.last = r.last /\ e.count = r.count
  BY <1>1, RenumberedType DEF Renumbered, Table
<1> HIDE DEF e
<1>4. r.first \in Links /\ At(s, r.first) \in Cursor
  BY <1>1, AtType DEF Table
<1>5. /\ q \in Table /\ q.live /\ ~ q.cow /\ q.store = s /\ q.first = r.first
      /\ q.last = r.last /\ q.count = r.count /\ q.main = At(s, r.first)
  <2>1. q \in Table
    BY <1>2, <1>3, <1>4, FieldTypes
  <2> QED BY <1>2, <1>3, <2>1 DEF Table
<1>6. /\ g \in Store /\ Live(g) = Live(b) /\ Linked(r, g) /\ IndexedOn(g, Keys) /\ Closed(g)
  BY <1>1, <1>2, RenumberLinked
<1>7. Linked(q, g)
  BY <1>5, <1>6, LinkedFields
<1>8. r.first # 0 => g.cells[r.first].st # "free"
  BY <1>6 DEF Linked, LinksAgree, Live
<1> QED BY <1>4, <1>5, <1>6, <1>7, <1>8 DEF r, b

(* array_merge keeps the inductive invariant of HashTable.                 *)
LEMMA MergeSafelyStep ==
    ASSUME Inv, Connected, NEW t \in Tables, NEW w \in Tables, NEW u \in Tables,
           MergeSafely(t, w, u)
    PROVE Inv' /\ Connected'
<1>1. /\ tab[t].live /\ tab[w].live /\ ~ tab[u].live /\ its' = its
      /\ tab[t].count + tab[w].count <= MaxSlots /\ NoNewStrings(t, w)
  BY MergeTwoIs DEF MergeSafely
<1>2. \E s, p : Merges(t, w, u, s, p)
  BY MergeTwoIs DEF MergeSafely
<1>3. PICK s, p : Merges(t, w, u, s, p)
  BY <1>2
<1> DEFINE q == Reset(p.r, p.h)
           f == p.r.first
           g == Renumber(p.h, f)
           hp == Placed(s, g)
<1>4. s \in Stores /\ NewStore(s) /\ heap' = Collected(hp)
  BY <1>3 DEF Merges
<1>5. Merging(p, s, CopyOf(t), tab[t].count + tab[w].count)
  BY <1>1, <1>3, MergedTable
<1>6. /\ q \in Table /\ q.live /\ ~ q.cow /\ q.store = s /\ q.main = At(s, f) /\ f \in Links
      /\ f # 0 => g.cells[f].st # "free"
      /\ g \in Store /\ Linked(q, g) /\ IndexedOn(g, Keys) /\ Closed(g)
  <2> HIDE DEF q
  <2> DEFINE h == CopyOf(t)
             x == tab[t].count + tab[w].count
  <2>1. q = Reset(p.r, p.h) /\ g = Renumber(p.h, p.r.first) /\ Merging(p, s, h, x)
    BY <1>5 DEF q
  <2> HIDE DEF g, h, x
  <2>2. /\ q \in Table /\ q.live /\ ~ q.cow /\ q.store = s
        /\ q.main = At(s, p.r.first) /\ p.r.first \in Links
        /\ p.r.first # 0 => g.cells[p.r.first].st # "free"
        /\ g \in Store /\ Linked(q, g) /\ IndexedOn(g, Keys) /\ Closed(g)
    BY <1>4, <2>1, ResetTable
  <2> QED BY <2>2
<1>7. /\ tab'[u] = q
      /\ \A v \in Tables : v # u =>
           /\ tab'[v] \in Table /\ tab'[v].live = tab[v].live
           /\ tab'[v].store = tab[v].store /\ tab'[v].main = tab[v].main
           /\ tab'[v].first = tab[v].first /\ tab'[v].last = tab[v].last
           /\ tab'[v].count = tab[v].count
           /\ tab[v].cow => tab'[v].cow
  BY <1>1, <1>3, MergeTables
<1> HIDE DEF q, g, f
<1>8. /\ hp \in [Stores -> Store] /\ hp[s] = g
      /\ \A x \in Stores : x # s => hp[x] = heap[x]
  BY <1>4, <1>6, PlacedFacts
<1>9. \A v \in Tables : tab[v].store # s
  BY <1>4 DEF NewStore, FreeStore
<1>10. /\ \A v \in Tables : CursorIn(hp, tab[v].main)
       /\ \A i \in Iters : CursorIn(hp, its[i].cur)
  BY <1>4, NewStoreCursors
<1> HIDE DEF hp
<1>11. \A v \in Tables : v # u /\ tab'[v].live =>
         tab[v].live /\ tab[v].store \in Stores /\ hp[tab'[v].store] = heap[tab[v].store]
  BY <1>7, <1>8, <1>9 DEF Inv, TypeOK
<1>12. tab' \in [Tables -> Table]
  <2>1. \E d, e : tab' = [tab EXCEPT ![t] = d, ![u] = e]
    <3>1. tab' = [tab EXCEPT ![t] = [tab[t] EXCEPT !.cow = TRUE], ![u] = Reset(p.r, p.h)]
      BY <1>3 DEF Merges, Inv, TypeOK
    <3> QED BY <3>1
  <2>2. tab' = [v \in Tables |-> tab'[v]]
    BY <2>1 DEF Inv, TypeOK
  <2>3. \A v \in Tables : tab'[v] \in Table
    BY <1>6, <1>7
  <2> QED BY <2>2, <2>3
<1>13. its' \in [Iters -> Iter \cup {NoIter}]
  BY <1>1 DEF Inv, TypeOK
<1>14. TypeOK'
  <2>1. heap' \in [Stores -> Store]
    BY <1>4, <1>8, CollectedType
  <2>2. \A v \in Tables : tab'[v].live => tab'[v].store \in Stores
    BY <1>4, <1>6, <1>7, <1>11
  <2> QED BY <1>12, <1>13, <2>1, <2>2 DEF TypeOK
<1>15. SharedStoreIsCow'
  <2> SUFFICES ASSUME NEW v \in Tables, NEW z \in Tables, v # z, tab'[v].live, tab'[z].live,
                      tab'[v].store = tab'[z].store
               PROVE tab'[v].cow /\ tab'[z].cow
    BY DEF SharedStoreIsCow
  <2>1. v # u /\ z # u
    BY <1>6, <1>7, <1>9
  <2> QED BY <1>7, <2>1 DEF Inv, SharedStoreIsCow
<1>16. \A x \in Stores : Closed(hp[x])
  BY <1>6, <1>8 DEF Connected
<1>17. ASSUME NEW v \in Tables, tab'[v].live
       PROVE /\ tab'[v].store \in Stores
             /\ Linked(tab'[v], hp[tab'[v].store]) /\ IndexedOn(hp[tab'[v].store], Keys)
  <2>1. CASE v = u
    BY <1>4, <1>6, <1>7, <1>8, <2>1
  <2>2. CASE v # u
    <3>1. tab[v].live /\ tab[v].store \in Stores /\ hp[tab'[v].store] = heap[tab[v].store]
          /\ tab'[v].store = tab[v].store
      BY <1>7, <1>11, <1>17, <2>2
    <3>2. Linked(tab[v], heap[tab[v].store]) /\ IndexedOn(heap[tab[v].store], Keys)
      BY <3>1 DEF Connected, TablesLinked
    <3> DEFINE b == heap[tab[v].store]
               a == tab[v]
               c == tab'[v]
    <3>3. Linked(a, b) /\ c.first = a.first /\ c.last = a.last /\ c.count = a.count
      BY <1>7, <2>2, <3>2
    <3> HIDE DEF a, b, c
    <3>4. Linked(c, b)
      BY <3>3, LinkedFields
    <3> QED BY <3>1, <3>2, <3>4 DEF b, c
  <2> QED BY <2>1, <2>2
<1>18. ASSUME NEW v \in Tables PROVE CursorIn(hp, tab'[v].main)
  <2>1. CASE v = u
    <3>1. CursorIn(hp, At(s, f))
      BY <1>4, <1>6, <1>8, AtIn
    <3> QED BY <1>6, <1>7, <2>1, <3>1
  <2>2. CASE v # u
    BY <1>7, <1>10, <2>2
  <2> QED BY <2>1, <2>2
<1>19. Connected'
  BY <1>1, <1>4, <1>8, <1>10, <1>12, <1>13, <1>16, <1>17, <1>18, CollectedConnected
<1> QED BY <1>14, <1>15, <1>19 DEF Inv

(* Every state of a program that merges in this way is as NextStep and     *)
(* NextConnected leave it.                                                 *)
LEMMA SafeMergeHolds == SafeMergeSpec => [](Inv /\ Connected)
<1>1. Init => Inv /\ Connected
  BY InitInv, InitConnected
<1>2. Inv /\ Connected /\ [Next \/ \E t, w, u \in Tables : MergeSafely(t, w, u)]_vars
        => Inv' /\ Connected'
  BY NextStep, NextConnected, MergeSafelyStep, StutterStep, StutterConnected
<1> QED BY <1>1, <1>2, PTL DEF SafeMergeSpec

(* The result of array_merge is indexed as it is listed: look-up,          *)
(* iteration and count() of it agree, whatever is done with it later       *)
(* (array.go: arrayMerge; hashtable.go: MergeTable, ResetIntKeys).         *)
THEOREM MergedIsCoherent == SafeMergeSpec => []IndexCoherent
<1>1. Inv /\ Connected => IndexCoherent
  BY ConnectedIsCoherent
<1> QED BY SafeMergeHolds, <1>1, PTL

-----------------------------------------------------------------------------
(* What the arguments and the result hold.                                 *)

(* Collected looks at each store by itself.                                *)
LEMMA CollectedElsewhere ==
    ASSUME NEW hp, NEW hq, NEW q \in Stores, hp[q] = hq[q]
    PROVE Collected(hp)[q] = Collected(hq)[q]
BY DEF Collected

(* What array_merge leaves to the arrays there are.                        *)
LEMMA MergeTwoUntouched ==
    ASSUME Inv, NEW t \in Tables, NEW w \in Tables, NEW u \in Tables, MergeTwo(t, w, u),
           NEW v \in Tables, tab[v].live
    PROVE View(v)' = View(v)
<1>1. tab[t].live /\ ~ tab[u].live /\ v # u
  BY MergeTwoIs
<1>2. \E s, p : Merges(t, w, u, s, p)
  BY MergeTwoIs
<1>3. PICK s, p : Merges(t, w, u, s, p)
  BY <1>2
<1>4. /\ tab'[v].store = tab[v].store /\ tab'[v].first = tab[v].first
      /\ tab'[v].last = tab[v].last /\ tab'[v].count = tab[v].count /\ tab'[v].inc = tab[v].inc
  BY <1>1, <1>3, MergeTables
<1> DEFINE q == tab[v].store
           g == Renumber(p.h, p.r.first)
<1>5. q \in Stores /\ q # s /\ s \in Stores /\ heap' = Collected(Placed(s, g))
  BY <1>3 DEF Merges, NewStore, FreeStore, Inv, TypeOK
<1>6. heap'[q] = Collected(heap)[q]
  <2> HIDE DEF g, q
  <2>1. Placed(s, g)[q] = heap[q]
    BY <1>5, PlacedFacts
  <2> QED BY <1>5, <2>1, CollectedElsewhere
<1>7. heap \in [Stores -> Store]
  BY DEF Inv, TypeOK
<1>8. heap'[q].idx = heap[q].idx /\ LiveCells(heap'[q]) = LiveCells(heap[q])
  BY <1>4, <1>5, <1>6, <1>7, CollectedKeeps
<1>9. LiveCells(heap[tab[v].store])' = LiveCells(heap'[tab'[v].store])
  BY DEF LiveCells
<1> QED BY <1>4, <1>8, <1>9 DEF View

(* array_merge works on "a copy of array" (array.go:144): the two          *)
(* arguments, and every other array of the program, are afterwards what    *)
(* they were. array_merge of one array is not covered: Reset writes        *)
(* through the store it shares with its argument.                          *)
THEOREM ArgumentsKept == 1 \notin Arities => (SafeMergeSpec => ArgumentsUntouched)
<1> SUFFICES ASSUME 1 \notin Arities PROVE SafeMergeSpec => ArgumentsUntouched
  OBVIOUS
<1>1. ASSUME Inv /\ Connected
      PROVE [\A u \in Tables : ArrayMerge(u) =>
               \A t \in Tables : tab[t].live => View(t)' = View(t)]_vars
  BY <1>1, MergeTwoUntouched DEF ArrayMerge, MergeOne
<1> QED BY SafeMergeHolds, <1>1, PTL DEF ArgumentsUntouched

(* The values of a table are those of the cells of its list.               *)
LEMMA ValuesAre ==
    ASSUME Inv, Connected, NEW t \in Tables, tab[t].live,
           NEW h \in Store, NEW r, NEW n, NEW y, Listed(n, y, r, h),
           Contents(t) = Holding(Elements(h, r.first))
    PROVE \A i \in 1..n : Value(t, i) = h.cells[y[i]].v
<1>1. Contents(t) = Holding(ElementsOf(n, y, h))
  BY ElementsAre
<1>2. Contents(t).elems = ElementsOf(n, y, h)
  BY <1>1 DEF Holding
<1>3. ASSUME NEW i \in 1..n PROVE Value(t, i) = h.cells[y[i]].v
  <2>1. ElementsOf(n, y, h)[i] = ElementAt(h, y[i])
    BY DEF ElementsOf
  <2> QED BY <1>2, <2>1 DEF Value, ElementAt
<1> QED BY <1>3

(* The copy that the merge starts from spells the values of $t.            *)
LEMMA StartSpelled ==
    ASSUME Inv, Connected, NEW t \in Tables, tab[t].live, IsList(t),
           NEW s \in Stores, NewStore(s), NEW vals,
           \A i \in 1..tab[t].count : vals[i] = Value(t, i)
    PROVE Spelled([r |-> Started(t, s), h |-> CopyOf(t)], tab[t].count, vals)
<1> DEFINE b == heap[tab[t].store]
           a == tab[t]
           h == CopyOf(t)
           r == Started(t, s)
<1>1. /\ b \in Store /\ a \in Table /\ Linked(a, b) /\ IndexedOn(b, Keys)
  BY DEF Inv, TypeOK, Connected, TablesLinked
<1>2. /\ Merging([r |-> r, h |-> h], s, h, a.count)
      /\ r.first = a.first /\ r.last = a.last /\ r.count = a.count
  BY MergeStart
<1>3. r \in Table /\ h \in Store /\ Linked(r, h) /\ h = Copy(b, a.first)
  BY <1>2 DEF Merging, CopyOf
<1>4. /\ Chain(b, a.first) = Live(b) /\ Live(h) = Live(b)
      /\ \A m \in Live(b) : h.cells[m] = b.cells[m]
  BY CopiedCells DEF Live
<1>5. \A m \in Live(b) : b.cells[m].k \in IntKeys
  BY <1>4 DEF IsList, KeysOf
<1>6. Contents(t) = Holding(Elements(b, a.first))
  BY DEF Contents, Holding
<1> HIDE DEF a, b, h, r
<1>7. PICK n, y : Listed(n, y, r, h) /\ Elements(b, a.first) = ElementsOf(n, y, h)
  BY <1>1, <1>2, <1>3, CopyList
<1>8. n = a.count
  BY <1>2, <1>3, <1>7, ListCount
<1>9. Contents(t) = Holding(Elements(h, r.first))
  BY <1>6, <1>7, ElementsAre
<1>10. \A i \in 1..n : Value(t, i) = h.cells[y[i]].v
  BY <1>3, <1>7, <1>9, ValuesAre
<1>11. \A i \in 1..n : h.cells[y[i]].k \in IntKeys
  <2>1. \A i \in 1..n : y[i] \in Live(h)
    BY <1>7 DEF Listed, Complete
  <2> QED BY <1>4, <1>5, <2>1
<1>12. \A i \in 1..n : vals[i] = Value(t, i)
  BY <1>8 DEF a
<1>13. Spelled([r |-> r, h |-> h], n, vals)
  BY <1>7, <1>10, <1>11, <1>12 DEF Spelled
<1> QED BY <1>8, <1>13 DEF a, r, h

(* MergeTable of a second list goes on with its values.                    *)
LEMMA MergedSpelled ==
    ASSUME Inv, Connected, NEW t \in Tables, NEW w \in Tables, NEW u \in Tables,
           tab[t].live, tab[w].live, tab[t].count + tab[w].count <= MaxSlots,
           IsList(t), IsList(w), NEW s, NEW p, Merges(t, w, u, s, p), NEW vals,
           \A i \in 1..tab[t].count : vals[i] = Value(t, i),
           \A i \in 1..tab[w].count : vals[tab[t].count + i] = Value(w, i)
    PROVE Spelled(p, tab[t].count + tab[w].count, vals)
<1> DEFINE g == heap[tab[w].store]
           o == tab[w]
           h == CopyOf(t)
           r == Started(t, s)
           x == [r |-> r, h |-> h]
           n == tab[t].count
<1>1. s \in Stores /\ NewStore(s) /\ MergeMakes(x, w, p)
  BY DEF Merges, MergeMakes
<1>2. g \in Store /\ o \in Table /\ Linked(o, g)
  BY DEF Inv, TypeOK, Connected, TablesLinked
<1>3. Merging(x, s, h, n) /\ Spelled(x, n, vals)
  BY <1>1, MergeStart, StartSpelled
<1>4. n \in Nat /\ o.count \in Nat
  <2>1. Linked(tab[t], heap[tab[t].store]) /\ Live(heap[tab[t].store]) \in SUBSET Slots
    BY DEF Connected, TablesLinked, Live
  <2>2. Live(g) \in SUBSET Slots
    BY DEF Live
  <2> QED BY <1>2, <2>1, <2>2, SubsetSize, BoundsAssumption DEF Linked
<1>5. \E m \in Nat : \E y \in [1..m -> Slots] : Listed(m, y, o, g)
  <2> HIDE DEF o, g
  <2> QED BY <1>2, ListExists
<1>6. PICK m \in Nat : \E y \in [1..m -> Slots] : Listed(m, y, o, g)
  BY <1>5
<1>7. PICK y \in [1..m -> Slots] : Listed(m, y, o, g)
  BY <1>6
<1>8. m = o.count
  <2> HIDE DEF o, g
  <2> QED BY <1>2, <1>7, ListCount
<1>9. PICK f : Turns(f, x, m, y, g) /\ p = f[m]
  <2>1. g = heap[tab[w].store] /\ Listed(m, y, tab[w], g)
    BY <1>7
  <2> HIDE DEF g, x
  <2>2. TurnsTo(p, x, m, y, g)
    BY <1>1, <2>1, MergeTurns
  <2> QED BY <2>2 DEF TurnsTo
<1>10. \A i \in 1..m : g.cells[y[i]].k \in IntKeys
  <2>1. \A i \in 1..m : y[i] \in Live(g)
    BY <1>7 DEF Listed, Complete
  <2>2. Chain(g, tab[w].first) = Live(g)
    BY CopiedCells
  <2> QED BY <2>1, <2>2 DEF IsList, KeysOf
<1>11. \A i \in 1..m : vals[n + i] = g.cells[y[i]].v
  <2>1. Contents(w) = Holding(Elements(g, o.first))
    BY DEF Contents, Holding
  <2>2. \A i \in 1..m : vals[n + i] = Value(w, i)
    BY <1>8
  <2> HIDE DEF g, o, n
  <2>3. \A i \in 1..m : Value(w, i) = g.cells[y[i]].v
    BY <1>2, <1>7, <2>1, ValuesAre
  <2> QED BY <2>2, <2>3
<1>12. n + m <= MaxSlots
  BY <1>8
<1> HIDE DEF g, o, h, r, x, n
<1>13. Spelled(f[m], n + m, vals)
  BY <1>2, <1>3, <1>4, <1>7, <1>9, <1>10, <1>11, <1>12, TurnsSpell
<1> QED BY <1>8, <1>9, <1>13 DEF n, o

(* A list of g from the cell f has the keys 0, 1, ... and the values vals.  *)
InOrder(n, g, f, vals) ==
    \E y : /\ ListOf(n, y, g, f) /\ \A i \in 1..n : y[i] \in Live(g)
           /\ ElementsOf(n, y, g) = [i \in 1..n |-> [k |-> i - 1, v |-> vals[i]]]

(* Reset gives the elements of a list of integer keys the keys 0, 1, ...   *)
LEMMA ResetSpelled ==
    ASSUME NEW s, NEW h, NEW x, NEW p, Merging(p, s, h, x), NEW n, NEW vals,
           Spelled(p, n, vals), NEW g, g = Renumber(p.h, p.r.first)
    PROVE InOrder(n, g, p.r.first, vals)
<1> DEFINE r == p.r
           b == p.h
<1>1. r \in Table /\ b \in Store /\ Linked(r, b) /\ Closed(b) /\ IndexedOn(b, Keys \ IntKeys)
  BY DEF Merging
<1>2. PICK y : /\ Listed(n, y, r, b)
               /\ \A i \in 1..n : b.cells[y[i]].k \in IntKeys /\ b.cells[y[i]].v = vals[i]
  BY DEF Spelled
<1>3. g = Renumber(b, r.first)
  OBVIOUS
<1> HIDE DEF r, b
<1> DEFINE e == ElementsOf(n, y, b)
<1>4. /\ ListOf(n, y, g, r.first)
      /\ \A i \in 1..n : y[i] \in Live(g)
      /\ ElementsOf(n, y, g) = Promise!Recounted(e)
  BY <1>1, <1>2, <1>3, RenumberList
<1>6. n \in Nat
  BY <1>2 DEF Listed, ListOf
<1>7. ASSUME NEW i \in 1..n
      PROVE /\ e[i] = [k |-> b.cells[y[i]].k, v |-> b.cells[y[i]].v]
            /\ e[i].k = b.cells[y[i]].k /\ e[i].v = b.cells[y[i]].v
  BY DEF ElementsOf, ElementAt
<1>8. DOMAIN e = 1..n
  BY DEF ElementsOf
<1> HIDE DEF e
<1>9. ASSUME NEW i \in 1..n PROVE e[i].k \in IntKeys /\ e[i].v = vals[i]
  <2>1. e[i].k = b.cells[y[i]].k /\ e[i].v = b.cells[y[i]].v
    BY <1>7
  <2> QED BY <1>2, <2>1
<1>10. Promise!Recounted(e) =
         [i \in 1..n |->
            IF e[i].k \in IntKeys
            THEN [e[i] EXCEPT !.k = Cardinality({j \in 1..(i - 1) : e[j].k \in IntKeys})]
            ELSE e[i]]
  BY <1>8, RecountedIs
<1>11. ASSUME NEW i \in 1..n
       PROVE Promise!Recounted(e)[i] = [k |-> i - 1, v |-> vals[i]]
  <2> DEFINE c == Cardinality({j \in 1..(i - 1) : e[j].k \in IntKeys})
  <2>1. Promise!Recounted(e)[i] = [e[i] EXCEPT !.k = c]
    BY <1>9, <1>10
  <2>2. c = i - 1
    <3>1. {j \in 1..(i - 1) : e[j].k \in IntKeys} = 1..(i - 1)
      BY <1>6, <1>9
    <3>2. i - 1 \in Nat /\ Cardinality(1..(i - 1)) = i - 1
      <4>1. i - 1 \in Nat
        BY <1>6
      <4> DEFINE d == i - 1
      <4>2. d \in Nat
        BY <4>1
      <4> HIDE DEF d
      <4>3. Cardinality(1..d) = d
        BY <4>2, FS_Interval
      <4> QED BY <4>1, <4>3 DEF d
    <3> QED BY <3>1, <3>2
  <2> HIDE DEF c
  <2>3. e[i] = [k |-> b.cells[y[i]].k, v |-> vals[i]]
    BY <1>2, <1>7
  <2>4. [e[i] EXCEPT !.k = c] = [k |-> c, v |-> vals[i]]
    BY <2>3
  <2> QED BY <2>1, <2>2, <2>4
<1>12. Promise!Recounted(e) = [i \in 1..n |-> [k |-> i - 1, v |-> vals[i]]]
  <2> DEFINE R == Promise!Recounted(e)
  <2>1. R = [i \in 1..n |-> R[i]]
    BY <1>10
  <2>2. \A i \in 1..n : R[i] = [k |-> i - 1, v |-> vals[i]]
    BY <1>11
  <2> HIDE DEF R
  <2>3. R = [i \in 1..n |-> [k |-> i - 1, v |-> vals[i]]]
    BY <2>1, <2>2
  <2> QED BY <2>3 DEF R
<1> QED BY <1>4, <1>12 DEF r, InOrder

(* What array_merge of two lists shows.                                    *)
LEMMA ResultInOrder ==
    ASSUME Inv, Connected, NEW t \in Tables, NEW w \in Tables, NEW u \in Tables,
           MergeTwo(t, w, u), IsList(t), IsList(w)
    PROVE LET n == tab[t].count
          IN  Contents(u)'.elems =
                [i \in 1..(n + tab[w].count) |->
                   [k |-> i - 1, v |-> IF i <= n THEN Value(t, i) ELSE Value(w, i - n)]]
<1> DEFINE n == tab[t].count
           m == tab[w].count
           vals == [i \in 1..(n + m) |-> IF i <= n THEN Value(t, i) ELSE Value(w, i - n)]
<1>1. tab[t].live /\ tab[w].live /\ ~ tab[u].live /\ n + m <= MaxSlots
  BY MergeTwoIs
<1>2. NoNewStrings(t, w)
  BY DEF IsList, NoNewStrings
<1>3. Inv' /\ Connected'
  BY <1>2, MergeSafelyStep DEF MergeSafely
<1>4. \E s, p : Merges(t, w, u, s, p)
  BY MergeTwoIs
<1>5. PICK s, p : Merges(t, w, u, s, p)
  BY <1>4
<1>6. n \in Nat /\ m \in Nat
  <2>1. /\ Linked(tab[t], heap[tab[t].store]) /\ Live(heap[tab[t].store]) \in SUBSET Slots
        /\ Linked(tab[w], heap[tab[w].store]) /\ Live(heap[tab[w].store]) \in SUBSET Slots
    BY <1>1 DEF Connected, TablesLinked, Live
  <2> QED BY <2>1, SubsetSize, BoundsAssumption DEF Linked
<1>7. /\ \A i \in 1..n : vals[i] = Value(t, i)
      /\ \A i \in 1..m : vals[n + i] = Value(w, i)
  <2>1. \A i \in 1..n : i \in 1..(n + m) /\ i <= n
    BY <1>6
  <2>2. \A i \in 1..m : n + i \in 1..(n + m) /\ ~ (n + i <= n) /\ (n + i) - n = i
    BY <1>6
  <2> HIDE DEF n, m
  <2> QED BY <2>1, <2>2
<1>8. Spelled(p, n + m, vals)
  <2> HIDE DEF vals
  <2> QED BY <1>1, <1>5, <1>7, MergedSpelled
<1>9. Merging(p, s, CopyOf(t), n + m)
  BY <1>1, <1>2, <1>5, MergedTable
<1> DEFINE q == Reset(p.r, p.h)
           f == p.r.first
           g == Renumber(p.h, f)
           N == n + m
<1>10. tab'[u] = q
  BY <1>1, <1>5, MergeTables
<1>11. s \in Stores /\ heap' = Collected(Placed(s, g))
  BY <1>5 DEF Merges
<1>12. q.live /\ q.store = s /\ q.first = f /\ g \in Store
  <2> HIDE DEF q
  <2> DEFINE h == CopyOf(t)
  <2>1. q = Reset(p.r, p.h) /\ g = Renumber(p.h, p.r.first) /\ Merging(p, s, h, N)
    BY <1>9 DEF q
  <2> HIDE DEF g, h, N
  <2>2. q.live /\ q.store = s /\ q.first = p.r.first /\ g \in Store
    BY <1>11, <2>1, ResetTable
  <2> QED BY <2>2
<1>13. InOrder(N, g, f, vals)
  <2> DEFINE h == CopyOf(t)
  <2>1. g = Renumber(p.h, p.r.first) /\ Merging(p, s, h, N) /\ Spelled(p, N, vals)
    BY <1>8, <1>9
  <2> HIDE DEF g, h, N, vals
  <2> QED BY <2>1, ResetSpelled
<1>14. \E y : /\ ListOf(N, y, g, f) /\ \A i \in 1..N : y[i] \in Live(g)
              /\ ElementsOf(N, y, g) = [i \in 1..N |-> [k |-> i - 1, v |-> vals[i]]]
  <2> HIDE DEF g, f, N, vals
  <2> QED BY <1>13 DEF InOrder
<1>15. PICK y : /\ ListOf(N, y, g, f) /\ \A i \in 1..N : y[i] \in Live(g)
                /\ ElementsOf(N, y, g) = [i \in 1..N |-> [k |-> i - 1, v |-> vals[i]]]
  BY <1>14
<1>16. Contents(u)' = Holding(ElementsOf(N, y, g))
  <2> HIDE DEF q, f, g, N, n, m, vals
  <2>1. ListOf(N, y, g, q.first)
    BY <1>12, <1>15
  <2>2. \A i \in 1..N : y[i] \in Live(g)
    BY <1>15
  <2>3. Inv' /\ Connected'
    BY <1>3
  <2>4. tab'[u] = q /\ q.live /\ q.store = s /\ g \in Store
    BY <1>10, <1>12
  <2>5. s \in Stores /\ heap' = Collected(Placed(s, g))
    BY <1>11
  <2> QED BY <2>1, <2>2, <2>3, <2>4, <2>5, CollectedContents
<1>17. Contents(u)'.elems = [i \in 1..N |-> [k |-> i - 1, v |-> vals[i]]]
  <2> HIDE DEF g, N, vals
  <2> QED BY <1>15, <1>16 DEF Holding
<1>18. ASSUME NEW i \in 1..N
       PROVE vals[i] = IF i <= n THEN Value(t, i) ELSE Value(w, i - n)
  OBVIOUS
<1> HIDE DEF vals
<1>19. Contents(u)'.elems =
         [i \in 1..N |-> [k |-> i - 1, v |-> IF i <= n THEN Value(t, i) ELSE Value(w, i - n)]]
  BY <1>17, <1>18
<1> QED BY <1>19

(* array_merge($t, $w) of two lists is the values of $t followed by those  *)
(* of $w under the keys 0, 1, ..., however the two came about              *)
(* (array.go: arrayMerge; hashtable.go: MergeTable; zarray.go: Reset).     *)
THEOREM ListsMergeInOrder == SafeMergeSpec => MergesInOrder
<1>1. ASSUME Inv /\ Connected
      PROVE [\A t, w, u \in Tables : MergeTwo(t, w, u) /\ IsList(t) /\ IsList(w) =>
               LET n == tab[t].count
               IN  Contents(u)'.elems =
                     [i \in 1..(n + tab[w].count) |->
                        [k |-> i - 1,
                         v |-> IF i <= n THEN Value(t, i) ELSE Value(w, i - n)]]]_vars
  BY <1>1, ResultInOrder
<1> QED BY SafeMergeHolds, <1>1, PTL DEF MergesInOrder
=============================================================================
