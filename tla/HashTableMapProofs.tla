------------------------- MODULE HashTableMapProofs --------------------------
(* HashTable implements OrderedMap, for any number of tables, cells, keys  *)
(* and values: what the tables hold, read along their lists, changes as the*)
(* ordered maps of OrderedMap may change, one at a time.                   *)
(*                                                                         *)
(* Connected says that the live cells of a table form one list, and each   *)
(* step of Next rearranges that list in a known way.  A list is written    *)
(* here as the function q of its n cells in order; there is one such       *)
(* function for every table (ListExists, SameList), and the elements of the*)
(* table are the keys and values of the cells of q (ElementsAre).          *)
EXTENDS HashTableProofs

(* The n cells met along next from first to the end are q[1], ..., q[n].   *)
ListOf(n, q, h, first) ==
    /\ n \in Nat /\ q \in [1..n -> Slots]
    /\ n = 0 => first = 0
    /\ n # 0 => first = q[1] /\ h.cells[q[n]].next = 0
    /\ \A i \in 1..n : i # n => h.cells[q[i]].next = q[i + 1]

(* They are the live cells of h, each met once.                            *)
Complete(n, q, h) ==
    /\ \A i \in 1..n : q[i] \in Live(h)
    /\ \A m \in Live(h) : \E i \in 1..n : q[i] = m
    /\ \A i, j \in 1..n : q[i] = q[j] => i = j

(* The walk from first meets them in this order, then the end.             *)
Walked(n, q, h, first) ==
    /\ n <= MaxSlots
    /\ \A i \in 1..n : Walk(h, first)[i - 1] = q[i]
    /\ \A i \in n..MaxSlots : Walk(h, first)[i] = 0

Listed(n, q, r, h) ==
    ListOf(n, q, h, r.first) /\ Complete(n, q, h) /\ Walked(n, q, h, r.first)

ElementAt(h, m) == [k |-> h.cells[m].k, v |-> h.cells[m].v]
ElementsOf(n, q, h) == [i \in 1..n |-> ElementAt(h, q[i])]

-----------------------------------------------------------------------------
(* The list of a store.                                                    *)

(* A well linked store has a list.                                         *)
LEMMA ListExists ==
    ASSUME NEW h \in Store, NEW r \in Table, Linked(r, h)
    PROVE \E n \in Nat : \E q \in [1..n -> Slots] : Listed(n, q, r, h)
<1> DEFINE W == Walk(h, r.first)
<1>1. PICK rank \in [Slots -> Nat] : Ranks(h, rank)
  BY DEF Linked, Ranked
<1>2. /\ W \in [0..MaxSlots -> Links] /\ W[0] = r.first
      /\ \A i \in 0 .. MaxSlots - 1 : W[i + 1] = WalkStep(h, W[i])
  BY WalkFacts DEF Table
<1>3. /\ \A i \in 0..MaxSlots : W[i] \in Live(h) \cup {0}
      /\ \A j \in 0..MaxSlots : \A i \in 0..(j - 1) : W[j] # 0 =>
           W[i] # 0 /\ rank[W[i]] < rank[W[j]]
      /\ W[MaxSlots] = 0
  BY <1>1, WalkOfList DEF Linked
<1>4. \A m \in Live(h) : \E i \in 0..MaxSlots : W[i] = m
  <2>1. Chain(h, r.first) = Live(h)
    BY WalkIsLive DEF Linked
  <2> QED BY <2>1 DEF Chain
<1>5. Live(h) \subseteq Slots /\ 0 \notin Slots
  BY DEF Live, Slots
<1> HIDE DEF W
<1> DEFINE Z == {i \in 0..MaxSlots : W[i] = 0}
<1>6. PICK n \in Z : \A i \in Z : n <= i
  <2>1. MaxSlots \in Z
    BY <1>3, BoundsAssumption
  <2>2. \A i \in Z : i \in Int /\ 0 <= i
    BY BoundsAssumption
  <2> HIDE DEF Z
  <2> QED BY <2>1, <2>2, LeastElement
<1>7. MaxSlots \in Nat /\ n \in Nat /\ n <= MaxSlots /\ W[n] = 0 /\ \A i \in 0..(n - 1) : W[i] # 0
  <2>1. ASSUME NEW i \in 0..(n - 1), W[i] = 0 PROVE FALSE
    <3>1. i \in Z /\ i < n
      BY <1>6, <2>1, BoundsAssumption
    <3> QED BY <1>6, <3>1
  <2> QED BY <1>6, <2>1, BoundsAssumption
<1> HIDE DEF Z
<1>8. \A i \in 0..(n - 1) : W[i] \in Live(h) /\ W[i] \in Slots
  BY <1>3, <1>5, <1>7
<1> DEFINE q == [i \in 1..n |-> W[i - 1]]
<1>9. \A i \in 1..n : q[i] = W[i - 1] /\ i - 1 \in 0..(n - 1) /\ i - 1 \in 0..MaxSlots
  BY <1>7
<1>10. q \in [1..n -> Slots]
  BY <1>8, <1>9
<1> HIDE DEF q
<1>11. ListOf(n, q, h, r.first)
  <2>1. n = 0 => r.first = 0
    BY <1>2, <1>7
  <2>2. ASSUME n # 0 PROVE r.first = q[1] /\ h.cells[q[n]].next = 0
    <3>1. 1 \in 1..n /\ n \in 1..n /\ n - 1 \in 0 .. MaxSlots - 1 /\ (n - 1) + 1 = n
      BY <1>7, <2>2
    <3>2. W[n] = WalkStep(h, W[n - 1]) /\ W[n - 1] # 0
      BY <1>2, <1>7, <3>1
    <3> QED BY <1>2, <1>7, <1>9, <3>1, <3>2 DEF WalkStep
  <2>3. ASSUME NEW i \in 1..n, i # n PROVE h.cells[q[i]].next = q[i + 1]
    <3>1. i - 1 \in 0..(n - 1) /\ i - 1 \in 0 .. MaxSlots - 1 /\ (i - 1) + 1 = i
          /\ i + 1 \in 1..n /\ (i + 1) - 1 = i
      BY <1>7, <2>3
    <3>2. W[i] = WalkStep(h, W[i - 1]) /\ W[i - 1] # 0
      BY <1>2, <1>7, <3>1
    <3> QED BY <1>9, <3>1, <3>2 DEF WalkStep
  <2> QED BY <1>7, <1>10, <2>1, <2>2, <2>3 DEF ListOf
<1>12. Complete(n, q, h)
  <2>1. ASSUME NEW m \in Live(h) PROVE \E i \in 1..n : q[i] = m
    <3>1. PICK i \in 0..MaxSlots : W[i] = m
      BY <1>4
    <3>2. W[i] # 0
      BY <1>5, <3>1
    <3>3. ~ (n < i)
      BY <1>3, <1>7, <3>2
    <3>4. i # n
      BY <1>7, <3>2
    <3>5. i + 1 \in 1..n /\ (i + 1) - 1 = i
      BY <1>7, <3>3, <3>4
    <3> QED BY <1>9, <3>1, <3>5
  <2>2. ASSUME NEW i \in 1..n, NEW j \in 1..n, i < j PROVE q[i] # q[j]
    <3>1. i - 1 \in 0..((j - 1) - 1) /\ j - 1 \in 0..MaxSlots /\ j - 1 \in 0..(n - 1)
      BY <1>7, <2>2
    <3>2. rank[W[i - 1]] < rank[W[j - 1]]
      BY <1>3, <1>7, <3>1
    <3>3. W[j - 1] \in Slots /\ rank[W[j - 1]] \in Nat
      BY <1>8, <3>1
    <3> QED BY <1>9, <3>2, <3>3
  <2>3. \A i, j \in 1..n : q[i] = q[j] => i = j
    <3> SUFFICES ASSUME NEW i \in 1..n, NEW j \in 1..n, q[i] = q[j] PROVE i = j
      OBVIOUS
    <3>1. ~ (i < j) /\ ~ (j < i)
      BY <2>2
    <3> QED BY <3>1
  <2> QED BY <1>8, <1>9, <2>1, <2>3 DEF Complete
<1>13. Walked(n, q, h, r.first)
  <2>1. ASSUME NEW i \in n..MaxSlots PROVE W[i] = 0
    <3>1. CASE i = n
      BY <1>7, <3>1
    <3>2. CASE n < i
      <4>1. i \in 0..MaxSlots /\ n \in 0..(i - 1)
        BY <1>7, <3>2
      <4> QED BY <1>3, <1>7, <4>1
    <3> QED BY <1>7, <3>1, <3>2
  <2> QED BY <1>7, <1>9, <2>1 DEF Walked, W
<1> QED BY <1>7, <1>10, <1>11, <1>12, <1>13 DEF Listed

(* Two lists from the same cell: one is at least as long as the other.     *)
LEMMA ListPrefix ==
    ASSUME NEW h, NEW f, NEW n, NEW q, NEW m, NEW p, ListOf(n, q, h, f), ListOf(m, p, h, f)
    PROVE \A i \in 1..n : i <= m /\ p[i] = q[i]
<1> DEFINE T == {i \in 0..n : i # 0 => i <= m /\ p[i] = q[i]}
<1>1. /\ n \in Nat /\ q \in [1..n -> Slots] /\ m \in Nat /\ p \in [1..m -> Slots]
      /\ n = 0 => f = 0
      /\ n # 0 => f = q[1] /\ h.cells[q[n]].next = 0
      /\ \A i \in 1..n : i # n => h.cells[q[i]].next = q[i + 1]
      /\ m = 0 => f = 0
      /\ m # 0 => f = p[1] /\ h.cells[p[m]].next = 0
      /\ \A i \in 1..m : i # m => h.cells[p[i]].next = p[i + 1]
  BY DEF ListOf
<1>2. \A i \in 1..n : q[i] # 0
  BY <1>1 DEF Slots
<1>3. 0 \in T
  BY <1>1
<1>4. ASSUME NEW i \in 0 .. n - 1, i \in T PROVE i + 1 \in T
  <2>1. i + 1 \in 1..n /\ n # 0
    BY <1>1
  <2>2. CASE i = 0
    <3>1. 1 \in 1..n /\ f # 0
      BY <1>1, <1>2, <2>1
    <3> QED BY <1>1, <2>1, <2>2, <3>1
  <2>3. CASE i # 0
    <3>1. i \in 1..n /\ i # n /\ i <= m /\ p[i] = q[i]
      BY <1>1, <1>4, <2>3
    <3>2. h.cells[q[i]].next = q[i + 1] /\ q[i + 1] # 0
      BY <1>1, <1>2, <2>1, <3>1
    <3>3. i \in 1..m /\ i # m
      BY <1>1, <3>1, <3>2
    <3>4. p[i + 1] = q[i + 1] /\ i + 1 <= m
      BY <1>1, <3>1, <3>2, <3>3
    <3> QED BY <1>1, <2>1, <3>4
  <2> QED BY <2>2, <2>3
<1>5. 0..n \subseteq T
  <2> HIDE DEF T
  <2> QED BY <1>1, <1>3, <1>4, UpToInduction
<1>6. ASSUME NEW i \in 1..n PROVE i <= m /\ p[i] = q[i]
  <2>1. i \in T /\ i # 0
    BY <1>1, <1>5
  <2> QED BY <2>1
<1> QED BY <1>6

LEMMA SameList ==
    ASSUME NEW h, NEW f, NEW n, NEW q, NEW m, NEW p, ListOf(n, q, h, f), ListOf(m, p, h, f)
    PROVE n = m /\ q = p
<1>1. \A i \in 1..n : i <= m /\ p[i] = q[i]
  BY ListPrefix
<1>2. \A i \in 1..m : i <= n /\ q[i] = p[i]
  BY ListPrefix
<1>3. n \in Nat /\ m \in Nat /\ q \in [1..n -> Slots] /\ p \in [1..m -> Slots]
  BY DEF ListOf
<1>4. n = m
  <2>1. n # 0 => n <= m
    BY <1>1, <1>3
  <2>2. m # 0 => m <= n
    BY <1>2, <1>3
  <2> QED BY <1>3, <2>1, <2>2
<1> QED BY <1>1, <1>3, <1>4

(* So what can be followed from the first cell is the list.                *)
LEMMA ListIsListed ==
    ASSUME NEW h \in Store, NEW r \in Table, Linked(r, h), NEW n, NEW q,
           ListOf(n, q, h, r.first)
    PROVE Listed(n, q, r, h)
<1>1. PICK m \in Nat : \E p \in [1..m -> Slots] : Listed(m, p, r, h)
  BY ListExists
<1>2. PICK p \in [1..m -> Slots] : Listed(m, p, r, h)
  BY <1>1
<1>3. n = m /\ q = p
  <2>1. ListOf(m, p, h, r.first)
    BY <1>2 DEF Listed
  <2> QED BY <2>1, SameList
<1> QED BY <1>2, <1>3

(* What an iteration of the table delivers.                                *)
LEMMA ElementsAre ==
    ASSUME NEW h, NEW r, NEW n, NEW q, Listed(n, q, r, h)
    PROVE Elements(h, r.first) = ElementsOf(n, q, h)
<1> DEFINE W == Walk(h, r.first)
           D == {j \in 1..MaxSlots : W[j - 1] # 0}
<1>1. /\ n \in Nat /\ MaxSlots \in Nat /\ n <= MaxSlots /\ q \in [1..n -> Slots]
      /\ \A i \in 1..n : W[i - 1] = q[i]
      /\ \A i \in n..MaxSlots : W[i] = 0
  BY BoundsAssumption DEF Listed, ListOf, Walked
<1>2. Elements(h, r.first) = [i \in D |-> ElementAt(h, W[i - 1])]
  BY DEF Elements, ElementAt
<1> HIDE DEF W
<1>3. ASSUME NEW j \in 1..MaxSlots PROVE W[j - 1] # 0 <=> j \in 1..n
  <2>1. CASE j <= n
    <3>1. j \in 1..n /\ q[j] # 0
      BY <1>1, <2>1 DEF Slots
    <3> QED BY <1>1, <3>1
  <2>2. CASE n < j
    <3>1. j - 1 \in n..MaxSlots
      BY <1>1, <2>2
    <3> QED BY <1>1, <2>2, <3>1
  <2> QED BY <1>1, <2>1, <2>2
<1>4. D = 1..n
  <2>1. 1..n \subseteq 1..MaxSlots
    BY <1>1
  <2> QED BY <1>3, <2>1
<1>5. \A i \in 1..n : ElementAt(h, W[i - 1]) = ElementAt(h, q[i])
  BY <1>1
<1> HIDE DEF D
<1> QED BY <1>2, <1>4, <1>5 DEF ElementsOf

(* A store with the same live cells shows the same list and elements.      *)
LEMMA SameElements ==
    ASSUME NEW h \in Store, NEW g \in Store, Live(g) = Live(h),
           \A m \in Live(h) : g.cells[m] = h.cells[m],
           NEW r \in Table, Linked(r, g), NEW n, NEW q,
           ListOf(n, q, h, r.first), \A i \in 1..n : q[i] \in Live(h)
    PROVE /\ Listed(n, q, r, g)
          /\ Elements(g, r.first) = ElementsOf(n, q, h)
<1>1. n \in Nat /\ \A i \in 1..n : g.cells[q[i]] = h.cells[q[i]]
  BY DEF ListOf
<1>2. n # 0 => n \in 1..n
  BY <1>1
<1>3. ListOf(n, q, g, r.first)
  BY <1>1, <1>2 DEF ListOf
<1>4. Listed(n, q, r, g)
  BY <1>3, ListIsListed
<1>5. ElementsOf(n, q, g) = ElementsOf(n, q, h)
  BY <1>1 DEF ElementsOf, ElementAt
<1> QED BY <1>4, <1>5, ElementsAre

-----------------------------------------------------------------------------
(* What the pieces of a write do to the list and to its elements.          *)

LEMMA CellFields ==
    ASSUME NEW c \in Cell, NEW x
    PROVE /\ LET d == [c EXCEPT !.next = x]
             IN  d.next = x /\ d.prev = c.prev /\ d.k = c.k /\ d.v = c.v /\ d.st = c.st
          /\ LET d == [c EXCEPT !.prev = x]
             IN  d.next = c.next /\ d.prev = x /\ d.k = c.k /\ d.v = c.v /\ d.st = c.st
          /\ LET d == [c EXCEPT !.k = x]
             IN  d.next = c.next /\ d.prev = c.prev /\ d.k = x /\ d.v = c.v /\ d.st = c.st
          /\ LET d == [c EXCEPT !.v = x]
             IN  d.next = c.next /\ d.prev = c.prev /\ d.k = c.k /\ d.v = x /\ d.st = c.st
<1>1. PICK p \in Links, n \in Links, k \in Keys, v \in Vals \cup {None}, st \in {"free", "live", "dead"} :
        c = [prev |-> p, next |-> n, k |-> k, v |-> v, st |-> st]
  BY DEF Cell
<1> QED BY <1>1

(* The last cell of the list, and the way back along prev.                 *)
LEMMA ListEnds ==
    ASSUME NEW h \in Store, NEW r \in Table, Linked(r, h), NEW n, NEW q, Listed(n, q, r, h)
    PROVE /\ n = 0 <=> r.first = 0
          /\ n = 0 <=> r.last = 0
          /\ n # 0 => r.last = q[n] /\ h.cells[q[1]].prev = 0
          /\ \A i \in 1..n : i # 1 => h.cells[q[i]].prev = q[i - 1]
<1>1. /\ n \in Nat /\ q \in [1..n -> Slots]
      /\ n = 0 => r.first = 0
      /\ n # 0 => r.first = q[1] /\ h.cells[q[n]].next = 0
      /\ \A i \in 1..n : i # n => h.cells[q[i]].next = q[i + 1]
      /\ \A i \in 1..n : q[i] \in Live(h) /\ q[i] # 0
  BY DEF Listed, ListOf, Complete, Slots
<1>2. n # 0 => 1 \in 1..n /\ n \in 1..n
  BY <1>1
<1>3. n = 0 <=> r.first = 0
  BY <1>1, <1>2
<1>4. LinksAgree(r, h)
  BY DEF Linked
<1>5. n = 0 <=> r.last = 0
  BY <1>3, <1>4 DEF LinksAgree
<1>6. ASSUME n # 0 PROVE r.last = q[n] /\ h.cells[q[1]].prev = 0
  BY <1>1, <1>2, <1>4, <1>6 DEF LinksAgree
<1>7. ASSUME NEW i \in 1..n, i # 1 PROVE h.cells[q[i]].prev = q[i - 1]
  <2>1. i - 1 \in 1..n /\ i - 1 # n /\ (i - 1) + 1 = i
    BY <1>1, <1>7
  <2>2. h.cells[q[i - 1]].next = q[i] /\ q[i] # 0 /\ q[i - 1] \in Live(h)
    BY <1>1, <2>1
  <2> QED BY <1>4, <2>2 DEF LinksAgree
<1> QED BY <1>3, <1>5, <1>6, <1>7

Longer(n, q, x) == [i \in 1 .. n + 1 |-> IF i <= n THEN q[i] ELSE x]

(* A new last cell: one more element at the end.                           *)
LEMMA AppendList ==
    ASSUME NEW h \in Store, NEW r \in Table, Linked(r, h), NEW n, NEW q, Listed(n, q, r, h),
           NEW x \in Slots, h.cells[x].st = "free", NEW k, NEW v, NEW g,
           g = AppendCell(h, r.last, x, k, v), NEW f, f = IF r.last = 0 THEN x ELSE r.first
    PROVE \E p : /\ ListOf(n + 1, p, g, f)
                 /\ \A i \in 1 .. n + 1 : p[i] \in Live(g)
                 /\ ElementsOf(n + 1, p, g) = Longer(n, ElementsOf(n, q, h), [k |-> k, v |-> v])
<1> DEFINE p == [i \in 1 .. n + 1 |-> IF i <= n THEN q[i] ELSE x]
           l == r.last
<1>1. /\ n \in Nat /\ q \in [1..n -> Slots]
      /\ n = 0 => r.first = 0
      /\ n # 0 => r.first = q[1] /\ h.cells[q[n]].next = 0
      /\ \A i \in 1..n : i # n => h.cells[q[i]].next = q[i + 1]
      /\ \A i \in 1..n : q[i] \in Live(h) /\ h.cells[q[i]].st = "live" /\ q[i] # x
      /\ \A i, j \in 1..n : q[i] = q[j] => i = j
  BY DEF Listed, ListOf, Complete, Live
<1>2. (n = 0 <=> l = 0) /\ (n # 0 => l = q[n])
  BY ListEnds
<1> HIDE DEF l
<1>3. /\ p \in [1 .. n + 1 -> Slots] /\ p[n + 1] = x
      /\ \A i \in 1..n : p[i] = q[i]
  BY <1>1
<1> HIDE DEF p
<1>4. /\ g.cells[x] = [prev |-> l, next |-> 0, k |-> k, v |-> v, st |-> "live"]
      /\ \A m \in Slots : m # x /\ m # l => g.cells[m] = h.cells[m]
      /\ \A m \in Slots : m # x /\ m = l => g.cells[m] = [h.cells[m] EXCEPT !.next = x]
  BY DEF AppendCell, l
<1>5. /\ g.cells[x].next = 0 /\ g.cells[x].k = k /\ g.cells[x].v = v /\ g.cells[x].st = "live"
      /\ \A m \in Slots : m # x =>
           /\ g.cells[m].k = h.cells[m].k /\ g.cells[m].v = h.cells[m].v
           /\ g.cells[m].st = h.cells[m].st
           /\ m = l => g.cells[m].next = x
           /\ m # l => g.cells[m].next = h.cells[m].next
  <2>1. ASSUME NEW m \in Slots, m # x, m = l
        PROVE /\ g.cells[m].k = h.cells[m].k /\ g.cells[m].v = h.cells[m].v
              /\ g.cells[m].st = h.cells[m].st /\ g.cells[m].next = x
    <3>1. h.cells[m] \in Cell
      BY DEF Store
    <3>2. g.cells[m] = [h.cells[m] EXCEPT !.next = x]
      BY <1>4, <2>1
    <3> QED BY <3>1, <3>2, CellFields
  <2> QED BY <1>4, <2>1
<1>6. ASSUME NEW i \in 1..n
      PROVE /\ p[i] = q[i] /\ q[i] \in Slots /\ q[i] # x
            /\ i # n => g.cells[p[i]].next = p[i + 1]
            /\ i = n => g.cells[p[i]].next = x
            /\ ElementAt(g, p[i]) = ElementAt(h, q[i])
            /\ p[i] \in Live(g)
  <2>1. p[i] = q[i] /\ q[i] \in Slots /\ q[i] # x /\ h.cells[q[i]].st = "live"
    BY <1>1, <1>3
  <2>2. ASSUME i # n PROVE g.cells[p[i]].next = p[i + 1]
    <3>1. i + 1 \in 1..n /\ n # 0 /\ n \in 1..n
      BY <1>1, <2>2
    <3>2. q[i] # l
      BY <1>1, <1>2, <2>2, <3>1
    <3> QED BY <1>1, <1>3, <1>5, <2>1, <2>2, <3>1, <3>2
  <2>3. ASSUME i = n PROVE g.cells[p[i]].next = x
    <3>1. q[i] = l
      BY <1>1, <1>2, <2>3
    <3> QED BY <1>5, <2>1, <3>1
  <2>4. ElementAt(g, p[i]) = ElementAt(h, q[i])
    BY <1>5, <2>1 DEF ElementAt
  <2>5. p[i] \in Live(g)
    BY <1>5, <2>1 DEF Live
  <2> QED BY <2>1, <2>2, <2>3, <2>4, <2>5
<1>7. ListOf(n + 1, p, g, f)
  <2>1. n + 1 \in Nat /\ n + 1 # 0
    BY <1>1
  <2>2. f = p[1]
    <3>1. CASE n = 0
      BY <1>2, <1>3, <3>1 DEF l
    <3>2. CASE n # 0
      <4>1. 1 \in 1..n
        BY <1>1, <3>2
      <4> QED BY <1>1, <1>2, <1>6, <3>2, <4>1 DEF l
    <3> QED BY <3>1, <3>2
  <2>3. g.cells[p[n + 1]].next = 0
    BY <1>3, <1>5
  <2>4. ASSUME NEW i \in 1 .. n + 1, i # n + 1 PROVE g.cells[p[i]].next = p[i + 1]
    <3>1. i \in 1..n
      BY <1>1, <2>4
    <3> QED BY <1>3, <1>6, <3>1
  <2> QED BY <1>3, <2>1, <2>2, <2>3, <2>4 DEF ListOf
<1>8. ASSUME NEW i \in 1 .. n + 1
      PROVE /\ p[i] \in Live(g)
            /\ ElementAt(g, p[i]) = IF i <= n THEN ElementAt(h, q[i]) ELSE [k |-> k, v |-> v]
  <2>1. CASE i <= n
    <3>1. i \in 1..n
      BY <1>1, <2>1
    <3> QED BY <1>6, <2>1, <3>1
  <2>2. CASE ~ (i <= n)
    <3>1. i = n + 1 /\ p[i] = x
      BY <1>1, <1>3, <2>2
    <3> QED BY <1>5, <2>2, <3>1 DEF ElementAt, Live
  <2> QED BY <2>1, <2>2
<1>9. ElementsOf(n + 1, p, g) =
        [i \in 1 .. n + 1 |-> IF i <= n THEN ElementsOf(n, q, h)[i] ELSE [k |-> k, v |-> v]]
  <2>1. \A i \in 1 .. n + 1 : i <= n => ElementsOf(n, q, h)[i] = ElementAt(h, q[i])
    BY <1>1 DEF ElementsOf
  <2> QED BY <1>8, <2>1 DEF ElementsOf
<1> QED BY <1>7, <1>8, <1>9 DEF Longer

(* The list without its ith cell.                                          *)
Shorter(n, q, i) == [j \in 1 .. n - 1 |-> q[IF j < i THEN j ELSE j + 1]]

(* A cell unlinked: its element is gone, the others keep their order.      *)
LEMMA UnlinkList ==
    ASSUME NEW h \in Store, NEW r \in Table, Linked(r, h), NEW n, NEW q, Listed(n, q, r, h),
           NEW e \in 1..n, NEW g, g = UnlinkCell(h, q[e]),
           NEW f, f = IF r.first = q[e] THEN h.cells[q[e]].next ELSE r.first
    PROVE LET p == Shorter(n, q, e)
          IN  /\ ListOf(n - 1, p, g, f)
              /\ \A i \in 1 .. n - 1 : p[i] \in Live(g)
              /\ ElementsOf(n - 1, p, g) = Shorter(n, ElementsOf(n, q, h), e)
<1> DEFINE x == q[e]
           s == h.cells[x].next
           b == h.cells[x].prev
           p == Shorter(n, q, e)
           at(i) == IF i < e THEN i ELSE i + 1
<1>1. /\ n \in Nat /\ q \in [1..n -> Slots] /\ n # 0 /\ 1 \in 1..n /\ n \in 1..n
      /\ r.first = q[1] /\ h.cells[q[n]].next = 0
      /\ \A i \in 1..n : i # n => h.cells[q[i]].next = q[i + 1]
      /\ \A i \in 1..n : q[i] \in Live(h) /\ h.cells[q[i]].st = "live" /\ q[i] # 0
      /\ \A i, j \in 1..n : q[i] = q[j] => i = j
  BY DEF Listed, ListOf, Complete, Live, Slots
<1>2. /\ h.cells[q[1]].prev = 0
      /\ \A i \in 1..n : i # 1 => h.cells[q[i]].prev = q[i - 1]
  <2>1. n # 0
    BY <1>1
  <2> QED BY <2>1, ListEnds
<1>3. x \in Slots /\ x = q[e]
  BY <1>1
<1>4. /\ e = n => s = 0
      /\ e # n => s = q[e + 1]
      /\ e = 1 => b = 0
      /\ e # 1 => b = q[e - 1]
  BY <1>1, <1>2
<1>5. b # x /\ s # x
  <2>1. e # n => e + 1 \in 1..n
    BY <1>1
  <2>2. e # 1 => e - 1 \in 1..n
    BY <1>1
  <2>3. CASE e = n /\ e = 1
    BY <1>1, <1>4, <2>3
  <2> QED BY <1>1, <1>4, <2>1, <2>2
<1> HIDE DEF x, s, b
<1>6. \A m \in Slots :
        /\ m # x /\ m = b => g.cells[m] = [h.cells[m] EXCEPT !.next = s]
        /\ m # x /\ m # b /\ m = s => g.cells[m] = [h.cells[m] EXCEPT !.prev = b]
        /\ m # x /\ m # b /\ m # s => g.cells[m] = h.cells[m]
  BY DEF UnlinkCell, x, s, b
<1>7. ASSUME NEW m \in Slots, m # x
      PROVE /\ g.cells[m].k = h.cells[m].k /\ g.cells[m].v = h.cells[m].v
            /\ g.cells[m].st = h.cells[m].st
            /\ m = b => g.cells[m].next = s
            /\ m # b => g.cells[m].next = h.cells[m].next
  <2>1. h.cells[m] \in Cell
    BY DEF Store
  <2>2. CASE m = b
    <3>1. g.cells[m] = [h.cells[m] EXCEPT !.next = s]
      BY <1>6, <1>7, <2>2
    <3> QED BY <2>1, <2>2, <3>1, CellFields
  <2>3. CASE m # b /\ m = s
    <3>1. g.cells[m] = [h.cells[m] EXCEPT !.prev = b]
      BY <1>6, <1>7, <2>3
    <3> QED BY <2>1, <2>3, <3>1, CellFields
  <2>4. CASE m # b /\ m # s
    BY <1>6, <1>7, <2>4
  <2> QED BY <2>2, <2>3, <2>4
<1>8. \A i \in 1 .. n - 1 : /\ at(i) \in 1..n /\ at(i) # e
                            /\ i < e => at(i) = i
                            /\ ~ (i < e) => at(i) = i + 1
  BY <1>1
<1>9. \A i \in 1 .. n - 1 : p[i] = q[at(i)]
  BY DEF Shorter
<1> HIDE DEF at, p
<1>10. p \in [1 .. n - 1 -> Slots]
  <2>1. \A i \in 1 .. n - 1 : q[at(i)] \in Slots
    BY <1>1, <1>8
  <2>2. p = [i \in 1 .. n - 1 |-> q[at(i)]]
    BY DEF p, Shorter, at
  <2> QED BY <2>1, <2>2
<1>11. ASSUME NEW i \in 1..n, i # e
       PROVE /\ q[i] # x /\ q[i] \in Slots /\ q[i] \in Live(g)
             /\ ElementAt(g, q[i]) = ElementAt(h, q[i])
             /\ i + 1 = e => g.cells[q[i]].next = s
             /\ i + 1 # e => g.cells[q[i]].next = h.cells[q[i]].next
  <2>1. q[i] # x /\ q[i] \in Slots /\ h.cells[q[i]].st = "live"
    BY <1>1, <1>3, <1>11
  <2>2. i + 1 = e => q[i] = b
    BY <1>1, <1>4
  <2>3. i + 1 # e => q[i] # b
    <3>1. e # 1 => e - 1 \in 1..n
      BY <1>1
    <3> QED BY <1>1, <1>4, <3>1
  <2>4. ElementAt(g, q[i]) = ElementAt(h, q[i])
    BY <1>7, <2>1 DEF ElementAt
  <2>5. q[i] \in Live(g)
    BY <1>7, <2>1 DEF Live
  <2> QED BY <1>7, <2>1, <2>2, <2>3, <2>4, <2>5
<1>12. ListOf(n - 1, p, g, f)
  <2>1. ASSUME n - 1 = 0 PROVE f = 0
    <3>1. n = 1 /\ e = 1
      BY <1>1, <2>1
    <3> QED BY <1>1, <1>3, <1>4, <3>1 DEF s
  <2>2. ASSUME n - 1 # 0 PROVE f = p[1]
    <3>1. 1 \in 1 .. n - 1
      BY <1>1, <2>2
    <3>2. CASE e = 1
      <4>1. p[1] = q[2] /\ s = q[2]
        BY <1>1, <1>4, <1>8, <1>9, <2>2, <3>1, <3>2
      <4> QED BY <1>1, <1>3, <3>2, <4>1 DEF s
    <3>3. CASE e # 1
      <4>1. p[1] = q[1] /\ q[1] # x
        BY <1>1, <1>3, <1>8, <1>9, <3>1, <3>3
      <4> QED BY <1>1, <1>3, <4>1
    <3> QED BY <3>2, <3>3
  <2>3. ASSUME n - 1 # 0 PROVE g.cells[p[n - 1]].next = 0
    <3>1. n - 1 \in 1 .. n - 1 /\ n - 1 \in 1..n /\ (n - 1) + 1 = n
      BY <1>1, <2>3
    <3>2. CASE e = n
      <4>1. p[n - 1] = q[n - 1] /\ n - 1 # e
        BY <1>8, <1>9, <3>1, <3>2
      <4> QED BY <1>4, <1>11, <3>1, <3>2, <4>1
    <3>3. CASE e # n
      <4>1. p[n - 1] = q[n] /\ n + 1 # e
        BY <1>1, <1>8, <1>9, <3>1, <3>3
      <4> QED BY <1>1, <1>11, <3>3, <4>1
    <3> QED BY <3>2, <3>3
  <2>4. ASSUME NEW i \in 1 .. n - 1, i # n - 1 PROVE g.cells[p[i]].next = p[i + 1]
    <3>1. i \in 1..n /\ i + 1 \in 1..n /\ i + 2 \in 1..n /\ (i + 1) + 1 = i + 2 /\ i + 1 \in 1 .. n - 1
          /\ i # n /\ i + 1 # n
      BY <1>1, <2>4
    <3>2. CASE i + 1 < e
      <4>1. p[i] = q[i] /\ p[i + 1] = q[i + 1] /\ i # e /\ i + 1 # e
        BY <1>8, <1>9, <3>1, <3>2
      <4> QED BY <1>1, <1>11, <3>1, <4>1
    <3>3. CASE i + 1 = e
      <4>1. p[i] = q[i] /\ p[i + 1] = q[i + 2] /\ i # e /\ e # n /\ e + 1 = i + 2
        BY <1>8, <1>9, <3>1, <3>3
      <4> QED BY <1>4, <1>11, <3>1, <3>3, <4>1
    <3>4. CASE e < i + 1
      <4>1. p[i] = q[i + 1] /\ p[i + 1] = q[i + 2] /\ i + 1 # e /\ i + 2 # e
        BY <1>8, <1>9, <3>1, <3>4
      <4>2. g.cells[q[i + 1]].next = h.cells[q[i + 1]].next
        BY <1>11, <3>1, <4>1
      <4> QED BY <1>1, <3>1, <4>1, <4>2
    <3> QED BY <1>1, <3>2, <3>3, <3>4
  <2>5. n - 1 \in Nat
    BY <1>1
  <2> QED BY <1>10, <2>1, <2>2, <2>3, <2>4, <2>5 DEF ListOf
<1>13. \A i \in 1 .. n - 1 : p[i] \in Live(g) /\ ElementAt(g, p[i]) = ElementsOf(n, q, h)[at(i)]
  BY <1>8, <1>9, <1>11 DEF ElementsOf
<1>14. ElementsOf(n - 1, p, g) = [i \in 1 .. n - 1 |-> ElementsOf(n, q, h)[at(i)]]
  BY <1>13 DEF ElementsOf
<1> QED BY <1>12, <1>13, <1>14 DEF p, at, Shorter

(* As many cells as places they stand at.                                  *)
LEMMA SameNumber ==
    ASSUME NEW J, IsFiniteSet(J), NEW T, NEW f \in [J -> T],
           \A i, j \in J : f[i] = f[j] => i = j, \A m \in T : \E i \in J : f[i] = m
    PROVE Cardinality(T) = Cardinality(J)
<1>1. f \in Bijection(J, T)
  BY DEF Bijection, Injection, Surjection, IsInjective
<1> QED BY <1>1, FS_Bijection DEF ExistsBijection

(* The key Renumber gives to a cell counts the integer keys before it.     *)
LEMMA NewKeyCounts ==
    ASSUME NEW h, NEW r, NEW n, NEW q, Listed(n, q, r, h), NEW i \in 1..n
    PROVE NewKey(h, r.first, q[i])
            = Cardinality({j \in 1..(i - 1) : h.cells[q[j]].k \in IntKeys})
<1> DEFINE W == Walk(h, r.first)
           J == {j \in 1..(i - 1) : h.cells[q[j]].k \in IntKeys}
           T == IntsBefore(h, r.first, q[i])
           f == [j \in J |-> q[j]]
<1>1. /\ n \in Nat /\ MaxSlots \in Nat /\ n <= MaxSlots /\ q \in [1..n -> Slots]
      /\ \A j \in 1..n : W[j - 1] = q[j] /\ q[j] # 0
      /\ \A j \in n..MaxSlots : W[j] = 0
      /\ \A j, k \in 1..n : q[j] = q[k] => j = k
  BY BoundsAssumption DEF Listed, ListOf, Complete, Walked, Slots
<1>2. T = {m \in Slots : /\ h.cells[m].k \in IntKeys
                         /\ \E a, b \in 0..MaxSlots : a < b /\ W[a] = m /\ W[b] = q[i]}
  BY DEF IntsBefore
<1> HIDE DEF W, T
<1>3. \A j \in J : j \in 1..n /\ j < i /\ h.cells[q[j]].k \in IntKeys
  BY <1>1
<1>4. ASSUME NEW j \in J PROVE q[j] \in T
  <2>1. j - 1 \in 0..MaxSlots /\ i - 1 \in 0..MaxSlots /\ j - 1 < i - 1
    BY <1>1, <1>3
  <2>2. W[j - 1] = q[j] /\ W[i - 1] = q[i] /\ q[j] \in Slots
    BY <1>1, <1>3
  <2> QED BY <1>2, <1>3, <2>1, <2>2
<1>5. ASSUME NEW m \in T PROVE \E j \in J : q[j] = m
  <2>1. PICK a \in 0..MaxSlots, b \in 0..MaxSlots : a < b /\ W[a] = m /\ W[b] = q[i]
    BY <1>2
  <2>2. b < n
    BY <1>1, <2>1
  <2>3. b + 1 \in 1..n /\ a + 1 \in 1..n /\ (b + 1) - 1 = b /\ (a + 1) - 1 = a
    BY <1>1, <2>1, <2>2
  <2>4. W[a] = q[a + 1] /\ W[b] = q[b + 1]
    BY <1>1, <2>3
  <2>5. b + 1 = i
    BY <1>1, <2>1, <2>3, <2>4
  <2>6. a + 1 \in 1..(i - 1) /\ q[a + 1] = m /\ h.cells[m].k \in IntKeys
    BY <1>1, <1>2, <2>1, <2>3, <2>4, <2>5
  <2> QED BY <2>6
<1>6. IsFiniteSet(J)
  <2>1. i - 1 \in Int /\ J \subseteq 1..(i - 1)
    BY <1>1
  <2>2. IsFiniteSet(1..(i - 1))
    BY <2>1, FS_Interval
  <2> QED BY <2>1, <2>2, FS_Subset
<1>7. /\ f \in [J -> T]
      /\ \A j, k \in J : f[j] = f[k] => j = k
      /\ \A m \in T : \E j \in J : f[j] = m
  <2> HIDE DEF J
  <2>1. \A j \in J : f[j] = q[j]
    OBVIOUS
  <2> QED BY <1>1, <1>3, <1>4, <1>5, <2>1
<1> HIDE DEF J, f
<1>8. Cardinality(T) = Cardinality(J)
  BY <1>6, <1>7, SameNumber
<1> QED BY <1>8 DEF NewKey, T, J

LEMMA SameCardinality == \A S : Promise!Cardinality(S) = Cardinality(S)
BY DEF Promise!Cardinality, Cardinality

LEMMA RecountedIs ==
    ASSUME NEW m, NEW D, DOMAIN m = D
    PROVE Promise!Recounted(m)
            = [i \in D |->
                 IF m[i].k \in IntKeys
                 THEN [m[i] EXCEPT !.k = Cardinality({j \in 1..(i - 1) : m[j].k \in IntKeys})]
                 ELSE m[i]]
BY SameCardinality DEF Promise!Recounted

(* The integer keys counted anew, in place.                                *)
LEMMA RenumberList ==
    ASSUME NEW h \in Store, NEW r \in Table, Linked(r, h), NEW n, NEW q, Listed(n, q, r, h),
           NEW g, g = Renumber(h, r.first)
    PROVE /\ ListOf(n, q, g, r.first)
          /\ \A i \in 1..n : q[i] \in Live(g)
          /\ ElementsOf(n, q, g) = Promise!Recounted(ElementsOf(n, q, h))
<1> DEFINE e == ElementsOf(n, q, h)
           int(i) == h.cells[q[i]].k \in IntKeys
           new(i) == Cardinality({j \in 1..(i - 1) : int(j)})
<1>1. /\ n \in Nat /\ q \in [1..n -> Slots]
      /\ n = 0 => r.first = 0
      /\ n # 0 => r.first = q[1] /\ h.cells[q[n]].next = 0
      /\ \A i \in 1..n : i # n => h.cells[q[i]].next = q[i + 1]
      /\ \A i \in 1..n : q[i] \in Live(h) /\ q[i] \in Slots
  BY DEF Listed, ListOf, Complete, Live
<1>2. ASSUME NEW i \in 1..n
      PROVE g.cells[q[i]] = IF int(i) THEN [h.cells[q[i]] EXCEPT !.k = new(i)]
                            ELSE h.cells[q[i]]
  <2>1. IntCells(h, r.first) = {m \in Live(h) : h.cells[m].k \in IntKeys}
    BY WalkIsLive DEF Linked, IntCells
  <2>2. q[i] \in IntCells(h, r.first) <=> int(i)
    BY <1>1, <2>1
  <2>3. NewKey(h, r.first, q[i]) = new(i)
    BY NewKeyCounts
  <2>4. g.cells[q[i]] = IF q[i] \in IntCells(h, r.first)
                        THEN [h.cells[q[i]] EXCEPT !.k = NewKey(h, r.first, q[i])]
                        ELSE h.cells[q[i]]
    BY <1>1 DEF Renumber
  <2> HIDE DEF new, int
  <2> QED BY <2>2, <2>3, <2>4
<1> HIDE DEF new
<1>3. ASSUME NEW i \in 1..n
      PROVE /\ g.cells[q[i]].next = h.cells[q[i]].next
            /\ g.cells[q[i]].st = h.cells[q[i]].st
            /\ g.cells[q[i]].v = h.cells[q[i]].v
            /\ g.cells[q[i]].k = IF int(i) THEN new(i) ELSE h.cells[q[i]].k
  <2>1. h.cells[q[i]] \in Cell
    BY <1>1 DEF Store
  <2>2. CASE int(i)
    <3>1. g.cells[q[i]] = [h.cells[q[i]] EXCEPT !.k = new(i)]
      BY <1>2, <2>2
    <3> HIDE DEF int
    <3> QED BY <2>1, <2>2, <3>1, CellFields
  <2>3. CASE ~ int(i)
    BY <1>2, <2>3
  <2> QED BY <2>2, <2>3
<1>4. ListOf(n, q, g, r.first)
  <2>1. n # 0 => n \in 1..n
    BY <1>1
  <2> QED BY <1>1, <1>3, <2>1 DEF ListOf
<1>5. \A i \in 1..n : q[i] \in Live(g)
  BY <1>1, <1>3 DEF Live
<1>6. /\ DOMAIN e = 1..n
      /\ \A i \in 1..n : e[i] = [k |-> h.cells[q[i]].k, v |-> h.cells[q[i]].v]
  BY DEF ElementsOf, ElementAt
<1> HIDE DEF e
<1>7. ASSUME NEW i \in 1..n
      PROVE {j \in 1..(i - 1) : e[j].k \in IntKeys} = {j \in 1..(i - 1) : int(j)}
  <2>1. \A j \in 1..(i - 1) : j \in 1..n
    BY <1>1
  <2> QED BY <1>6, <2>1
<1>8. ASSUME NEW i \in 1..n
      PROVE ElementAt(g, q[i])
              = IF e[i].k \in IntKeys
                THEN [e[i] EXCEPT !.k = Cardinality({j \in 1..(i - 1) : e[j].k \in IntKeys})]
                ELSE e[i]
  <2>1. ElementAt(g, q[i]) = [k |-> g.cells[q[i]].k, v |-> h.cells[q[i]].v]
    BY <1>3 DEF ElementAt
  <2>2. e[i].k \in IntKeys <=> int(i)
    BY <1>6
  <2>3. Cardinality({j \in 1..(i - 1) : e[j].k \in IntKeys}) = new(i)
    BY <1>7 DEF new
  <2>4. [e[i] EXCEPT !.k = new(i)] = [k |-> new(i), v |-> h.cells[q[i]].v]
    BY <1>6
  <2> QED BY <1>3, <1>6, <2>1, <2>2, <2>3, <2>4
<1>9. ElementsOf(n, q, g) = Promise!Recounted(e)
  <2>1. ElementsOf(n, q, g) = [i \in 1..n |-> ElementAt(g, q[i])]
    BY DEF ElementsOf
  <2>2. Promise!Recounted(e)
          = [i \in 1..n |->
               IF e[i].k \in IntKeys
               THEN [e[i] EXCEPT !.k = Cardinality({j \in 1..(i - 1) : e[j].k \in IntKeys})]
               ELSE e[i]]
    BY <1>6, RecountedIs
  <2> QED BY <1>8, <2>1, <2>2
<1> QED BY <1>4, <1>5, <1>9 DEF e

Pushed(n, q, x) == [i \in 1 .. n + 1 |-> IF i = 1 THEN x ELSE q[i - 1]]

(* A cell pushed in front: one more element, the first.                    *)
LEMMA PushList ==
    ASSUME NEW h \in Store, NEW r \in Table, Linked(r, h), NEW n, NEW q, Listed(n, q, r, h),
           NEW x \in Slots, h.cells[x].st = "free", NEW v, NEW g, InFront(h, r.first, x, v, g)
    PROVE \E p : /\ ListOf(n + 1, p, g, x)
                 /\ \A i \in 1 .. n + 1 : p[i] \in Live(g)
                 /\ ElementsOf(n + 1, p, g) = Pushed(n, ElementsOf(n, q, h), [k |-> 0, v |-> v])
<1> DEFINE p == [i \in 1 .. n + 1 |-> IF i = 1 THEN x ELSE q[i - 1]]
           f == r.first
<1>1. /\ n \in Nat /\ q \in [1..n -> Slots]
      /\ n = 0 => f = 0
      /\ n # 0 => f = q[1] /\ h.cells[q[n]].next = 0
      /\ \A i \in 1..n : i # n => h.cells[q[i]].next = q[i + 1]
      /\ \A i \in 1..n : q[i] \in Live(h) /\ h.cells[q[i]].st = "live" /\ q[i] # x
  BY DEF Listed, ListOf, Complete, Live
<1> HIDE DEF f
<1>2. /\ p \in [1 .. n + 1 -> Slots] /\ p[1] = x
      /\ \A i \in 1 .. n + 1 : i # 1 => p[i] = q[i - 1] /\ i - 1 \in 1..n
  <2>1. \A i \in 1 .. n + 1 : i # 1 => i - 1 \in 1..n
    BY <1>1
  <2>2. 1 \in 1 .. n + 1
    BY <1>1
  <2> QED BY <1>1, <2>1, <2>2
<1> HIDE DEF p
<1>3. /\ g.cells[x] = [prev |-> 0, next |-> f, k |-> 0, v |-> v, st |-> "live"]
      /\ \A m \in Slots : m # x /\ m = f => g.cells[m] = [h.cells[m] EXCEPT !.prev = x]
      /\ \A m \in Slots : m # x /\ m # f => g.cells[m] = h.cells[m]
  BY DEF InFront, f
<1>4. /\ g.cells[x].next = f /\ g.cells[x].k = 0 /\ g.cells[x].v = v /\ g.cells[x].st = "live"
      /\ \A m \in Slots : m # x =>
           /\ g.cells[m].k = h.cells[m].k /\ g.cells[m].v = h.cells[m].v
           /\ g.cells[m].st = h.cells[m].st /\ g.cells[m].next = h.cells[m].next
  <2>1. ASSUME NEW m \in Slots, m # x, m = f
        PROVE /\ g.cells[m].k = h.cells[m].k /\ g.cells[m].v = h.cells[m].v
              /\ g.cells[m].st = h.cells[m].st /\ g.cells[m].next = h.cells[m].next
    <3>1. h.cells[m] \in Cell
      BY DEF Store
    <3>2. g.cells[m] = [h.cells[m] EXCEPT !.prev = x]
      BY <1>3, <2>1
    <3> QED BY <3>1, <3>2, CellFields
  <2> QED BY <1>3, <2>1
<1>5. ASSUME NEW i \in 1..n
      PROVE /\ g.cells[q[i]].next = h.cells[q[i]].next
            /\ ElementAt(g, q[i]) = ElementAt(h, q[i])
            /\ q[i] \in Live(g)
  <2>1. q[i] \in Slots /\ q[i] # x /\ h.cells[q[i]].st = "live"
    BY <1>1
  <2> QED BY <1>4, <2>1 DEF ElementAt, Live
<1>6. ListOf(n + 1, p, g, x)
  <2>1. n + 1 \in Nat /\ n + 1 # 0
    BY <1>1
  <2>2. g.cells[p[n + 1]].next = 0
    <3>1. CASE n = 0
      BY <1>1, <1>2, <1>4, <3>1
    <3>2. CASE n # 0
      <4>1. n + 1 \in 1 .. n + 1 /\ n + 1 # 1 /\ (n + 1) - 1 = n /\ n \in 1..n
        BY <1>1, <3>2
      <4>2. p[n + 1] = q[n]
        BY <1>2, <4>1
      <4> QED BY <1>1, <1>5, <3>2, <4>1, <4>2
    <3> QED BY <3>1, <3>2
  <2>3. ASSUME NEW i \in 1 .. n + 1, i # n + 1 PROVE g.cells[p[i]].next = p[i + 1]
    <3>1. i + 1 \in 1 .. n + 1 /\ i + 1 # 1 /\ (i + 1) - 1 = i /\ n # 0 /\ i \in 1..n
      BY <1>1, <2>3
    <3>2. p[i + 1] = q[i]
      BY <1>2, <3>1
    <3>3. CASE i = 1
      BY <1>1, <1>2, <1>4, <3>1, <3>2, <3>3
    <3>4. CASE i # 1
      <4>1. p[i] = q[i - 1] /\ i - 1 \in 1..n /\ i - 1 # n /\ (i - 1) + 1 = i
        BY <1>1, <1>2, <3>1, <3>4
      <4> QED BY <1>1, <1>5, <3>2, <4>1
    <3> QED BY <3>3, <3>4
  <2> QED BY <1>2, <2>1, <2>2, <2>3 DEF ListOf
<1>7. ASSUME NEW i \in 1 .. n + 1
      PROVE /\ p[i] \in Live(g)
            /\ ElementAt(g, p[i]) = IF i = 1 THEN [k |-> 0, v |-> v] ELSE ElementAt(h, q[i - 1])
  <2>1. CASE i = 1
    BY <1>2, <1>4, <2>1 DEF ElementAt, Live
  <2>2. CASE i # 1
    <3>1. i - 1 \in 1..n /\ p[i] = q[i - 1]
      BY <1>2, <2>2
    <3> QED BY <1>5, <2>2, <3>1
  <2> QED BY <2>1, <2>2
<1>8. ElementsOf(n + 1, p, g) =
        [i \in 1 .. n + 1 |-> IF i = 1 THEN [k |-> 0, v |-> v] ELSE ElementsOf(n, q, h)[i - 1]]
  <2>1. \A i \in 1 .. n + 1 : i # 1 => ElementsOf(n, q, h)[i - 1] = ElementAt(h, q[i - 1])
    BY <1>2 DEF ElementsOf
  <2> QED BY <1>7, <2>1 DEF ElementsOf
<1> QED BY <1>6, <1>7, <1>8 DEF Pushed

(* A new value under a key that is there.                                  *)
LEMMA OverwriteList ==
    ASSUME NEW h \in Store, NEW r \in Table, Linked(r, h), IndexedOn(h, Keys),
           NEW n, NEW q, Listed(n, q, r, h), NEW k \in Keys, h.idx[k] # 0, NEW v,
           NEW g, g = [h EXCEPT !.cells[h.idx[k]].v = v]
    PROVE /\ ListOf(n, q, g, r.first)
          /\ \A i \in 1..n : q[i] \in Live(g)
          /\ ElementsOf(n, q, g) = Promise!Replaced(ElementsOf(n, q, h), k, v)
          /\ Promise!Has(ElementsOf(n, q, h), k)
<1> DEFINE e == ElementsOf(n, q, h)
           x == h.idx[k]
<1>1. /\ n \in Nat /\ q \in [1..n -> Slots]
      /\ n = 0 => r.first = 0
      /\ n # 0 => r.first = q[1] /\ h.cells[q[n]].next = 0
      /\ \A i \in 1..n : i # n => h.cells[q[i]].next = q[i + 1]
      /\ \A i \in 1..n : q[i] \in Live(h) /\ q[i] \in Slots /\ h.cells[q[i]].st = "live"
      /\ \A m \in Live(h) : \E i \in 1..n : q[i] = m
  BY DEF Listed, ListOf, Complete, Live
<1>2. x \in Live(h) /\ x \in Slots /\ h.cells[x].k = k
  BY DEF IndexedOn, Live
<1>3. \A i \in 1..n : h.cells[q[i]].k = k <=> q[i] = x
  BY <1>1, <1>2 DEF IndexedOn
<1>4. h.cells \in [Slots -> Cell] /\ h = [cells |-> h.cells, idx |-> h.idx]
  BY DEF Store
<1>5. g.cells = [h.cells EXCEPT ![x] = [h.cells[x] EXCEPT !.v = v]]
  BY <1>4
<1> HIDE DEF x
<1>6. ASSUME NEW m \in Slots
      PROVE /\ g.cells[m].next = h.cells[m].next /\ g.cells[m].st = h.cells[m].st
            /\ g.cells[m].k = h.cells[m].k
            /\ m = x => g.cells[m].v = v
            /\ m # x => g.cells[m].v = h.cells[m].v
  <2>1. CASE m = x
    <3>1. g.cells[m] = [h.cells[m] EXCEPT !.v = v] /\ h.cells[m] \in Cell
      BY <1>2, <1>4, <1>5, <2>1
    <3>2. PICK prev \in Links, next \in Links, key \in Keys, old \in Vals \cup {None},
               st \in {"free", "live", "dead"} :
            h.cells[m] = [prev |-> prev, next |-> next, k |-> key, v |-> old, st |-> st]
      BY <3>1 DEF Cell
    <3> QED BY <2>1, <3>1, <3>2
  <2>2. CASE m # x
    <3>1. g.cells[m] = h.cells[m]
      BY <1>4, <1>5, <2>2
    <3> QED BY <2>2, <3>1
  <2> QED BY <2>1, <2>2
<1>7. ListOf(n, q, g, r.first)
  <2>1. n # 0 => n \in 1..n
    BY <1>1
  <2> QED BY <1>1, <1>6, <2>1 DEF ListOf
<1>8. \A i \in 1..n : q[i] \in Live(g)
  BY <1>1, <1>6 DEF Live
<1>9. DOMAIN e = 1..n /\ \A i \in 1..n : e[i] = ElementAt(h, q[i]) /\ e[i].k = h.cells[q[i]].k
  BY DEF ElementsOf, ElementAt
<1> HIDE DEF e
<1>10. ASSUME NEW i \in 1..n
       PROVE ElementAt(g, q[i]) = IF e[i].k = k THEN [k |-> k, v |-> v] ELSE e[i]
  <2>1. CASE q[i] = x
    <3>1. ElementAt(g, q[i]) = [k |-> k, v |-> v]
      BY <1>1, <1>3, <1>6, <2>1 DEF ElementAt
    <3> QED BY <1>3, <1>9, <2>1, <3>1
  <2>2. CASE q[i] # x
    <3>1. ElementAt(g, q[i]) = ElementAt(h, q[i])
      BY <1>1, <1>6, <2>2 DEF ElementAt
    <3> QED BY <1>3, <1>9, <2>2, <3>1
  <2> QED BY <2>1, <2>2
<1>11. ElementsOf(n, q, g) = Promise!Replaced(e, k, v)
  BY <1>9, <1>10 DEF ElementsOf, Promise!Replaced
<1>12. Promise!Has(e, k)
  <2>1. PICK i \in 1..n : q[i] = x
    BY <1>1, <1>2
  <2> QED BY <1>3, <1>9, <2>1 DEF Promise!Has
<1> QED BY <1>7, <1>8, <1>11, <1>12 DEF e

-----------------------------------------------------------------------------
(* What a step does to what the tables hold.                               *)

Holding(e) == [live |-> TRUE, elems |-> e]

LEMMA SameLiveCells ==
    ASSUME NEW h, NEW g, LiveCells(g) = LiveCells(h)
    PROVE Live(g) = Live(h) /\ \A m \in Live(h) : g.cells[m] = h.cells[m]
<1>1. ASSUME NEW m \in Live(h) PROVE m \in Live(g) /\ g.cells[m] = h.cells[m]
  <2>1. <<m, h.cells[m]>> \in LiveCells(h)
    BY DEF LiveCells, Live
  <2>2. <<m, h.cells[m]>> \in LiveCells(g)
    BY <2>1
  <2>3. PICK x \in {y \in Slots : g.cells[y].st = "live"} : <<m, h.cells[m]>> = <<x, g.cells[x]>>
    BY <2>2 DEF LiveCells
  <2> QED BY <2>3 DEF Live
<1>2. ASSUME NEW m \in Live(g) PROVE m \in Live(h)
  <2>1. <<m, g.cells[m]>> \in LiveCells(g)
    BY DEF LiveCells, Live
  <2>2. <<m, g.cells[m]>> \in LiveCells(h)
    BY <2>1
  <2>3. PICK x \in {y \in Slots : h.cells[y].st = "live"} : <<m, g.cells[m]>> = <<x, h.cells[x]>>
    BY <2>2 DEF LiveCells
  <2> QED BY <2>3 DEF Live
<1> QED BY <1>1, <1>2

(* A table holds the elements of the list built in its store.              *)
LEMMA CollectedContents ==
    ASSUME Inv, Inv', Connected', NEW t \in Tables, NEW s \in Stores, NEW r, NEW h \in Store,
           tab'[t] = r, r.live, r.store = s, heap' = Collected(Placed(s, h)),
           NEW n, NEW q, ListOf(n, q, h, r.first), \A i \in 1..n : q[i] \in Live(h)
    PROVE Contents(t)' = Holding(ElementsOf(n, q, h))
<1>1. r \in Table
  BY DEF Inv, TypeOK
<1>2. Placed(s, h) \in [Stores -> Store] /\ Placed(s, h)[s] = h
  BY PlacedFacts
<1> DEFINE g == heap'[s]
<1>3. LiveCells(g) = LiveCells(h)
  BY <1>2, CollectedKeeps
<1>4. g \in Store /\ Linked(r, g)
  BY DEF Inv, TypeOK, Connected, TablesLinked
<1>5. Contents(t)' = Holding(Elements(g, r.first))
  BY DEF Contents, Holding
<1> HIDE DEF g
<1>6. Live(g) = Live(h) /\ \A m \in Live(h) : g.cells[m] = h.cells[m]
  BY <1>3, SameLiveCells
<1>7. Elements(g, r.first) = ElementsOf(n, q, h)
  BY <1>1, <1>4, <1>6, SameElements
<1> QED BY <1>5, <1>7

LEMMA CommitContents ==
    ASSUME Inv, Inv', Connected', NEW t \in Tables, NEW s \in Stores, NEW r, NEW h \in Store,
           r.live, r.store = s, Commit(t, s, r, h),
           NEW n, NEW q, ListOf(n, q, h, r.first), \A i \in 1..n : q[i] \in Live(h)
    PROVE Contents(t)' = Holding(ElementsOf(n, q, h))
<1>1. tab'[t] = r
  BY DEF Commit, Inv, TypeOK
<1>2. heap' = Collected(Placed(s, h))
  BY DEF Commit, Placed
<1> QED BY <1>1, <1>2, CollectedContents

(* A live table whose view is unchanged holds what it held.                *)
LEMMA ViewKept ==
    ASSUME Inv, Inv', Connected, Connected', NEW t \in Tables, tab[t].live, tab'[t].live,
           View(t)' = View(t)
    PROVE Contents(t)' = Contents(t)
<1> DEFINE h == heap[tab[t].store]
           g == heap'[tab'[t].store]
           r == tab'[t]
<1>1. h \in Store /\ g \in Store /\ r \in Table /\ tab[t] \in Table
      /\ Linked(r, g) /\ Linked(tab[t], h)
  BY DEF Inv, TypeOK, Connected, TablesLinked
<1>2. r.first = tab[t].first /\ LiveCells(g) = LiveCells(h)
  BY DEF View
<1>3. Contents(t) = Holding(Elements(h, tab[t].first)) /\ Contents(t)' = Holding(Elements(g, r.first))
  BY DEF Contents, Holding
<1> HIDE DEF h, g, r
<1>4. PICK n, q : Listed(n, q, tab[t], h)
  BY <1>1, ListExists
<1>5. ListOf(n, q, h, r.first) /\ \A i \in 1..n : q[i] \in Live(h)
  BY <1>2, <1>4 DEF Listed, Complete
<1>6. Live(g) = Live(h) /\ \A m \in Live(h) : g.cells[m] = h.cells[m]
  BY <1>2, SameLiveCells
<1>7. Elements(g, r.first) = ElementsOf(n, q, h)
  BY <1>1, <1>5, <1>6, SameElements
<1>8. Elements(h, tab[t].first) = ElementsOf(n, q, h)
  BY <1>4, ElementsAre
<1> QED BY <1>2, <1>3, <1>7, <1>8

(* The content t writes to holds what t holds, shared or copied first.     *)
LEMMA PrivateList ==
    ASSUME Inv, Connected, NEW t \in Tables, tab[t].live, NEW s \in Stores, Home(t, s)
    PROVE \E n, q : /\ Listed(n, q, Private(t, s), PrivateStore(t))
                    /\ Contents(t) = Holding(ElementsOf(n, q, PrivateStore(t)))
<1> DEFINE h == heap[tab[t].store]
           g == PrivateStore(t)
           r == Private(t, s)
<1>1. /\ h \in Store /\ g \in Store /\ r \in Table /\ tab[t] \in Table
      /\ Linked(r, g) /\ Linked(tab[t], h) /\ IndexedOn(h, Keys)
  BY HomeFacts DEF Inv, TypeOK, Connected, TablesLinked
<1>2. r.first = tab[t].first
  <2>1. CopiedTable(t, s).first = tab[t].first
    BY <1>1 DEF CopiedTable, Table
  <2> QED BY <2>1 DEF Private
<1>3. Live(g) = Live(h) /\ \A m \in Live(h) : g.cells[m] = h.cells[m]
  <2>1. CASE tab[t].cow
    <3>1. g = Copy(h, tab[t].first)
      BY <2>1 DEF PrivateStore
    <3>2. Live(g) = Live(h) /\ Chain(h, tab[t].first) = Live(h)
      BY <1>1, <3>1, CopyFacts
    <3>3. \A m \in Slots : m \in Chain(h, tab[t].first) => g.cells[m] = h.cells[m]
      BY <3>1, SMTT(60) DEF Copy
    <3> HIDE DEF g, h
    <3> QED BY <3>2, <3>3 DEF Live
  <2>2. CASE ~ tab[t].cow
    BY <2>2 DEF PrivateStore
  <2> QED BY <2>1, <2>2
<1>4. Contents(t) = Holding(Elements(h, tab[t].first))
  BY DEF Contents, Holding
<1> HIDE DEF h, g, r
<1>5. PICK n, q : Listed(n, q, tab[t], h)
  BY <1>1, ListExists
<1>6. ListOf(n, q, h, r.first) /\ \A i \in 1..n : q[i] \in Live(h)
  BY <1>2, <1>5 DEF Listed, Complete
<1>7. Listed(n, q, r, g) /\ Elements(g, r.first) = ElementsOf(n, q, h)
  BY <1>1, <1>3, <1>6, SameElements
<1>8. Elements(h, tab[t].first) = ElementsOf(n, q, h)
  BY <1>5, ElementsAre
<1>9. Elements(g, r.first) = ElementsOf(n, q, g)
  BY <1>7, ElementsAre
<1> QED BY <1>4, <1>7, <1>8, <1>9 DEF g, r

OthersHold(t) == \A u \in Tables : u # t => Contents(u)' = Contents(u)

LEMMA KeptHolds ==
    ASSUME Inv, Inv', Connected, Connected', NEW t \in Tables, OthersKept(t),
           \A u \in Tables : u # t => tab'[u].live = tab[u].live
    PROVE OthersHold(t)
<1> SUFFICES ASSUME NEW u \in Tables, u # t PROVE Contents(u)' = Contents(u)
  BY DEF OthersHold
<1>1. CASE tab[u].live
  BY <1>1, ViewKept DEF OthersKept
<1>2. CASE ~ tab[u].live
  BY <1>2 DEF Contents
<1> QED BY <1>1, <1>2

-----------------------------------------------------------------------------
(* Such a step is a step of OrderedMap.                                    *)

Maps == [t \in Tables |-> Contents(t)]

LEMMA StayStep ==
    ASSUME NEW t \in Tables, OthersHold(t), Contents(t)' = Contents(t) PROVE UNCHANGED Maps
BY DEF OthersHold, Maps

LEMMA NewIsNew ==
    ASSUME NEW t \in Tables, OthersHold(t), ~ tab[t].live, Contents(t)' = Holding(<<>>)
    PROVE Promise!Next
<1>1. Maps[t].live = FALSE
  BY DEF Maps, Contents
<1>2. Maps' = [Maps EXCEPT ![t] = [live |-> TRUE, elems |-> <<>>]]
  BY DEF OthersHold, Maps, Holding
<1>3. Promise!New(t)
  BY <1>1, <1>2 DEF Promise!New, Maps
<1> QED BY <1>3 DEF Promise!Next

LEMMA DropIsDrop ==
    ASSUME NEW t \in Tables, OthersHold(t), tab[t].live, ~ tab'[t].live
    PROVE Promise!Next
<1>1. Maps[t].live = TRUE
  BY DEF Maps, Contents
<1>2. Maps' = [Maps EXCEPT ![t] = [live |-> FALSE, elems |-> <<>>]]
  BY DEF OthersHold, Maps, Contents
<1>3. Promise!Drop(t)
  BY <1>1, <1>2 DEF Promise!Drop, Promise!Gone, Maps
<1> QED BY <1>3 DEF Promise!Next

LEMMA CopyIsCopy ==
    ASSUME NEW t \in Tables, NEW u \in Tables, OthersHold(u), tab[t].live, ~ tab[u].live,
           Contents(u)' = Contents(t)
    PROVE Promise!Next
<1>1. Maps[t].live = TRUE /\ Maps[u].live = FALSE
  BY DEF Maps, Contents
<1>2. Maps' = [Maps EXCEPT ![u] = Maps[t]]
  BY DEF OthersHold, Maps
<1>3. Promise!Copy(t, u)
  BY <1>1, <1>2 DEF Promise!Copy, Maps
<1> QED BY <1>3 DEF Promise!Next

LEMMA OneEntry ==
    ASSUME NEW E, NEW M \in [Tables -> [live : BOOLEAN, elems : E]],
           NEW N \in [Tables -> [live : BOOLEAN, elems : E]],
           NEW t \in Tables, M[t].live, N[t].live, \A u \in Tables : u # t => N[u] = M[u]
    PROVE N = [M EXCEPT ![t].elems = N[t].elems]
<1>1. [M[t] EXCEPT !.elems = N[t].elems] = N[t]
  <2>1. PICK e \in E : M[t] = [live |-> TRUE, elems |-> e]
    OBVIOUS
  <2>2. PICK d \in E : N[t] = [live |-> TRUE, elems |-> d]
    OBVIOUS
  <2> QED BY <2>1, <2>2
<1> QED BY <1>1

LEMMA ChangeStep ==
    ASSUME NEW t \in Tables, OthersHold(t), NEW e, NEW d, Contents(t) = Holding(e),
           Contents(t)' = Holding(d), d \in Promise!Outcomes(e)
    PROVE Promise!Next
<1>1. Maps[t] = [live |-> TRUE, elems |-> e] /\ Maps'[t] = [live |-> TRUE, elems |-> d]
  BY DEF Maps, Holding
<1>2. \A u \in Tables : u # t => Maps'[u] = Maps[u]
  BY DEF OthersHold, Maps
<1>3. Maps' = [Maps EXCEPT ![t].elems = Maps'[t].elems]
  <2> DEFINE E == {Contents(u).elems : u \in Tables} \cup {Contents(u)'.elems : u \in Tables}
             M == Maps
             N == Maps'
  <2>1. \A u \in Tables : M[u] \in [live : BOOLEAN, elems : E] /\ N[u] \in [live : BOOLEAN, elems : E]
    BY DEF Maps, Contents
  <2>2. M = [u \in Tables |-> M[u]] /\ N = [u \in Tables |-> N[u]]
    BY DEF Maps
  <2>3. M[t].live /\ N[t].live /\ \A u \in Tables : u # t => N[u] = M[u]
    BY <1>1, <1>2
  <2> HIDE DEF E, M, N
  <2>4. M \in [Tables -> [live : BOOLEAN, elems : E]] /\ N \in [Tables -> [live : BOOLEAN, elems : E]]
    BY <2>1, <2>2
  <2>5. N = [M EXCEPT ![t].elems = N[t].elems]
    BY <2>3, <2>4, OneEntry
  <2> QED BY <2>5 DEF M, N
<1>4. Promise!Change(t)
  BY <1>1, <1>3 DEF Promise!Change, Maps
<1> QED BY <1>4 DEF Promise!Next

-----------------------------------------------------------------------------
(* The steps that write no element.                                        *)

LEMMA WriteHolds ==
    ASSUME Inv, Inv', Connected, Connected', NEW t \in Tables, OthersKept(t),
           NEW s, NEW r, NEW h, Commit(t, s, r, h)
    PROVE OthersHold(t)
<1>1. \A u \in Tables : u # t => tab'[u].live = tab[u].live
  BY DEF Commit, Inv, TypeOK
<1> QED BY <1>1, KeptHolds

LEMMA NewShown ==
    ASSUME Inv, Inv', Connected, Connected', NEW t \in Tables, New(t) PROVE Promise!Next
<1>1. PICK s \in Stores : Commit(t, s, NewTable(s), EmptyStore)
  BY DEF New
<1>2. /\ EmptyStore \in Store /\ NewTable(s).store = s /\ NewTable(s).live
      /\ NewTable(s).first = 0
  BY EmptyTypes DEF NewTable, NoTable
<1>3. PICK q : q = [i \in 1..0 |-> 1]
  OBVIOUS
<1>4. ListOf(0, q, EmptyStore, NewTable(s).first) /\ \A i \in 1..0 : q[i] \in Live(EmptyStore)
  BY <1>2, <1>3 DEF ListOf
<1>5. Contents(t)' = Holding(ElementsOf(0, q, EmptyStore))
  BY <1>1, <1>2, <1>4, CommitContents
<1>6. ElementsOf(0, q, EmptyStore) = <<>>
  BY DEF ElementsOf
<1>7. OthersHold(t)
  BY <1>1, NewStep, WriteHolds
<1> QED BY <1>5, <1>6, <1>7, NewIsNew DEF New

LEMMA DropShown ==
    ASSUME Inv, Inv', Connected, Connected', NEW t \in Tables, Drop(t) PROVE Promise!Next
<1>1. tab[t].live /\ ~ tab'[t].live /\ \A u \in Tables : u # t => tab'[u].live = tab[u].live
  BY DEF Drop, NoTable, Inv, TypeOK
<1>2. OthersHold(t)
  BY <1>1, DropStep, KeptHolds
<1> QED BY <1>1, <1>2, DropIsDrop

LEMMA DupShown ==
    ASSUME Inv, Inv', Connected, Connected', NEW t \in Tables, NEW u \in Tables, Dup(t, u)
    PROVE Promise!Next
<1>1. /\ tab \in [Tables -> Table] /\ heap' = heap /\ tab[t].live /\ ~ tab[u].live /\ t # u
  BY DEF Dup, Inv, TypeOK
<1>2. /\ tab'[u].live /\ tab'[u].first = tab[t].first /\ tab'[u].store = tab[t].store
      /\ \A w \in Tables : w # u => tab'[w].live = tab[w].live
  <2>1. tab'[u] = [tab[t] EXCEPT !.cow = TRUE, !.incInit = FALSE]
    BY <1>1 DEF Dup
  <2>2. tab'[u].live = tab[t].live /\ tab'[u].first = tab[t].first /\ tab'[u].store = tab[t].store
    <3>1. tab[t] \in Table
      BY <1>1
    <3> DEFINE r == tab[t]
    <3>2. r \in Table /\ tab'[u] = [r EXCEPT !.cow = TRUE, !.incInit = FALSE]
      BY <2>1, <3>1
    <3> HIDE DEF r
    <3>3. tab'[u].live = r.live /\ tab'[u].first = r.first /\ tab'[u].store = r.store
      BY <3>2 DEF Table
    <3> QED BY <3>3 DEF r
  <2>3. ASSUME NEW w \in Tables, w # u PROVE tab'[w].live = tab[w].live
    <3>1. CASE w = t
      <4>1. tab'[w] = [tab[t] EXCEPT !.cow = TRUE]
        BY <1>1, <2>3, <3>1 DEF Dup
      <4> QED BY <1>1, <3>1, <4>1 DEF Table
    <3>2. CASE w # t
      BY <1>1, <2>3, <3>2 DEF Dup
    <3> QED BY <3>1, <3>2
  <2> QED BY <1>1, <2>2, <2>3
<1>3. Contents(u)' = Contents(t)
  BY <1>1, <1>2 DEF Contents
<1>4. OthersHold(u)
  BY <1>2, DupStep, KeptHolds
<1> QED BY <1>1, <1>3, <1>4, CopyIsCopy

(* A copy made by Copy shows what the table shows.                         *)
LEMMA CopyList ==
    ASSUME NEW h \in Store, NEW r \in Table, Linked(r, h), IndexedOn(h, Keys),
           NEW x \in Table, x.first = r.first, x.last = r.last, x.count = r.count
    PROVE \E n, q : /\ Listed(n, q, x, Copy(h, r.first))
                    /\ Elements(h, r.first) = ElementsOf(n, q, Copy(h, r.first))
<1> DEFINE g == Copy(h, r.first)
<1>1. g \in Store /\ Live(g) = Live(h) /\ Linked(r, g) /\ Chain(h, r.first) = Live(h)
  BY CopyFacts
<1>2. \A m \in Live(h) : g.cells[m] = h.cells[m]
  BY <1>1 DEF Copy, Live
<1> HIDE DEF g
<1>3. Linked(x, g)
  BY <1>1, LinkedFields
<1>4. PICK n, q : Listed(n, q, r, h)
  BY ListExists
<1>5. ListOf(n, q, h, x.first) /\ \A i \in 1..n : q[i] \in Live(h)
  BY <1>4 DEF Listed, Complete
<1>6. Listed(n, q, x, g) /\ Elements(g, x.first) = ElementsOf(n, q, h)
  BY <1>1, <1>2, <1>3, <1>5, SameElements
<1>7. Elements(h, r.first) = ElementsOf(n, q, h) /\ Elements(g, x.first) = ElementsOf(n, q, g)
  BY <1>4, <1>6, ElementsAre
<1> QED BY <1>6, <1>7 DEF g

LEMMA DeepCopyShown ==
    ASSUME Inv, Inv', Connected, Connected', NEW t \in Tables, NEW u \in Tables, DeepCopy(t, u)
    PROVE Promise!Next
<1> DEFINE o == tab[t]
           h == Copy(heap[o.store], o.first)
           x(s) == [o EXCEPT !.store = s, !.cow = FALSE, !.incInit = FALSE,
                             !.main = At(s, o.first)]
<1>1. PICK s \in Stores : Commit(u, s, x(s), h)
  BY DEF DeepCopy
<1>2. /\ o \in Table /\ o.live /\ heap[o.store] \in Store /\ ~ tab[u].live
      /\ Linked(o, heap[o.store]) /\ IndexedOn(heap[o.store], Keys)
  BY DEF DeepCopy, Inv, TypeOK, Connected, TablesLinked
<1>3. /\ x(s).first = o.first /\ x(s).last = o.last /\ x(s).count = o.count
      /\ x(s).store = s /\ x(s).live
  BY <1>2 DEF Table
<1>4. Contents(t) = Holding(Elements(heap[o.store], o.first))
  BY <1>2 DEF Contents, Holding
<1> HIDE DEF x
<1>5. x(s) \in Table
  <2> HIDE DEF h
  <2> QED BY <1>1, CommitTyped
<1> HIDE DEF o
<1>6. h \in Store
  BY <1>2, CopyFacts
<1>7. PICK n, q : Listed(n, q, x(s), h) /\ Elements(heap[o.store], o.first) = ElementsOf(n, q, h)
  BY <1>2, <1>3, <1>5, CopyList
<1> HIDE DEF h
<1>8. Contents(u)' = Holding(ElementsOf(n, q, h))
  <2>1. ListOf(n, q, h, x(s).first) /\ \A i \in 1..n : q[i] \in Live(h)
    BY <1>7 DEF Listed, Complete
  <2> QED BY <1>1, <1>3, <1>6, <2>1, CommitContents
<1>9. OthersHold(u)
  BY <1>1, DeepCopyStep, WriteHolds
<1> QED BY <1>2, <1>4, <1>7, <1>8, <1>9, CopyIsCopy DEF o

(* A write that leaves the content alone.                                  *)
LEMMA StayCommitted ==
    ASSUME Inv, Inv', Connected, Connected', NEW t \in Tables, tab[t].live, OthersKept(t),
           NEW s \in Stores, Home(t, s), NEW x, x.live, x.store = s,
           x.first = Private(t, s).first, Commit(t, s, x, PrivateStore(t))
    PROVE UNCHANGED Maps
<1>1. PICK n, q : /\ Listed(n, q, Private(t, s), PrivateStore(t))
                  /\ Contents(t) = Holding(ElementsOf(n, q, PrivateStore(t)))
  BY PrivateList
<1>2. ListOf(n, q, PrivateStore(t), x.first) /\ \A i \in 1..n : q[i] \in Live(PrivateStore(t))
  BY <1>1 DEF Listed, Complete
<1>3. PrivateStore(t) \in Store
  BY HomeFacts
<1>4. Contents(t)' = Holding(ElementsOf(n, q, PrivateStore(t)))
  BY <1>2, <1>3, CommitContents
<1>5. OthersHold(t)
  BY WriteHolds
<1> QED BY <1>1, <1>4, <1>5, StayStep

LEMMA SeparateShown ==
    ASSUME Inv, Inv', Connected, Connected', NEW t \in Tables, Separate(t)
    PROVE UNCHANGED Maps
<1>1. PICK s \in Stores : Home(t, s) /\ Commit(t, s, Private(t, s), PrivateStore(t))
  BY DEF Separate
<1>2. tab[t].live
  BY DEF Separate
<1>3. Private(t, s).live /\ Private(t, s).store = s
  BY <1>1, <1>2, HomeFacts
<1> QED BY <1>1, <1>2, <1>3, SeparateStep, StayCommitted

LEMMA AppendRefusedShown ==
    ASSUME Inv, Inv', Connected, Connected', NEW t \in Tables, AppendRefused(t)
    PROVE UNCHANGED Maps
<1> DEFINE x(s) == [Private(t, s) EXCEPT !.inc = NextKey(Private(t, s), PrivateStore(t))]
<1>1. PICK s \in Stores : Home(t, s) /\ Commit(t, s, x(s), PrivateStore(t))
  BY DEF AppendRefused
<1>2. tab[t].live
  BY DEF AppendRefused
<1>3. Private(t, s) \in Table /\ Private(t, s).live /\ Private(t, s).store = s
  BY <1>1, <1>2, HomeFacts
<1>4. x(s).live /\ x(s).store = s /\ x(s).first = Private(t, s).first
  BY <1>3 DEF Table
<1> HIDE DEF x
<1> QED BY <1>1, <1>2, <1>4, AppendRefusedStep, StayCommitted

(* Steps that move cursors.                                                *)
LEMMA QuietStays ==
    ASSUME Inv, Inv', Connected, Connected', heap' = Collected(heap),
           \A t \in Tables : /\ tab'[t].live = tab[t].live /\ tab'[t].store = tab[t].store
                             /\ tab'[t].first = tab[t].first /\ tab'[t].last = tab[t].last
                             /\ tab'[t].count = tab[t].count /\ tab'[t].inc = tab[t].inc
    PROVE UNCHANGED Maps
<1>1. heap \in [Stores -> Store] /\ \A t \in Tables : tab[t].live => tab[t].store \in Stores
  BY DEF Inv, TypeOK
<1>2. ASSUME NEW t \in Tables PROVE Contents(t)' = Contents(t)
  <2>1. CASE tab[t].live
    <3>1. tab'[t].store \in Stores
      BY <1>1, <2>1
    <3>2. /\ heap'[tab'[t].store].idx = heap[tab'[t].store].idx
          /\ LiveCells(heap'[tab'[t].store]) = LiveCells(heap[tab'[t].store])
      BY <1>1, <3>1, CollectedKeeps
    <3>3. View(t)' = View(t)
      <4>1. LiveCells(heap[tab[t].store])' = LiveCells(heap'[tab'[t].store])
        BY DEF LiveCells
      <4> QED BY <3>2, <4>1 DEF View
    <3> QED BY <2>1, <3>3, ViewKept
  <2>2. CASE ~ tab[t].live
    BY <2>2 DEF Contents
  <2> QED BY <2>1, <2>2
<1> QED BY <1>2 DEF Maps

LEMMA MoveShown ==
    ASSUME Inv, Inv', Connected, Connected', NEW t \in Tables, Move(t) PROVE UNCHANGED Maps
<1>1. ASSUME NEW c, MoveMain(t, c) PROVE UNCHANGED Maps
  <2>1. tab \in [Tables -> Table] /\ tab' = [tab EXCEPT ![t].main = c] /\ heap' = Collected(heap)
    BY <1>1 DEF MoveMain, Inv, TypeOK
  <2>2. ASSUME NEW u \in Tables
        PROVE /\ tab'[u].live = tab[u].live /\ tab'[u].store = tab[u].store
              /\ tab'[u].first = tab[u].first /\ tab'[u].last = tab[u].last
              /\ tab'[u].count = tab[u].count /\ tab'[u].inc = tab[u].inc
    <3>1. CASE u = t
      <4>1. tab'[u] = [tab[u] EXCEPT !.main = c] /\ tab[u] \in Table
        BY <2>1, <3>1
      <4> QED BY <4>1 DEF Table
    <3>2. CASE u # t
      BY <2>1, <3>2
    <3> QED BY <3>1, <3>2
  <2> QED BY <2>1, <2>2, QuietStays
<1> QED BY <1>1 DEF Move, MainNext, MainPrev, MainReset, MainEnd, ResetIfEnd

LEMMA ForeachTurnShown ==
    ASSUME Inv, Inv', Connected, Connected', NEW i \in Iters, ForeachNext(i) \/ ForeachEnd(i)
    PROVE UNCHANGED Maps
<1>1. tab' = tab /\ heap' = Collected(heap)
  BY DEF ForeachNext, ForeachEnd
<1> QED BY <1>1, QuietStays

LEMMA ForeachStartShown ==
    ASSUME Inv, Inv', Connected, Connected', NEW t \in Tables, NEW i \in Iters,
           ForeachStart(t, i)
    PROVE UNCHANGED Maps
<1> DEFINE o == tab[t]
           h == Copy(heap[o.store], o.first)
           x(s) == [CopiedTable(t, s) EXCEPT !.incInit = FALSE]
<1>1. PICK s \in Stores : Commit(t, s, x(s), h)
  BY DEF ForeachStart
<1>2. /\ o \in Table /\ o.live /\ heap[o.store] \in Store
      /\ Linked(o, heap[o.store]) /\ IndexedOn(heap[o.store], Keys)
  BY DEF ForeachStart, Inv, TypeOK, Connected, TablesLinked
<1>3. /\ x(s).first = o.first /\ x(s).last = o.last /\ x(s).count = o.count
      /\ x(s).store = s /\ x(s).live
  <2>1. CopiedTable(t, s) \in Table
    BY CopiedTableType DEF Inv
  <2>2. /\ CopiedTable(t, s).first = o.first /\ CopiedTable(t, s).last = o.last
        /\ CopiedTable(t, s).count = o.count /\ CopiedTable(t, s).store = s
        /\ CopiedTable(t, s).live
    BY <1>2 DEF CopiedTable, Table
  <2> QED BY <2>1, <2>2 DEF Table
<1>4. Contents(t) = Holding(Elements(heap[o.store], o.first))
  BY <1>2 DEF Contents, Holding
<1> HIDE DEF x
<1>5. x(s) \in Table
  <2> HIDE DEF h
  <2> QED BY <1>1, CommitTyped
<1> HIDE DEF o
<1>6. h \in Store
  BY <1>2, CopyFacts
<1>7. PICK n, q : Listed(n, q, x(s), h) /\ Elements(heap[o.store], o.first) = ElementsOf(n, q, h)
  BY <1>2, <1>3, <1>5, CopyList
<1> HIDE DEF h
<1>8. Contents(t)' = Holding(ElementsOf(n, q, h))
  <2>1. ListOf(n, q, h, x(s).first) /\ \A k \in 1..n : q[k] \in Live(h)
    BY <1>7 DEF Listed, Complete
  <2> QED BY <1>1, <1>3, <1>6, <2>1, CommitContents
<1>9. OthersHold(t)
  BY <1>1, ForeachStartStep, WriteHolds
<1> QED BY <1>4, <1>7, <1>8, <1>9, StayStep

-----------------------------------------------------------------------------
(* What OrderedMap makes of a sequence of n elements.                      *)

LEMMA SequenceOf ==
    ASSUME NEW n \in Nat, NEW W, NEW m \in [1..n -> W]
    PROVE m \in Promise!Seq(W) /\ Promise!Len(m) = n
OBVIOUS

LEMMA WithoutIs ==
    ASSUME NEW n \in Nat, NEW W, NEW m \in [1..n -> W], NEW i \in 1..n
    PROVE /\ Promise!Without(m, i) = Shorter(n, m, i)
          /\ Promise!Without(m, i) \in Promise!Outcomes(m)
<1>1. Promise!Len(m) = n
  BY SequenceOf
<1>2. Promise!Without(m, i) = Shorter(n, m, i)
  BY <1>1 DEF Promise!Without, Shorter
<1>3. i \in DOMAIN m
  OBVIOUS
<1>4. Promise!Without(m, i) \in Promise!Outcomes(m)
  BY <1>3 DEF Promise!Outcomes
<1> QED BY <1>2, <1>4

LEMMA AppendIs ==
    ASSUME NEW n \in Nat, NEW W, NEW m \in [1..n -> W], NEW x \in W
    PROVE Promise!Append(m, x) = Longer(n, m, x)
<1>1. m \in Promise!Seq(W) /\ Promise!Len(m) = n
  BY SequenceOf
<1>2. Promise!Append(m, x) \in Promise!Seq(W) /\ Promise!Len(Promise!Append(m, x)) = n + 1
  BY <1>1
<1>3. \A i \in 1 .. n + 1 : Promise!Append(m, x)[i] = IF i <= n THEN m[i] ELSE x
  BY <1>1
<1>4. Promise!Append(m, x) \in [1 .. n + 1 -> W]
  <2> DEFINE a == Promise!Append(m, x)
  <2> HIDE DEF a
  <2>1. \A c \in Promise!Seq(W) : Promise!Len(c) = n + 1 => c \in [1 .. n + 1 -> W]
    OBVIOUS
  <2>2. a \in Promise!Seq(W) /\ Promise!Len(a) = n + 1
    BY <1>2 DEF a
  <2>3. a \in [1 .. n + 1 -> W]
    BY <2>1, <2>2
  <2> QED BY <2>3 DEF a
<1> QED BY <1>3, <1>4 DEF Longer

LEMMA PrependIs ==
    ASSUME NEW n \in Nat, NEW W, NEW m \in [1..n -> W], NEW x \in W
    PROVE Promise!\o(<<x>>, m) = Pushed(n, m, x)
<1>1. m \in Promise!Seq(W) /\ Promise!Len(m) = n
  BY SequenceOf
<1> QED BY <1>1 DEF Pushed

(* The elements of a list, and those OrderedMap may change them to.        *)
Element == [k : Keys, v : Vals \cup {None}]

LEMMA ElementsType ==
    ASSUME NEW h \in Store, NEW r, NEW n, NEW q, Listed(n, q, r, h)
    PROVE /\ n \in Nat /\ ElementsOf(n, q, h) \in [1..n -> Element]
          /\ \A i \in 1..n : ElementsOf(n, q, h)[i].k = h.cells[q[i]].k /\ q[i] \in Live(h)
<1>1. n \in Nat /\ q \in [1..n -> Slots] /\ \A i \in 1..n : q[i] \in Live(h)
  BY DEF Listed, ListOf, Complete
<1>2. ASSUME NEW i \in 1..n PROVE ElementAt(h, q[i]) \in Element
  <2>1. h.cells[q[i]] \in Cell
    BY <1>1 DEF Store
  <2> QED BY <2>1 DEF Cell, Element, ElementAt
<1>3. \A i \in 1..n : ElementsOf(n, q, h)[i].k = h.cells[q[i]].k
  BY DEF ElementsOf, ElementAt
<1> QED BY <1>1, <1>2, <1>3 DEF ElementsOf

LEMMA ReplaceOutcome ==
    ASSUME NEW e, NEW k \in Keys, NEW v \in Vals, Promise!Has(e, k)
    PROVE Promise!Replaced(e, k, v) \in Promise!Outcomes(e)
<1>1. Promise!Put(e, k, v) = Promise!Replaced(e, k, v)
  BY DEF Promise!Put
<1>2. Promise!Put(e, k, v) \in Promise!Outcomes(e)
  BY DEF Promise!Outcomes, Keys
<1> QED BY <1>1, <1>2

LEMMA AppendOutcome ==
    ASSUME NEW e, NEW k \in Keys, NEW v \in Vals, ~ Promise!Has(e, k)
    PROVE Promise!Append(e, [k |-> k, v |-> v]) \in Promise!Outcomes(e)
<1>1. Promise!Put(e, k, v) = Promise!Append(e, [k |-> k, v |-> v])
  BY DEF Promise!Put
<1>2. Promise!Put(e, k, v) \in Promise!Outcomes(e)
  BY DEF Promise!Outcomes, Keys
<1> QED BY <1>1, <1>2

LEMMA ClearOutcome == \A e : <<>> \in Promise!Outcomes(e)
BY DEF Promise!Outcomes

LEMMA ShiftOutcome ==
    ASSUME NEW e, e # <<>>
    PROVE Promise!Recounted(Promise!Without(e, 1)) \in Promise!Outcomes(e)
BY DEF Promise!Outcomes

LEMMA UnshiftOutcome ==
    ASSUME NEW n \in Nat, NEW e \in [1..n -> Element], NEW v \in Vals
    PROVE Promise!Recounted(Pushed(n, e, [k |-> 0, v |-> v])) \in Promise!Outcomes(e)
<1>1. [k |-> 0, v |-> v] \in Element
  BY BoundsAssumption DEF Element, Keys, IntKeys
<1>2. Promise!\o(<<[k |-> 0, v |-> v]>>, e) = Pushed(n, e, [k |-> 0, v |-> v])
  BY <1>1, PrependIs
<1>3. Promise!Unshifted(e, v) = Promise!Recounted(Promise!\o(<<[k |-> 0, v |-> v]>>, e))
  BY DEF Promise!Unshifted
<1>4. Promise!Unshifted(e, v) \in Promise!Outcomes(e)
  BY DEF Promise!Outcomes
<1> QED BY <1>2, <1>3, <1>4

-----------------------------------------------------------------------------
(* The steps that write elements.                                          *)

LEMMA ChangeCommitted ==
    ASSUME Inv, Inv', Connected, Connected', NEW t \in Tables, tab'[t].live, OthersKept(t),
           NEW s \in Stores, NEW x, x.store = s, NEW g \in Store, Commit(t, s, x, g),
           NEW n, NEW p, ListOf(n, p, g, x.first), \A i \in 1..n : p[i] \in Live(g),
           NEW e, Contents(t) = Holding(e), ElementsOf(n, p, g) \in Promise!Outcomes(e)
    PROVE Promise!Next
<1>1. x.live
  BY DEF Commit, Inv, TypeOK
<1>2. Contents(t)' = Holding(ElementsOf(n, p, g))
  BY <1>1, CommitContents
<1>3. OthersHold(t)
  BY WriteHolds
<1> QED BY <1>2, <1>3, ChangeStep

LEMMA StaysLive == ASSUME Inv, NEW t \in Tables, Write(t), tab[t].live PROVE tab'[t].live
BY WriteLive DEF KeptLive

LEMMA OverwriteShown ==
    ASSUME Inv, Inv', Connected, Connected', NEW t \in Tables, NEW k \in Keys, NEW v \in Vals,
           Overwrite(t, k, v)
    PROVE Promise!Next
<1> DEFINE h == PrivateStore(t)
           g == [h EXCEPT !.cells[h.idx[k]].v = v]
<1>1. PICK s \in Stores : Home(t, s) /\ h.idx[k] # 0 /\ Commit(t, s, Private(t, s), g)
  BY DEF Overwrite
<1>2. tab[t].live /\ tab'[t].live
  <2>1. Write(t)
    BY DEF Write
  <2> QED BY <2>1, StaysLive DEF Overwrite
<1>3. /\ h \in Store /\ Private(t, s) \in Table /\ Private(t, s).store = s
      /\ Linked(Private(t, s), h) /\ IndexedOn(h, Keys)
  BY <1>1, <1>2, HomeFacts
<1>4. PICK n, q : Listed(n, q, Private(t, s), h) /\ Contents(t) = Holding(ElementsOf(n, q, h))
  BY <1>1, <1>2, PrivateList
<1> HIDE DEF h
<1>5. g \in Store
  <2>1. h.idx[k] \in Slots
    BY <1>1, <1>3 DEF Store, Links, Slots
  <2>2. h.cells[h.idx[k]] \in Cell /\ [h.cells[h.idx[k]] EXCEPT !.v = v] \in Cell
    BY <1>3, <2>1 DEF Store, Cell
  <2>3. g = [h EXCEPT !.cells = [h.cells EXCEPT ![h.idx[k]] = [h.cells[h.idx[k]] EXCEPT !.v = v]]]
    BY <1>3 DEF Store
  <2>4. [h.cells EXCEPT ![h.idx[k]] = [h.cells[h.idx[k]] EXCEPT !.v = v]] \in [Slots -> Cell]
    BY <1>3, <2>2 DEF Store
  <2> HIDE DEF g
  <2> QED BY <1>3, <2>3, <2>4 DEF Store
<1> DEFINE r == Private(t, s)
<1>6. r \in Table /\ Linked(r, h) /\ Listed(n, q, r, h)
  BY <1>3, <1>4
<1>7. /\ ListOf(n, q, g, r.first) /\ \A i \in 1..n : q[i] \in Live(g)
      /\ ElementsOf(n, q, g) = Promise!Replaced(ElementsOf(n, q, h), k, v)
      /\ Promise!Has(ElementsOf(n, q, h), k)
  <2> HIDE DEF r
  <2> QED BY <1>1, <1>3, <1>6, OverwriteList
<1>8. ElementsOf(n, q, g) \in Promise!Outcomes(ElementsOf(n, q, h))
  BY <1>7, ReplaceOutcome
<1> HIDE DEF g
<1> QED BY <1>1, <1>2, <1>3, <1>4, <1>5, <1>7, <1>8, OverwriteStep, ChangeCommitted

(* A key that is not indexed is not among the elements.                    *)
LEMMA KeyAbsent ==
    ASSUME NEW h \in Store, IndexedOn(h, Keys), NEW r, NEW n, NEW q, Listed(n, q, r, h),
           NEW k \in Keys, h.idx[k] = 0
    PROVE ~ Promise!Has(ElementsOf(n, q, h), k)
<1>1. /\ ElementsOf(n, q, h) \in [1..n -> Element]
      /\ \A i \in 1..n : ElementsOf(n, q, h)[i].k = h.cells[q[i]].k /\ q[i] \in Live(h)
  BY ElementsType
<1> SUFFICES ASSUME NEW i \in 1..n, h.cells[q[i]].k = k PROVE FALSE
  BY <1>1 DEF Promise!Has
<1>2. q[i] \in Live(h) /\ q[i] # 0
  BY <1>1 DEF Live, Slots
<1> QED BY <1>2 DEF IndexedOn

(* A new last cell in the list is an element appended.                     *)
LEMMA AppendedElements ==
    ASSUME NEW h \in Store, NEW r \in Table, Linked(r, h), IndexedOn(h, Keys),
           NEW n, NEW q, Listed(n, q, r, h), NEW c \in Slots, h.cells[c].st = "free",
           NEW k \in Keys, h.idx[k] = 0, NEW v \in Vals,
           NEW g, g = AppendCell(h, r.last, c, k, v),
           NEW f, f = IF r.last = 0 THEN c ELSE r.first
    PROVE \E p : /\ ListOf(n + 1, p, g, f)
                 /\ \A i \in 1 .. n + 1 : p[i] \in Live(g)
                 /\ ElementsOf(n + 1, p, g) \in Promise!Outcomes(ElementsOf(n, q, h))
<1>1. PICK p : /\ ListOf(n + 1, p, g, f)
               /\ \A i \in 1 .. n + 1 : p[i] \in Live(g)
               /\ ElementsOf(n + 1, p, g) = Longer(n, ElementsOf(n, q, h), [k |-> k, v |-> v])
  BY AppendList
<1> DEFINE e == ElementsOf(n, q, h)
           d == [k |-> k, v |-> v]
<1>2. n \in Nat /\ e \in [1..n -> Element]
  BY ElementsType
<1>3. d \in Element
  BY DEF Element
<1>4. ~ Promise!Has(e, k)
  BY KeyAbsent
<1>5. Promise!Append(e, d) \in Promise!Outcomes(e)
  BY <1>4, AppendOutcome
<1> HIDE DEF e, d
<1>6. Promise!Append(e, d) = Longer(n, e, d)
  BY <1>2, <1>3, AppendIs
<1>7. ElementsOf(n + 1, p, g) = Promise!Append(e, d)
  BY <1>1, <1>6 DEF e, d
<1>8. ElementsOf(n + 1, p, g) \in Promise!Outcomes(e)
  BY <1>5, <1>7
<1> QED BY <1>1, <1>8 DEF e

LEMMA InsertShown ==
    ASSUME Inv, Inv', Connected, Connected', NEW t \in Tables, NEW k \in Keys, NEW v \in Vals,
           Insert(t, k, v)
    PROVE Promise!Next
<1> DEFINE h == PrivateStore(t)
           r(s) == Private(t, s)
           x(s, c) == Advanced(Appended(r(s), s, c), k)
           g(s, c) == AppendCell(h, r(s).last, c, k, v)
<1>1. PICK s \in Stores, c \in Slots :
        Home(t, s) /\ h.idx[k] = 0 /\ FreshSlot(h, c) /\ Commit(t, s, x(s, c), g(s, c))
  BY DEF Insert
<1>2. tab[t].live /\ tab'[t].live
  <2>1. Write(t)
    BY DEF Write
  <2> QED BY <2>1, StaysLive DEF Insert
<1>3. /\ h \in Store /\ r(s) \in Table /\ r(s).store = s
      /\ Linked(r(s), h) /\ IndexedOn(h, Keys) /\ h.cells[c].st = "free"
  BY <1>1, <1>2, HomeFacts DEF FreshSlot
<1>4. PICK n, q : Listed(n, q, r(s), h) /\ Contents(t) = Holding(ElementsOf(n, q, h))
  BY <1>1, <1>2, PrivateList
<1> HIDE DEF r, h
<1>5. x(s, c).first = (IF r(s).last = 0 THEN c ELSE r(s).first) /\ x(s, c).store = s
  BY <1>3, AppendedFields
<1>6. g(s, c) \in Store
  BY <1>3, AppendCellType DEF Table
<1>7. PICK p : /\ ListOf(n + 1, p, g(s, c), x(s, c).first)
               /\ \A i \in 1 .. n + 1 : p[i] \in Live(g(s, c))
               /\ ElementsOf(n + 1, p, g(s, c)) \in Promise!Outcomes(ElementsOf(n, q, h))
  <2> DEFINE w == g(s, c)
             f == x(s, c).first
             o == r(s)
  <2>1. w = AppendCell(h, o.last, c, k, v) /\ f = IF o.last = 0 THEN c ELSE o.first
    BY <1>5
  <2>2. o \in Table /\ Linked(o, h) /\ Listed(n, q, o, h)
    BY <1>3, <1>4
  <2> HIDE DEF w, f, o
  <2>3. \E p : /\ ListOf(n + 1, p, w, f) /\ \A i \in 1 .. n + 1 : p[i] \in Live(w)
               /\ ElementsOf(n + 1, p, w) \in Promise!Outcomes(ElementsOf(n, q, h))
    BY <1>1, <1>3, <2>1, <2>2, AppendedElements
  <2> QED BY <2>3 DEF w, f
<1> HIDE DEF g, x
<1> QED BY <1>1, <1>2, <1>4, <1>5, <1>6, <1>7, InsertStep, ChangeCommitted

LEMMA AppendShown ==
    ASSUME Inv, Inv', Connected, Connected', NEW t \in Tables, NEW v \in Vals, Append(t, v)
    PROVE Promise!Next
<1> DEFINE h == PrivateStore(t)
           r(s) == Private(t, s)
           k(s) == NextKey(r(s), h)
           x(s, c) == [Appended(r(s), s, c) EXCEPT
                         !.inc = IF k(s) < MaxInt THEN k(s) + 1 ELSE k(s)]
           g(s, c) == AppendCell(h, r(s).last, c, k(s), v)
<1>1. PICK s \in Stores, c \in Slots :
        /\ Home(t, s) /\ FreeKeys(r(s), h) # {} /\ FreshSlot(h, c)
        /\ Commit(t, s, x(s, c), g(s, c))
  BY DEF Append
<1>2. tab[t].live /\ tab'[t].live
  <2>1. Write(t)
    BY DEF Write
  <2> QED BY <2>1, StaysLive DEF Append
<1>3. /\ h \in Store /\ r(s) \in Table /\ r(s).store = s
      /\ Linked(r(s), h) /\ IndexedOn(h, Keys) /\ h.cells[c].st = "free"
  BY <1>1, <1>2, HomeFacts DEF FreshSlot
<1>4. PICK n, q : Listed(n, q, r(s), h) /\ Contents(t) = Holding(ElementsOf(n, q, h))
  BY <1>1, <1>2, PrivateList
<1>5. k(s) \in Keys /\ h.idx[k(s)] = 0
  <2>1. k(s) \in FreeKeys(r(s), h)
    BY <1>1, <1>3, NextKeyFree
  <2>2. k(s) \in IntKeys
    BY <1>3, NextKeyType
  <2> QED BY <2>1, <2>2 DEF FreeKeys, Keys
<1> HIDE DEF r, h, k
<1>6. x(s, c).first = (IF r(s).last = 0 THEN c ELSE r(s).first) /\ x(s, c).store = s
  BY <1>3, AppendedFields
<1>7. g(s, c) \in Store
  BY <1>3, <1>5, AppendCellType DEF Table
<1>8. PICK p : /\ ListOf(n + 1, p, g(s, c), x(s, c).first)
               /\ \A i \in 1 .. n + 1 : p[i] \in Live(g(s, c))
               /\ ElementsOf(n + 1, p, g(s, c)) \in Promise!Outcomes(ElementsOf(n, q, h))
  <2> DEFINE w == g(s, c)
             f == x(s, c).first
             o == r(s)
             j == k(s)
  <2>1. w = AppendCell(h, o.last, c, j, v) /\ f = IF o.last = 0 THEN c ELSE o.first
    BY <1>6
  <2>2. o \in Table /\ Linked(o, h) /\ Listed(n, q, o, h) /\ j \in Keys /\ h.idx[j] = 0
    BY <1>3, <1>4, <1>5
  <2> HIDE DEF w, f, o, j
  <2>3. \E p : /\ ListOf(n + 1, p, w, f) /\ \A i \in 1 .. n + 1 : p[i] \in Live(w)
               /\ ElementsOf(n + 1, p, w) \in Promise!Outcomes(ElementsOf(n, q, h))
    BY <1>3, <2>1, <2>2, AppendedElements
  <2> QED BY <2>3 DEF w, f
<1> HIDE DEF g, x
<1> QED BY <1>1, <1>2, <1>4, <1>6, <1>7, <1>8, AppendStep, ChangeCommitted

(* A cell unlinked is an element unset.                                    *)
LEMMA UnlinkedElements ==
    ASSUME NEW h \in Store, NEW r \in Table, Linked(r, h), NEW n, NEW q, Listed(n, q, r, h),
           NEW c \in Live(h), NEW g, g = UnlinkCell(h, c),
           NEW f, f = IF r.first = c THEN h.cells[c].next ELSE r.first
    PROVE \E m, p : /\ ListOf(m, p, g, f)
                    /\ \A i \in 1..m : p[i] \in Live(g)
                    /\ ElementsOf(m, p, g) \in Promise!Outcomes(ElementsOf(n, q, h))
<1>1. PICK i \in 1..n : q[i] = c
  BY DEF Listed, Complete
<1> DEFINE p == Shorter(n, q, i)
           e == ElementsOf(n, q, h)
<1>2. /\ ListOf(n - 1, p, g, f)
      /\ \A j \in 1 .. n - 1 : p[j] \in Live(g)
      /\ ElementsOf(n - 1, p, g) = Shorter(n, e, i)
  BY <1>1, UnlinkList
<1>3. n \in Nat /\ e \in [1..n -> Element]
  BY ElementsType
<1> HIDE DEF p, e
<1>4. Shorter(n, e, i) \in Promise!Outcomes(e)
  BY <1>3, WithoutIs
<1> QED BY <1>2, <1>4 DEF e

LEMMA UnsetShown ==
    ASSUME Inv, Inv', Connected, Connected', NEW t \in Tables, NEW k \in Keys, Unset(t, k)
    PROVE Promise!Next
<1> DEFINE h == PrivateStore(t)
           r(s) == Private(t, s)
           c == h.idx[k]
           x(s) == Unlinked(r(s), h, c)
           g == UnlinkCell(h, c)
<1>1. PICK s \in Stores : Home(t, s) /\ c # 0 /\ Commit(t, s, x(s), g)
  BY DEF Unset
<1>2. tab[t].live /\ tab'[t].live
  <2>1. Write(t)
    BY DEF Write
  <2> QED BY <2>1, StaysLive DEF Unset
<1>3. /\ h \in Store /\ r(s) \in Table /\ r(s).store = s
      /\ Linked(r(s), h) /\ IndexedOn(h, Keys)
  BY <1>1, <1>2, HomeFacts
<1>4. PICK n, q : Listed(n, q, r(s), h) /\ Contents(t) = Holding(ElementsOf(n, q, h))
  BY <1>1, <1>2, PrivateList
<1>5. c \in Live(h) /\ c \in Slots
  BY <1>1, <1>3 DEF IndexedOn, Live
<1> HIDE DEF r, h, c
<1>6. /\ x(s).first = IF r(s).first = c THEN h.cells[c].next ELSE r(s).first
      /\ x(s).store = s
  BY <1>3, <1>5, UnlinkedFields
<1>7. g \in Store
  BY <1>3, <1>5, UnlinkCellType
<1>8. PICK m, p : /\ ListOf(m, p, g, x(s).first)
                  /\ \A i \in 1..m : p[i] \in Live(g)
                  /\ ElementsOf(m, p, g) \in Promise!Outcomes(ElementsOf(n, q, h))
  <2> DEFINE o == r(s)
             f == x(s).first
  <2>1. o \in Table /\ Linked(o, h) /\ Listed(n, q, o, h)
        /\ f = IF o.first = c THEN h.cells[c].next ELSE o.first
    BY <1>3, <1>4, <1>6
  <2>2. g = UnlinkCell(h, c)
    OBVIOUS
  <2> HIDE DEF o, f, g
  <2>3. \E m, p : /\ ListOf(m, p, g, f) /\ \A i \in 1..m : p[i] \in Live(g)
                  /\ ElementsOf(m, p, g) \in Promise!Outcomes(ElementsOf(n, q, h))
    BY <1>3, <1>5, <2>1, <2>2, UnlinkedElements
  <2> QED BY <2>3 DEF f
<1> HIDE DEF g, x
<1> QED BY <1>1, <1>2, <1>4, <1>6, <1>7, <1>8, UnsetStep, ChangeCommitted

LEMMA ArrayPopShown ==
    ASSUME Inv, Inv', Connected, Connected', NEW t \in Tables, ArrayPop(t)
    PROVE Promise!Next
<1> DEFINE h == PrivateStore(t)
           r(s) == Private(t, s)
           u(s, c) == Unlinked(r(s), h, c)
           w(s, c) == SteppedBack(u(s, c), h.cells[c].k)
           x(s, c) == [w(s, c) EXCEPT !.main = At(s, u(s, c).first)]
           g(c) == UnlinkCell(h, c)
<1>1. PICK s \in Stores, c \in Slots :
        /\ Home(t, s) /\ Commit(t, s, x(s, c), g(c))
        /\ \E z \in Chain(h, r(s).first) : c = h.idx[h.cells[z].k]
  BY DEF ArrayPop
<1>2. tab[t].live /\ tab'[t].live
  <2>1. Write(t)
    BY DEF Write
  <2> QED BY <2>1, StaysLive DEF ArrayPop
<1>3. /\ h \in Store /\ r(s) \in Table /\ r(s).store = s
      /\ Linked(r(s), h) /\ IndexedOn(h, Keys)
  BY <1>1, <1>2, HomeFacts
<1>4. PICK n, q : Listed(n, q, r(s), h) /\ Contents(t) = Holding(ElementsOf(n, q, h))
  BY <1>1, <1>2, PrivateList
<1> HIDE DEF r, h
<1>5. c \in Live(h)
  <2>1. PICK z \in Chain(h, r(s).first) : c = h.idx[h.cells[z].k]
    BY <1>1
  <2>2. z \in Live(h) /\ z \in Slots
    BY <1>3, WalkIsLive, LiveFacts DEF Linked
  <2>3. h.cells[z].k \in Keys
    BY <1>3, <2>2, LinkTypes
  <2>4. h.idx[h.cells[z].k] = z
    BY <1>3, <2>2, <2>3 DEF IndexedOn
  <2> QED BY <2>1, <2>2, <2>4
<1>6. /\ u(s, c) \in Table
      /\ u(s, c).first = IF r(s).first = c THEN h.cells[c].next ELSE r(s).first
      /\ u(s, c).store = s
  BY <1>3, UnlinkedFields
<1> HIDE DEF u
<1>7. x(s, c).first = u(s, c).first /\ x(s, c).store = s
  <2>1. w(s, c) = u(s, c) \/ \E y : w(s, c) = [u(s, c) EXCEPT !.inc = y]
    BY DEF SteppedBack
  <2>2. /\ w(s, c).first = u(s, c).first /\ w(s, c).store = s
        /\ DOMAIN w(s, c) = DOMAIN u(s, c)
    <3> HIDE DEF w
    <3> QED BY <1>6, <2>1 DEF Table
  <2> HIDE DEF w
  <2> QED BY <1>6, <2>2
<1> HIDE DEF w, x
<1>8. g(c) \in Store
  BY <1>3, UnlinkCellType
<1>9. PICK m, p : /\ ListOf(m, p, g(c), x(s, c).first)
                  /\ \A i \in 1..m : p[i] \in Live(g(c))
                  /\ ElementsOf(m, p, g(c)) \in Promise!Outcomes(ElementsOf(n, q, h))
  <2> DEFINE o == r(s)
             f == x(s, c).first
             y == g(c)
  <2>1. o \in Table /\ Linked(o, h) /\ Listed(n, q, o, h)
        /\ f = IF o.first = c THEN h.cells[c].next ELSE o.first
    BY <1>3, <1>4, <1>6, <1>7
  <2>2. y = UnlinkCell(h, c)
    OBVIOUS
  <2> HIDE DEF o, f, y
  <2>3. \E m, p : /\ ListOf(m, p, y, f) /\ \A i \in 1..m : p[i] \in Live(y)
                  /\ ElementsOf(m, p, y) \in Promise!Outcomes(ElementsOf(n, q, h))
    BY <1>3, <1>5, <2>1, <2>2, UnlinkedElements
  <2> QED BY <2>3 DEF f, y
<1> HIDE DEF g
<1> QED BY <1>1, <1>2, <1>4, <1>7, <1>8, <1>9, ArrayPopStep, ChangeCommitted

LEMMA ClearShown ==
    ASSUME Inv, Inv', Connected, Connected', NEW t \in Tables, Clear(t)
    PROVE Promise!Next
<1> DEFINE h == PrivateStore(t)
           r(s) == Private(t, s)
           x(s) == [r(s) EXCEPT !.count = 0, !.inc = 0, !.incInit = FALSE,
                                !.first = 0, !.last = 0, !.main = PastEnd]
           indexed == {h.idx[k] : k \in Keys}
           cell(m) == IF m \notin indexed THEN h.cells[m]
                      ELSE [h.cells[m] EXCEPT !.st = "dead", !.k = 0, !.v = None]
           g == [cells |-> [m \in Slots |-> cell(m)], idx |-> [k \in Keys |-> 0]]
<1>1. PICK s \in Stores : Home(t, s) /\ Commit(t, s, x(s), g)
  BY DEF Clear
<1>2. tab[t].live /\ tab'[t].live
  <2>1. Write(t)
    BY DEF Write
  <2> QED BY <2>1, StaysLive DEF Clear
<1>3. h \in Store /\ r(s) \in Table /\ r(s).store = s
  BY <1>1, <1>2, HomeFacts
<1>4. PICK n, q : Contents(t) = Holding(ElementsOf(n, q, h))
  BY <1>1, <1>2, PrivateList
<1> HIDE DEF r
<1>5. x(s).first = 0 /\ x(s).store = s
  BY <1>3 DEF Table
<1> HIDE DEF x, h
<1>6. g \in Store
  <2>1. 0 \in Links
    BY BoundsAssumption DEF Links
  <2>2. ASSUME NEW m \in Slots PROVE cell(m) \in Cell
    <3>1. h.cells[m] \in Cell
      BY <1>3 DEF Store
    <3>2. [h.cells[m] EXCEPT !.st = "dead", !.k = 0, !.v = None] \in Cell
      BY <3>1, DeadCell
    <3> QED BY <3>1, <3>2
  <2> HIDE DEF cell
  <2> QED BY <2>1, <2>2 DEF Store
<1> HIDE DEF g
<1>7. PICK p : p = [i \in 1..0 |-> 1]
  OBVIOUS
<1>8. ListOf(0, p, g, x(s).first) /\ \A i \in 1..0 : p[i] \in Live(g)
  BY <1>5, <1>7 DEF ListOf
<1>9. ElementsOf(0, p, g) = <<>>
  BY DEF ElementsOf
<1>10. ElementsOf(0, p, g) \in Promise!Outcomes(ElementsOf(n, q, h))
  BY <1>9, ClearOutcome
<1> QED BY <1>1, <1>2, <1>4, <1>5, <1>6, <1>8, <1>10, ClearStep, ChangeCommitted

(* The first cell unlinked and the rest renumbered.                        *)
LEMMA ShiftedElements ==
    ASSUME NEW h \in Store, NEW r \in Table, Linked(r, h), IndexedOn(h, Keys), Closed(h),
           NEW n, NEW q, Listed(n, q, r, h), NEW c \in Live(h), c = r.first,
           NEW y \in Table, y.count = r.count - 1,
           y.first = IF r.first = c THEN h.cells[c].next ELSE r.first,
           y.last = IF r.last = c THEN h.cells[c].prev ELSE r.last,
           NEW g, g = Renumber(UnlinkCell(h, c), y.first)
    PROVE \E m, p : /\ ListOf(m, p, g, y.first)
                    /\ \A i \in 1..m : p[i] \in Live(g)
                    /\ ElementsOf(m, p, g) \in Promise!Outcomes(ElementsOf(n, q, h))
<1> DEFINE x == UnlinkCell(h, c)
           p == Shorter(n, q, 1)
           e == ElementsOf(n, q, h)
           f == y.first
<1>1. n \in Nat /\ e \in [1..n -> Element]
  BY ElementsType
<1>2. 1 \in 1..n /\ q[1] = c
  <2>1. n # 0 /\ r.first = q[1]
    BY LiveFacts DEF Listed, ListOf
  <2> QED BY <1>1, <2>1
<1>3. x \in Store
  BY UnlinkCellType DEF Live
<1>4. Linked(y, x)
  BY UnlinkLinked
<1>5. f = IF r.first = q[1] THEN h.cells[q[1]].next ELSE r.first
  BY <1>2
<1>6. x = UnlinkCell(h, q[1]) /\ g = Renumber(x, f)
  BY <1>2
<1> HIDE DEF x, e
<1>7. ListOf(n - 1, p, x, f) /\ ElementsOf(n - 1, p, x) = Shorter(n, e, 1)
  <2> HIDE DEF p, f
  <2> QED BY <1>2, <1>5, <1>6, UnlinkList DEF p, e
<1> HIDE DEF p
<1>8. Listed(n - 1, p, y, x)
  BY <1>3, <1>4, <1>7, ListIsListed
<1>9. /\ ListOf(n - 1, p, g, f) /\ \A i \in 1 .. n - 1 : p[i] \in Live(g)
      /\ ElementsOf(n - 1, p, g) = Promise!Recounted(ElementsOf(n - 1, p, x))
  BY <1>3, <1>4, <1>6, <1>8, RenumberList
<1>10. Promise!Without(e, 1) = Shorter(n, e, 1)
  BY <1>1, <1>2, WithoutIs
<1>11. e # <<>>
  BY <1>1, <1>2
<1>12. ElementsOf(n - 1, p, g) \in Promise!Outcomes(e)
  BY <1>7, <1>9, <1>10, <1>11, ShiftOutcome
<1> QED BY <1>9, <1>12 DEF e

LEMMA ArrayShiftShown ==
    ASSUME Inv, Inv', Connected, Connected', NEW t \in Tables, ArrayShift(t)
    PROVE Promise!Next
<1> DEFINE h == PrivateStore(t)
           r(s) == Private(t, s)
           c(s) == r(s).first
           h1(s) == UnlinkCell(h, c(s))
           y(s) == Unlinked(r(s), h, c(s))
           x(s) == [Renumbered(y(s), h1(s)) EXCEPT !.main = At(s, y(s).first)]
           g(s) == Renumber(h1(s), y(s).first)
<1>1. PICK s \in Stores : Home(t, s) /\ c(s) # 0 /\ Commit(t, s, x(s), g(s))
  BY DEF ArrayShift
<1>2. tab[t].live /\ tab'[t].live
  <2>1. Write(t)
    BY DEF Write
  <2> QED BY <2>1, StaysLive DEF ArrayShift
<1>3. /\ h \in Store /\ r(s) \in Table /\ r(s).store = s
      /\ Linked(r(s), h) /\ IndexedOn(h, Keys) /\ Closed(h)
  BY <1>1, <1>2, HomeFacts
<1>4. PICK n, q : Listed(n, q, r(s), h) /\ Contents(t) = Holding(ElementsOf(n, q, h))
  BY <1>1, <1>2, PrivateList
<1>5. c(s) \in Live(h) /\ c(s) \in Slots /\ c(s) = r(s).first
  BY <1>1, <1>3 DEF Linked, LinksAgree, Live
<1> HIDE DEF r, h, c
<1>6. /\ y(s) \in Table /\ y(s).count = r(s).count - 1
      /\ y(s).first = IF r(s).first = c(s) THEN h.cells[c(s)].next ELSE r(s).first
      /\ y(s).last = IF r(s).last = c(s) THEN h.cells[c(s)].prev ELSE r(s).last
      /\ y(s).store = s
  BY <1>3, <1>5, UnlinkedFields
<1> HIDE DEF y
<1>7. g(s) \in Store
  BY <1>3, <1>5, UnlinkCellType, RenumberType
<1>8. x(s).first = y(s).first /\ x(s).store = s
  BY <1>6, RenumberedFields
<1>9. PICK m, p : /\ ListOf(m, p, g(s), x(s).first)
                  /\ \A i \in 1..m : p[i] \in Live(g(s))
                  /\ ElementsOf(m, p, g(s)) \in Promise!Outcomes(ElementsOf(n, q, h))
  <2> DEFINE o == r(s)
             z == y(s)
             d == c(s)
             w == g(s)
  <2>1. /\ o \in Table /\ Linked(o, h) /\ Listed(n, q, o, h) /\ d \in Live(h) /\ d = o.first
        /\ z \in Table /\ z.count = o.count - 1
        /\ z.first = IF o.first = d THEN h.cells[d].next ELSE o.first
        /\ z.last = IF o.last = d THEN h.cells[d].prev ELSE o.last
    BY <1>3, <1>4, <1>5, <1>6
  <2>2. w = Renumber(UnlinkCell(h, d), z.first)
    OBVIOUS
  <2> HIDE DEF o, z, d, w
  <2>3. \E m, p : /\ ListOf(m, p, w, z.first) /\ \A i \in 1..m : p[i] \in Live(w)
                  /\ ElementsOf(m, p, w) \in Promise!Outcomes(ElementsOf(n, q, h))
    BY <1>3, <2>1, <2>2, ShiftedElements
  <2>4. z.first = x(s).first
    BY <1>8 DEF z
  <2> QED BY <2>3, <2>4 DEF w
<1> HIDE DEF g, x
<1> QED BY <1>1, <1>2, <1>4, <1>7, <1>8, <1>9, ArrayShiftStep, ChangeCommitted

(* A cell pushed in front and the whole list renumbered.                   *)
LEMMA UnshiftedElements ==
    ASSUME NEW h \in Store, NEW r \in Table, Linked(r, h), IndexedOn(h, Keys), Closed(h),
           NEW n, NEW q, Listed(n, q, r, h), NEW c \in Slots, h.cells[c].st = "free",
           NEW v \in Vals, NEW x \in Store, x.idx = h.idx, InFront(h, r.first, c, v, x),
           NEW y \in Table, y.count = r.count + 1, y.first = c,
           r.first = 0 => y.last = c, r.first # 0 => y.last = r.last,
           NEW g, g = Renumber(x, c)
    PROVE \E p : /\ ListOf(n + 1, p, g, c)
                 /\ \A i \in 1 .. n + 1 : p[i] \in Live(g)
                 /\ ElementsOf(n + 1, p, g) \in Promise!Outcomes(ElementsOf(n, q, h))
<1> DEFINE e == ElementsOf(n, q, h)
<1>1. n \in Nat /\ e \in [1..n -> Element]
  BY ElementsType
<1>2. PICK p : ListOf(n + 1, p, x, c) /\ ElementsOf(n + 1, p, x) = Pushed(n, e, [k |-> 0, v |-> v])
  BY PushList, SMTT(60)
<1>3. Linked(y, x)
  BY PushFrontLinked
<1> HIDE DEF e
<1>4. Listed(n + 1, p, y, x)
  BY <1>2, <1>3, ListIsListed
<1>5. /\ ListOf(n + 1, p, g, c) /\ \A i \in 1 .. n + 1 : p[i] \in Live(g)
      /\ ElementsOf(n + 1, p, g) = Promise!Recounted(ElementsOf(n + 1, p, x))
  BY <1>3, <1>4, RenumberList
<1>6. ElementsOf(n + 1, p, g) \in Promise!Outcomes(e)
  BY <1>1, <1>2, <1>5, UnshiftOutcome
<1> QED BY <1>5, <1>6 DEF e

LEMMA ArrayUnshiftShown ==
    ASSUME Inv, Inv', Connected, Connected', NEW t \in Tables, NEW v \in Vals,
           ArrayUnshift(t, v)
    PROVE Promise!Next
<1> DEFINE h == PrivateStore(t)
           r(s) == Private(t, s)
           cell(s, c, m) == CASE m = c -> [prev |-> 0, next |-> r(s).first, k |-> 0, v |-> v,
                                           st |-> "live"]
                              [] m = r(s).first /\ m # c -> [h.cells[m] EXCEPT !.prev = c]
                              [] OTHER -> h.cells[m]
           h1(s, c) == [h EXCEPT !.cells = [m \in Slots |-> cell(s, c, m)]]
           y(s, c) == [r(s) EXCEPT !.count = @ + 1, !.first = c,
                                   !.last = IF r(s).first = 0 THEN c ELSE @]
           x(s, c) == Renumbered(y(s, c), h1(s, c))
           g(s, c) == Renumber(h1(s, c), c)
<1>1. PICK s \in Stores, c \in Slots :
        Home(t, s) /\ FreshSlot(h, c) /\ Commit(t, s, x(s, c), g(s, c))
  BY DEF ArrayUnshift
<1>2. tab[t].live /\ tab'[t].live /\ h.cells[c].st = "free"
  <2>1. Write(t)
    BY DEF Write
  <2> QED BY <1>1, <2>1, StaysLive DEF ArrayUnshift, FreshSlot
<1>3. /\ h \in Store /\ r(s) \in Table /\ r(s).store = s
      /\ Linked(r(s), h) /\ IndexedOn(h, Keys) /\ Closed(h)
  BY <1>1, <1>2, HomeFacts
<1>4. PICK n, q : Listed(n, q, r(s), h) /\ Contents(t) = Holding(ElementsOf(n, q, h))
  BY <1>1, <1>2, PrivateList
<1> HIDE DEF r, h
<1>5. c \in Links /\ 0 \in Links /\ 0 \in Keys
  BY BoundsAssumption DEF Links, Slots, Keys, IntKeys
<1>6. h1(s, c) \in Store /\ h1(s, c).idx = h.idx
      /\ \A m \in Slots : h1(s, c).cells[m] = cell(s, c, m)
  <2>1. \A m \in Slots : cell(s, c, m) \in Cell
    <3> TAKE m \in Slots
    <3>1. h.cells[m] \in Cell /\ [h.cells[m] EXCEPT !.prev = c] \in Cell
      BY <1>3, <1>5 DEF Store, Cell
    <3>2. [prev |-> 0, next |-> r(s).first, k |-> 0, v |-> v, st |-> "live"] \in Cell
      BY <1>3, <1>5 DEF Table, Cell
    <3> QED BY <3>1, <3>2
  <2> HIDE DEF cell
  <2> QED BY <1>3, <2>1 DEF Store
<1>7. /\ y(s, c).count = r(s).count + 1 /\ y(s, c).first = c
      /\ y(s, c).last = IF r(s).first = 0 THEN c ELSE r(s).last
      /\ y(s, c).store = s
  BY <1>3 DEF Table
<1>8. y(s, c) \in Table
  <2>1. r(s).count + 1 \in Int /\ (IF r(s).first = 0 THEN c ELSE r(s).last) \in Links
    BY <1>3, <1>5 DEF Table
  <2> QED BY <1>3, <1>5, <2>1 DEF Table
<1> HIDE DEF h1, y
<1>9. InFront(h, r(s).first, c, v, h1(s, c))
  BY <1>6 DEF InFront
<1> HIDE DEF cell
<1>10. PICK p : /\ ListOf(n + 1, p, g(s, c), c)
                /\ \A i \in 1 .. n + 1 : p[i] \in Live(g(s, c))
                /\ ElementsOf(n + 1, p, g(s, c)) \in Promise!Outcomes(ElementsOf(n, q, h))
  <2> HIDE DEF x
  <2> DEFINE o == r(s)
             z == h1(s, c)
             d == y(s, c)
             w == g(s, c)
  <2>1. /\ z \in Store /\ z.idx = h.idx /\ d \in Table
        /\ d.count = o.count + 1 /\ d.first = c
        /\ o.first = 0 => d.last = c
        /\ o.first # 0 => d.last = o.last
    BY <1>6, <1>7, <1>8
  <2>2. o \in Table /\ Linked(o, h) /\ Listed(n, q, o, h) /\ InFront(h, o.first, c, v, z)
    BY <1>3, <1>4, <1>9
  <2>3. w = Renumber(z, c)
    OBVIOUS
  <2> HIDE DEF o, z, d, w
  <2>4. \E p : /\ ListOf(n + 1, p, w, c) /\ \A i \in 1 .. n + 1 : p[i] \in Live(w)
               /\ ElementsOf(n + 1, p, w) \in Promise!Outcomes(ElementsOf(n, q, h))
    BY <1>2, <1>3, <2>1, <2>2, <2>3, UnshiftedElements
  <2> QED BY <2>4 DEF w
<1>11. g(s, c) \in Store
  BY <1>6, RenumberType
<1>12. x(s, c).first = c /\ x(s, c).store = s
  BY <1>7, <1>8, RenumberedFields
<1> HIDE DEF g, x
<1> QED BY <1>1, <1>2, <1>4, <1>10, <1>11, <1>12, ArrayUnshiftStep, ChangeCommitted

-----------------------------------------------------------------------------
(* Every step of HashTable, and the specification.                         *)

LEMMA WriteShown ==
    ASSUME Inv, Inv', Connected, Connected', NEW t \in Tables, Write(t)
    PROVE Promise!Next \/ UNCHANGED Maps
<1>1. CASE Separate(t) \/ AppendRefused(t)
  BY <1>1, SeparateShown, AppendRefusedShown
<1>2. CASE Clear(t) \/ ArrayShift(t) \/ ArrayPop(t) \/ \E k \in Keys : Unset(t, k)
  BY <1>2, ClearShown, ArrayShiftShown, ArrayPopShown, UnsetShown
<1>3. CASE \E k \in Keys, v \in Vals : Overwrite(t, k, v) \/ Insert(t, k, v)
  BY <1>3, OverwriteShown, InsertShown
<1>4. CASE \E v \in Vals : Append(t, v) \/ ArrayUnshift(t, v)
  BY <1>4, AppendShown, ArrayUnshiftShown
<1> QED BY <1>1, <1>2, <1>3, <1>4 DEF Write

LEMMA NextShown ==
    ASSUME Inv, Inv', Connected, Connected', Next PROVE Promise!Next \/ UNCHANGED Maps
<1>1. CASE \E t \in Tables : New(t) \/ Drop(t) \/ Write(t) \/ Move(t)
  BY <1>1, NewShown, DropShown, WriteShown, MoveShown
<1>2. CASE \E t, u \in Tables : Dup(t, u) \/ DeepCopy(t, u)
  BY <1>2, DupShown, DeepCopyShown
<1>3. CASE \E t \in Tables, i \in Iters : ForeachStart(t, i)
  BY <1>3, ForeachStartShown
<1>4. CASE \E i \in Iters : ForeachNext(i) \/ ForeachEnd(i)
  BY <1>4, ForeachTurnShown
<1> QED BY <1>1, <1>2, <1>3, <1>4 DEF Next

LEMMA InitShown == Init => Promise!Init
<1> SUFFICES ASSUME Init PROVE Promise!Init
  OBVIOUS
<1>1. \A t \in Tables : Contents(t) = [live |-> FALSE, elems |-> <<>>]
  BY DEF Init, NoTable, Contents
<1> QED BY <1>1 DEF Promise!Init, Promise!Gone

LEMMA StutterShown == UNCHANGED vars => UNCHANGED Maps
<1> SUFFICES ASSUME UNCHANGED vars PROVE \A t \in Tables : Contents(t)' = Contents(t)
  BY DEF Maps
<1> QED BY DEF vars, Contents

(* What the arrays of a program hold changes as ordered maps do: writes    *)
(* that separate, share, unlink, renumber or search for a free key show    *)
(* through one table only, and there as the operation that was asked for   *)
(* (ZHashTable, core/phpv/hashtable.go; array_shift, array_unshift and     *)
(* array_pop, ext/standard/array.go).                                      *)
THEOREM ArraysKeepOrder == Spec => ImplementsOrderedMap
<1>1. Inv /\ Inv' /\ Connected /\ Connected' /\ [Next]_vars => Promise!Next \/ UNCHANGED Maps
  BY NextShown, StutterShown
<1>2. Inv /\ Inv' /\ Connected /\ Connected' /\ [Next]_vars
        => [Promise!Next]_[t \in Tables |-> Contents(t)]
  BY <1>1 DEF Maps
<1> QED BY InitShown, ConnectedHolds, <1>2, PTL DEF Spec, ImplementsOrderedMap, Promise!Spec
=============================================================================
