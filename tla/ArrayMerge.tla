----------------------------- MODULE ArrayMerge ------------------------------
(* array_merge over the tables of HashTable: Dup of the first argument,    *)
(* MergeTable of every further one, then Reset (ext/standard/array.go).    *)
EXTENDS HashTable

CONSTANT Arities    \* the numbers of arguments array_merge is called with

ASSUME AritiesAssumption == Arities \subseteq {1, 2}

(* ZArray.Reset: integer keys renumbered, main iterator to the front.      *)
Reset(r, h) == [Renumbered(r, h) EXCEPT !.main = At(r.store, r.first)]

(* Mutants of Attached: count is left alone; an empty table stays empty.   *)
AttachedUncounted(r, n) == [r EXCEPT !.last = n, !.first = IF r.last = 0 THEN n ELSE @]
AttachedToLast(r, n) == [r EXCEPT !.count = @ + 1, !.last = n]

(* One turn of MergeTable's loop with a cell of the other table: integer   *)
(* keys are appended under inc, a known string key takes the new value, a  *)
(* new one is linked in without an entry in the index.                     *)
Attached(r, n) ==
    [r EXCEPT !.count = @ + 1, !.last = n, !.first = IF r.last = 0 THEN n ELSE @]

MergeCell(p, c) ==
    LET n == CHOOSE m \in Slots : FreshSlot(p.h, m)
        r == Attached(p.r, n)
        at(k) == AppendCell(p.h, p.r.last, n, k, c.v)
    IN  IF c.k \in IntKeys
        THEN [r |-> [r EXCEPT !.inc = Succ(@)], h |-> at(p.r.inc)]
        ELSE IF p.h.idx[c.k] # 0
        THEN [r |-> p.r, h |-> [p.h EXCEPT !.cells[p.h.idx[c.k]].v = c.v]]
        ELSE [r |-> r, h |-> [at(c.k) EXCEPT !.idx = p.h.idx]]

MergeTable(r, h, w) ==
    LET W == Walk(heap[tab[w].store], tab[w].first)
        Merged[i \in 0..MaxSlots] ==
          IF i = 0 THEN [r |-> r, h |-> h]
          ELSE LET p == Merged[i - 1]
               IN  IF W[i - 1] = 0 THEN p
                   ELSE MergeCell(p, heap[tab[w].store].cells[W[i - 1]])
    IN  Merged[MaxSlots]

(* array_merge($t): the Dup is renumbered as it is.                        *)
MergeOne(t, u) ==
    /\ 1 \in Arities
    /\ tab[t].live /\ ~ tab[u].live
    /\ UNCHANGED its
    /\ LET r == [tab[t] EXCEPT !.cow = TRUE, !.incInit = FALSE]
           h == heap[tab[t].store]
       IN  /\ tab' = [tab EXCEPT ![t].cow = TRUE, ![u] = Reset(r, h)]
           /\ heap' = Collected([heap EXCEPT ![r.store] = Renumber(h, r.first)])

(* Mutant of MergeTwo: MergeTable does not look at cow.                    *)
MergeTwoUnseparated(t, w, u) ==
    /\ tab[t].live /\ tab[w].live /\ ~ tab[u].live
    /\ tab[t].count + tab[w].count <= MaxSlots
    /\ UNCHANGED its
    /\ LET p == MergeTable([tab[t] EXCEPT !.cow = TRUE, !.incInit = FALSE],
                           heap[tab[t].store], w)
       IN  /\ tab' = [tab EXCEPT ![t].cow = TRUE, ![u] = Reset(p.r, p.h)]
           /\ heap' = Collected([heap EXCEPT ![tab[t].store] = Renumber(p.h, p.r.first)])

(* array_merge($t, $w): MergeTable separates the Dup before it adds to it. *)
MergeTwo(t, w, u) ==
    /\ 2 \in Arities
    /\ tab[t].live /\ tab[w].live /\ ~ tab[u].live
    /\ tab[t].count + tab[w].count <= MaxSlots
    /\ UNCHANGED its
    /\ \E s \in Stores :
         /\ NewStore(s)
         /\ LET p == MergeTable([CopiedTable(t, s) EXCEPT !.incInit = FALSE],
                                Copy(heap[tab[t].store], tab[t].first), w)
            IN  /\ tab' = [tab EXCEPT ![t].cow = TRUE, ![u] = Reset(p.r, p.h)]
                /\ heap' = Collected([heap EXCEPT ![s] = Renumber(p.h, p.r.first)])

ArrayMerge(u) == \E t, w \in Tables : MergeOne(t, u) \/ MergeTwo(t, w, u)

MergeSpec == Init /\ [][Next \/ \E u \in Tables : ArrayMerge(u)]_vars

(* The arrays array_merge is right about: $w brings no string key that $t  *)
(* does not have.  A new one is listed but not indexed (MergeTable).       *)
KeysOf(t) == LET h == heap[tab[t].store]
             IN  {h.cells[n].k : n \in Chain(h, tab[t].first)}
IsList(t) == KeysOf(t) \subseteq IntKeys
NoNewStrings(t, w) == KeysOf(w) \subseteq IntKeys \cup KeysOf(t)

MergeSafely(t, w, u) == MergeTwo(t, w, u) /\ NoNewStrings(t, w)
SafeMergeSpec == Init /\ [][Next \/ \E t, w, u \in Tables : MergeSafely(t, w, u)]_vars

(* array_merge works on "a copy of array": the arguments, and every other  *)
(* array of the program, hold afterwards what they held before.            *)
ArgumentsUntouched ==
    [][\A u \in Tables : ArrayMerge(u) =>
         \A t \in Tables : tab[t].live => View(t)' = View(t)]_vars

(* array_merge($t, $w) of two arrays without string keys is the list of    *)
(* the values of $t followed by those of $w, with the keys 0, 1, ...       *)
Value(t, i) == Contents(t).elems[i].v
MergesInOrder ==
    [][\A t, w, u \in Tables : MergeTwo(t, w, u) /\ IsList(t) /\ IsList(w) =>
         LET n == tab[t].count
         IN  Contents(u)'.elems =
               [i \in 1..(n + tab[w].count) |->
                  [k |-> i - 1, v |-> IF i <= n THEN Value(t, i) ELSE Value(w, i - n)]]]_vars
=============================================================================
