----------------------------- MODULE MCHashTable -----------------------------
(* What TLC needs to check HashTable: constants a .cfg file cannot write,  *)
(* symmetry, and a specification for loops over longer tables.             *)
EXTENDS HashTable, TLC

MCMinInt == -1

(* Tables are interchangeable, and so are values.                          *)
MCSymmetry == Permutations(Tables) \cup Permutations(Vals)

(* Arrays used as lists: the explicit keys of Insert are left out, so that *)
(* lists of three cells with every pattern of deletions stay in reach.     *)
LoopNext ==
    \/ \E t \in Tables : \/ New(t) \/ Move(t)
                         \/ Clear(t) \/ ArrayShift(t) \/ ArrayPop(t)
                         \/ \E k \in Keys : Unset(t, k)
                         \/ \E v \in Vals : Append(t, v) \/ ArrayUnshift(t, v)
    \/ \E t \in Tables, i \in Iters : ForeachStart(t, i)
    \/ \E i \in Iters : ForeachNext(i) \/ ForeachEnd(i)

LoopSpec == Init /\ [][LoopNext]_vars

(* Everything but the moves of array pointers, which contents do not show. *)
ContentNext ==
    \/ \E t \in Tables : New(t) \/ Drop(t) \/ Write(t)
    \/ \E t, u \in Tables : Dup(t, u) \/ DeepCopy(t, u)

ContentSpec == Init /\ [][ContentNext]_vars

(* Explicit keys only: array literals and assignments $t[k] = v.           *)
ExplicitNext ==
    \/ \E t \in Tables : New(t) \/ \E k \in Keys, v \in Vals : Insert(t, k, v)
    \/ \E t, u \in Tables : Dup(t, u)

ExplicitSpec == Init /\ [][ExplicitNext]_vars

(* "the first explicit integer key always sets nNextFreeElement [...] After *)
(* that, only keys >= nNextFreeElement advance it" (SetInt): an array that *)
(* holds an integer key keeps inc when a smaller key is added.             *)
OnlyGreaterKeysAdvance ==
    [][\A t \in Tables, k \in IntKeys, v \in Vals :
         /\ Insert(t, k, v) /\ k < tab[t].inc
         /\ \E j \in IntKeys : heap[tab[t].store].idx[j] # 0
         => tab'[t].inc = tab[t].inc]_vars
=============================================================================
