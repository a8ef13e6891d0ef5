----------------------------- MODULE OrderedMap ------------------------------
(* What PHP arrays promise: each table is a sequence of distinct keys with *)
(* their values, and an operation on one table touches no other.  HashTable*)
(* implements it with shared cells, index maps and copy on write.          *)
EXTENDS Integers, Sequences, FiniteSets

CONSTANTS Tables, IntKeys, StrKeys, Vals

VARIABLE map    \* table |-> whether it exists, and its elements in order

Gone == [live |-> FALSE, elems |-> <<>>]

Has(m, k) == \E i \in DOMAIN m : m[i].k = k
Without(m, i) == [j \in 1 .. Len(m) - 1 |-> m[IF j < i THEN j ELSE j + 1]]
Replaced(m, k, v) == [i \in DOMAIN m |-> IF m[i].k = k THEN [k |-> k, v |-> v] ELSE m[i]]

(* The integer keys counted anew from 0, the string keys kept.             *)
Recounted(m) ==
    [i \in DOMAIN m |->
       IF m[i].k \in IntKeys
       THEN [m[i] EXCEPT !.k = Cardinality({j \in 1..(i - 1) : m[j].k \in IntKeys})]
       ELSE m[i]]

Unshifted(m, v) == Recounted(<<[k |-> 0, v |-> v]>> \o m)

Put(m, k, v) == IF Has(m, k) THEN Replaced(m, k, v) ELSE Append(m, [k |-> k, v |-> v])

(* What one operation may make of the elements m of an array: cleared, an  *)
(* element unset (array_pop: the last), one set under its key (append: a   *)
(* key not there), shifted, or unshifted.                                  *)
Outcomes(m) ==
    {<<>>} \cup {Without(m, i) : i \in DOMAIN m}
    \cup {Put(m, k, v) : k \in IntKeys \cup StrKeys, v \in Vals}
    \cup {Unshifted(m, v) : v \in Vals}
    \cup (IF m = <<>> THEN {} ELSE {Recounted(Without(m, 1))})

(* Each step touches one array.                                            *)
New(t) == ~ map[t].live /\ map' = [map EXCEPT ![t] = [live |-> TRUE, elems |-> <<>>]]
Copy(t, u) == map[t].live /\ ~ map[u].live /\ map' = [map EXCEPT ![u] = map[t]]
Drop(t) == map[t].live /\ map' = [map EXCEPT ![t] = Gone]
Change(t) == /\ map[t].live
             /\ map' = [map EXCEPT ![t].elems = map'[t].elems]
             /\ map'[t].elems \in Outcomes(map[t].elems)

Init == map = [t \in Tables |-> Gone]

Next == \/ \E t \in Tables : New(t) \/ Drop(t) \/ Change(t)
        \/ \E t, u \in Tables : Copy(t, u)

Spec == Init /\ [][Next]_map
=============================================================================
