---------------------------- MODULE MCArrayMerge -----------------------------
(* Restricted next-state relations for array_merge of two arrays.          *)
EXTENDS ArrayMerge, MCHashTable

Alone(t) == \A u \in Tables : u # t => ~ tab[u].live
AllInUse == \A t \in Tables : tab[t].live

(* The arguments come from New, appended elements, one with a string key,  *)
(* copies and earlier merges; a list made first may lose its element 0.    *)
(* Arrays go when no variable is left for a new one.                       *)
BuildNext ==
    \/ \E t \in Tables : \/ New(t)
                         \/ AllInUse /\ Drop(t)
                         \/ Alone(t) /\ IsList(t) /\ Unset(t, 0)
                         \/ \E v \in Vals : Append(t, v) \/ \E k \in StrKeys : Insert(t, k, v)
    \/ \E t, u \in Tables : Dup(t, u)
    \/ \E t, w, u \in Tables : MergeSafely(t, w, u)

BuildSpec == Init /\ [][BuildNext]_vars
=============================================================================
