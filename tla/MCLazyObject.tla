---------------------------- MODULE MCLazyObject ----------------------------
(***************************************************************************)
(* The instance of LazyObject that TLC checks: objects, and properties,    *)
(* are interchangeable.                                                    *)
(***************************************************************************)
EXTENDS LazyObject, TLC

Symmetry == Permutations(Objs) \cup Permutations(Props)
=============================================================================
