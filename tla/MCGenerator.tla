----------------------------- MODULE MCGenerator -----------------------------
(* Programs for Generator: who holds which generator, who delegates to     *)
(* whom, and how long each body may run.                                   *)
EXTENDS Generator, TLC

CONSTANTS a, c, d

(* a yields from c, which the script also drives and which calls its own   *)
(* methods, and from d, which only the yield from expression holds and     *)
(* which drives c too.                                                     *)
SharedSees == (Main :> {a, c}) @@ (a :> {}) @@ (c :> {c}) @@ (d :> {c})
SharedDelegates == (a :> {c, d}) @@ (c :> {}) @@ (d :> {})
SharedFuel == (a :> 2) @@ (c :> 2) @@ (d :> 2)

(* a yields from c, and the body of c holds a.                             *)
ReentrantSees == (Main :> {a}) @@ (a :> {}) @@ (c :> {a})
ReentrantDelegates == (a :> {c}) @@ (c :> {})
ReentrantFuel == (a :> 2) @@ (c :> 2)
=============================================================================
