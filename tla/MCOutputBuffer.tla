--------------------------- MODULE MCOutputBuffer ---------------------------
(***************************************************************************)
(* The instance of OutputBuffer that TLC checks: a plain buffer that only  *)
(* the end of the request may remove, and one with a handler whose chunk   *)
(* two bytes fill.                                                         *)
(***************************************************************************)
EXTENDS OutputBuffer

MCKinds == {[cb |-> FALSE, chunk |-> 0, caps |-> {"cleanable", "flushable"}],
            [cb |-> TRUE, chunk |-> 2, caps |-> Capabilities]}
=============================================================================
