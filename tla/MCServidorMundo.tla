--------------------------- MODULE MCServidorMundo ---------------------------
(* Small instances of ServidorMundo. *)
EXTENDS ServidorMundo
==============================================================================
