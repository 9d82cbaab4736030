------------------------------ MODULE MCRegistro ------------------------------
(***************************************************************************)
(* Small instance of Registro: the queue holds one line more than the      *)
(* start logs, so only a window that is late loses lines, as in the code.  *)
(***************************************************************************)
EXTENDS Registro

\* updates logs two lines per datagram, the others at least one.  The login
\* server gets no datagram here: its log is like that of the world server.
MCPorPaquete == [s \in Servidores |-> IF s = Updates THEN {2} ELSE {1, 2}]
MCMaxLineas == [h \in Hilos |-> CASE h = Updates -> 2 [] h = Login -> 0 [] OTHER -> 1]
==============================================================================
