---------------------------- MODULE ServicioMundo ----------------------------
(***************************************************************************)
(* What the world server promises, seen from its clients and from the      *)
(* window: a session is told its appearance message by message, once, and  *)
(* nobody comes, goes or begins to appear while somebody's is half told.   *)
(* A player is listed, under the session that is appearing, with the very  *)
(* message that creates it, and leaves the list only with its session;     *)
(* the peak is the most that were ever listed at once.                     *)
(***************************************************************************)
EXTENDS Integers, Sequences, FiniteSets

CONSTANTS
    Claves,      \* the endpoints of the clients
    Secuencia    \* the messages of an appearance

VARIABLES
    sesiones,    \* the session of each endpoint, or 0
    ultima,      \* the last session id given
    oidos,       \* what the session of each endpoint heard of its appearance
    listados,    \* the players: endpoint and session
    pico         \* the most players at once

vars == <<sesiones, ultima, oidos, listados, pico>>

Init ==
    /\ sesiones = [k \in Claves |-> 0]
    /\ ultima = 0
    /\ oidos = [k \in Claves |-> << >>]
    /\ listados = {} /\ pico = 0

\* The appearance of k is not begun, or is over.
Quieto(k) == oidos[k] \in {<< >>, Secuencia}

\* A client (re)connects: a session never seen, which has heard nothing.  The
\* player of the session it replaces stays listed until the new one appears.
Abrir(k) ==
    /\ \A j \in Claves : Quieto(j)
    /\ ultima' = ultima + 1
    /\ sesiones' = [sesiones EXCEPT ![k] = ultima']
    /\ oidos' = [oidos EXCEPT ![k] = << >>]
    /\ UNCHANGED <<listados, pico>>

Cerrar(k) ==
    /\ \A j \in Claves : Quieto(j)
    /\ sesiones' = [sesiones EXCEPT ![k] = 0]
    /\ oidos' = [oidos EXCEPT ![k] = << >>]
    /\ listados' = {j \in listados : j.clave # k}
    /\ UNCHANGED <<ultima, pico>>

\* The next message of the only appearance that is on its way.
Decir(k) ==
    /\ sesiones[k] # 0
    /\ \A j \in Claves \ {k} : Quieto(j)
    /\ Len(oidos[k]) < Len(Secuencia)
    /\ LET m == Secuencia[Len(oidos[k]) + 1]
       IN  /\ oidos' = [oidos EXCEPT ![k] = Append(@, m)]
           /\ listados' =
                 IF m = "CREAR_JUGADOR"
                 THEN {j \in listados : j.clave # k} \cup {[clave |-> k, id |-> sesiones[k]]}
                 ELSE listados
    /\ pico' = IF Cardinality(listados') > pico THEN Cardinality(listados') ELSE pico
    /\ UNCHANGED <<sesiones, ultima>>

Next == \E k \in Claves : Abrir(k) \/ Cerrar(k) \/ Decir(k)

Spec == Init /\ [][Next]_vars
==============================================================================
