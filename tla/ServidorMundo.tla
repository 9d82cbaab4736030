---------------------------- MODULE ServidorMundo ----------------------------
(***************************************************************************)
(* The world server (UDP 25001): its connections, the appearance of a      *)
(* player, which one thread sends message by message with a Sleep after    *)
(* each, the list of players of monitor.cpp, and the window thread that    *)
(* reads that list under three separate locks.                             *)
(*                                                                         *)
(* While the thread sleeps, datagrams wait in the socket (`cola`): a PING  *)
(* is answered, a FIN obeyed, only when the appearance in hand is over.    *)
(* Clients and the network are free: any datagram may arrive from any      *)
(* endpoint, again or never.  `enviados` and `pongs` are history.          *)
(***************************************************************************)
EXTENDS Integers, Sequences, FiniteSets

CONSTANTS
    Claves,        \* endpoints, the keys of conexiones_
    ClavesNulas,   \* endpoints whose XOR key is 0: their data is dropped
    Spawn,         \* cfg().spawn
    Room,          \* cfg().room
    NumBarrido,    \* how many opcodes the sweep sends when there is no SPAWN
    MaxLlegadas    \* bound on the datagrams that arrive

ASSUME MundoAssumption ==
    /\ ClavesNulas \subseteq Claves
    /\ Spawn \in BOOLEAN /\ Room \in BOOLEAN
    /\ NumBarrido \in Nat /\ MaxLlegadas \in Nat

VARIABLES
    conexiones,   \* conexiones_; an absent key is SinConexion
    siguienteId,  \* siguienteId_, counted from 1
    cola,         \* datagrams that wait in the socket
    llegadas,     \* how many have arrived
    tarea,        \* the appearance in hand: endpoint and messages left
    jugs,         \* the players of monitor.cpp
    pico,         \* and the peak of their number
    vista,        \* what the window shows, and what it reads next
    enviados,     \* the messages of its appearance each live connection got
    pongs         \* the PINGs answered, by their number of arrival

monitor == <<jugs, pico>>
vars == <<conexiones, siguienteId, cola, llegadas, tarea, jugs, pico, vista,
          enviados, pongs>>

Fase == {"Nueva", "SynRespondido", "Establecida"}

Conexion == [idConexion : Nat, fase : Fase, enviadoAceptar : BOOLEAN, idMensajeTx : Nat]

SinConexion ==
    [idConexion |-> 0, fase |-> "Nueva", enviadoAceptar |-> FALSE, idMensajeTx |-> 0]

Viva(k) == conexiones[k].idConexion # 0

Tipo == {"SYN", "ACK", "FIN", "PING", "PASSDOOR", "OTRO"}

\* A datagram that arrived: whose, what, and its number of arrival.
Datagrama == [clave : Claves, tipo : Tipo, n : Nat]

\* clave is j.clave, id is j.idServidor.
Jugador == [clave : Claves, id : Nat]

Tablas == <<"SERVERPARAMS", "MAPINFO", "OBJECTINFO", "BOTSINFO", "SUPPLIESINFO",
            "QUESTSINFO", "ROOMPARAMS">>
Entrada == <<"CREAR_JUGADOR", "ENTRAR", "ROOMREADY">>
Opcode == {"SERVERPARAMS", "MAPINFO", "OBJECTINFO", "BOTSINFO", "SUPPLIESINFO",
           "QUESTSINFO", "ROOMPARAMS", "CREAR_JUGADOR", "ENTRAR", "ROOMREADY", "BARRIDO"}

\* What a PASSDOOR sets off: the tables of the room (an item that the client
\* reads before the room exists crashes it), the player, or the sweep.
Secuencia ==
    IF Spawn THEN IF Room THEN Tablas \o Entrada ELSE Entrada
    ELSE [i \in 1 .. NumBarrido |-> "BARRIDO"]

Ocupado == tarea.resto # <<>>

Libre(k) == [clave |-> k, resto |-> <<>>]

-----------------------------------------------------------------------------
(* monitor.cpp.                                                            *)

\* Mutant: the peak is taken before the player is added.
clienteEntra_PicoAntes(k, id) ==
    IF \E j \in jugs : j.clave = k
    THEN /\ \E j \in jugs : j.clave = k /\ jugs' = (jugs \ {j}) \cup {[clave |-> k, id |-> id]}
         /\ pico' = pico
    ELSE /\ jugs' = jugs \cup {[clave |-> k, id |-> id]}
         /\ pico' = IF Cardinality(jugs) > pico THEN Cardinality(jugs) ELSE pico

\* A player who was listed is updated, another is added and may raise the peak.
clienteEntra(k, id) ==
    IF \E j \in jugs : j.clave = k
    THEN /\ \E j \in jugs : j.clave = k /\ jugs' = (jugs \ {j}) \cup {[clave |-> k, id |-> id]}
         /\ pico' = pico
    ELSE /\ jugs' = jugs \cup {[clave |-> k, id |-> id]}
         /\ pico' = IF Cardinality(jugs') > pico THEN Cardinality(jugs') ELSE pico

\* Mutant: the peak follows the players who leave.
clienteSale_BajaPico(k) ==
    /\ jugs' = {j \in jugs : j.clave # k}
    /\ pico' = pico - 1

clienteSale(k) ==
    /\ IF \E j \in jugs : j.clave = k
       THEN \E j \in jugs : j.clave = k /\ jugs' = jugs \ {j}
       ELSE jugs' = jugs
    /\ pico' = pico

-----------------------------------------------------------------------------
(* The thread of the server: one datagram, or one message of an appearance. *)

\* receive_from takes the datagram out of the socket.
Sacado == cola' = Tail(cola)

\* A fresh Conexion, also when the endpoint already had one; the monitor is
\* not told.
RecibirSyn(d) ==
    /\ Sacado /\ d.tipo = "SYN"
    /\ conexiones' = [conexiones EXCEPT ![d.clave] =
          [SinConexion EXCEPT !.idConexion = siguienteId, !.fase = "SynRespondido"]]
    /\ siguienteId' = siguienteId + 1
    /\ enviados' = [enviados EXCEPT ![d.clave] = <<>>]
    /\ UNCHANGED <<llegadas, tarea, monitor, vista, pongs>>

RecibirAck(d) ==
    /\ Sacado /\ d.tipo = "ACK"
    /\ conexiones' = IF Viva(d.clave)
                     THEN [conexiones EXCEPT ![d.clave].fase = "Establecida"]
                     ELSE conexiones
    /\ UNCHANGED <<siguienteId, llegadas, tarea, monitor, vista, enviados, pongs>>

\* Mutant: the monitor is not told of a FIN.
RecibirFin_SinMonitor(d) ==
    /\ Sacado /\ d.tipo = "FIN"
    /\ conexiones' = [conexiones EXCEPT ![d.clave] = SinConexion]
    /\ enviados' = [enviados EXCEPT ![d.clave] = <<>>]
    /\ UNCHANGED <<siguienteId, llegadas, tarea, monitor, vista, pongs>>

RecibirFin(d) ==
    /\ Sacado /\ d.tipo = "FIN"
    /\ conexiones' = [conexiones EXCEPT ![d.clave] = SinConexion]
    /\ clienteSale(d.clave)
    /\ enviados' = [enviados EXCEPT ![d.clave] = <<>>]
    /\ UNCHANGED <<siguienteId, llegadas, tarea, vista, pongs>>

\* Data is read only from a live connection whose key is not 0.
Legible(k) == Viva(k) /\ k \notin ClavesNulas

\* Mutant: a player who has appeared gets no PONG.
Ping_SoloAntes(d) ==
    /\ Sacado /\ d.tipo = "PING" /\ Legible(d.clave)
    /\ ~ conexiones[d.clave].enviadoAceptar
    /\ conexiones' = [conexiones EXCEPT ![d.clave].idMensajeTx = @ + 1]
    /\ pongs' = pongs \cup {d.n}
    /\ UNCHANGED <<siguienteId, llegadas, tarea, monitor, vista, enviados>>

Ping(d) ==
    /\ Sacado /\ d.tipo = "PING" /\ Legible(d.clave)
    /\ conexiones' = [conexiones EXCEPT ![d.clave].idMensajeTx = @ + 1]
    /\ pongs' = pongs \cup {d.n}
    /\ UNCHANGED <<siguienteId, llegadas, tarea, monitor, vista, enviados>>

\* Mutant: a repeated PASSDOOR starts again.
PassDoor_Repite(d) ==
    /\ Sacado /\ d.tipo = "PASSDOOR" /\ Legible(d.clave)
    /\ conexiones' = [conexiones EXCEPT ![d.clave].enviadoAceptar = TRUE]
    /\ tarea' = [clave |-> d.clave, resto |-> Secuencia]
    /\ UNCHANGED <<siguienteId, llegadas, monitor, vista, enviados, pongs>>

PassDoor(d) ==
    /\ Sacado /\ d.tipo = "PASSDOOR" /\ Legible(d.clave)
    /\ ~ conexiones[d.clave].enviadoAceptar
    /\ conexiones' = [conexiones EXCEPT ![d.clave].enviadoAceptar = TRUE]
    /\ tarea' = [clave |-> d.clave, resto |-> Secuencia]
    /\ UNCHANGED <<siguienteId, llegadas, monitor, vista, enviados, pongs>>

\* A datagram that changes nothing: data without a connection, a key or a
\* known opcode, and a PASSDOOR repeated.
Ignorar(d) ==
    /\ Sacado
    /\ \/ d.tipo = "OTRO"
       \/ d.tipo \in {"PING", "PASSDOOR"} /\ ~ Legible(d.clave)
       \/ d.tipo = "PASSDOOR" /\ Legible(d.clave) /\ conexiones[d.clave].enviadoAceptar
    /\ UNCHANGED <<conexiones, siguienteId, llegadas, tarea, monitor, vista, enviados, pongs>>

\* The next message of the appearance in hand, and the Sleep after it.
Aparecer ==
    /\ Ocupado
    /\ LET k == tarea.clave
       IN  /\ conexiones' = [conexiones EXCEPT ![k].idMensajeTx = @ + 1]
           /\ enviados' = [enviados EXCEPT ![k] = Append(@, Head(tarea.resto))]
           /\ IF Head(tarea.resto) = "CREAR_JUGADOR"
              THEN clienteEntra(k, conexiones[k].idConexion)
              ELSE UNCHANGED monitor
    /\ tarea' = [tarea EXCEPT !.resto = Tail(@)]
    /\ UNCHANGED <<siguienteId, cola, llegadas, vista, pongs>>

-----------------------------------------------------------------------------
(* The clients and the window.                                             *)

Llega(k, tipo) ==
    /\ llegadas < MaxLlegadas
    /\ llegadas' = llegadas + 1
    /\ cola' = Append(cola, [clave |-> k, tipo |-> tipo, n |-> llegadas + 1])
    /\ UNCHANGED <<conexiones, siguienteId, tarea, monitor, vista, enviados, pongs>>

\* refrescar reads the number and then the peak, each under its own lock.
LeerNum ==
    /\ vista.lee = "num"
    /\ vista' = [vista EXCEPT !.num = Cardinality(jugs), !.lee = "pico"]

LeerPico ==
    /\ vista.lee = "pico"
    /\ vista' = [vista EXCEPT !.pico = pico, !.lee = "num"]

Refrescar ==
    /\ LeerNum \/ LeerPico
    /\ UNCHANGED <<conexiones, siguienteId, cola, llegadas, tarea, monitor, enviados, pongs>>

-----------------------------------------------------------------------------
Init ==
    /\ conexiones = [k \in Claves |-> SinConexion]
    /\ siguienteId = 1
    /\ cola = <<>>
    /\ llegadas = 0
    /\ tarea \in {Libre(k) : k \in Claves}
    /\ jugs = {} /\ pico = 0
    /\ vista = [num |-> 0, pico |-> 0, lee |-> "num"]
    /\ enviados = [k \in Claves |-> <<>>]
    /\ pongs = {}

Recibir(d) ==
    \/ RecibirSyn(d)
    \/ RecibirAck(d)
    \/ RecibirFin(d)
    \/ Ping(d)
    \/ PassDoor(d)
    \/ Ignorar(d)

\* Mutant: datagrams are handled between the messages of an appearance.
Hilo_AtiendeEntreMensajes == Aparecer \/ (cola # <<>> /\ Recibir(Head(cola)))

Hilo == Aparecer \/ (~ Ocupado /\ cola # <<>> /\ Recibir(Head(cola)))

Next == Hilo \/ Refrescar \/ \E k \in Claves, tipo \in Tipo : Llega(k, tipo)

\* ejecutar() runs for ever in a thread of its own; clients owe nothing.
Spec == Init /\ [][Next]_vars /\ WF_vars(Hilo)

-----------------------------------------------------------------------------
(* Properties.                                                             *)

TypeOK ==
    /\ conexiones \in [Claves -> Conexion]
    /\ siguienteId \in Nat \ {0}
    /\ cola \in Seq(Datagrama)
    /\ llegadas \in Nat
    /\ tarea \in [clave : Claves, resto : Seq(Opcode)]
    /\ jugs \in SUBSET Jugador /\ IsFiniteSet(jugs)
    /\ pico \in Nat
    /\ vista \in [num : Nat, pico : Nat, lee : {"num", "pico"}]
    /\ enviados \in [Claves -> Seq(Opcode)]
    /\ pongs \in SUBSET Nat

\* Every connection hears nothing of its appearance or the whole of it, once
\* and in order, whatever is repeated or queued meanwhile; only the one in
\* hand is between the two, and the thread still owes it exactly the rest.
AparicionEntera ==
    \A k \in Claves :
        IF Ocupado /\ tarea.clave = k
        THEN Viva(k) /\ enviados[k] \o tarea.resto = Secuencia
        ELSE enviados[k] = IF conexiones[k].enviadoAceptar THEN Secuencia ELSE <<>>

\* A listed player has a connection and is listed once, and the peak is never
\* below the number of players: FIN takes both away, appearing again updates.
ListaFiel ==
    /\ \A j \in jugs : Viva(j.clave)
    /\ \A i, j \in jugs : i.clave = j.clave => i = j
    /\ Cardinality(jugs) <= pico

\* The window never shows more clients than the peak, although it reads the
\* two under different locks: "Num Clients" is read first, the peak only grows.
VistaCoherente ==
    IF vista.lee = "num" THEN vista.num <= vista.pico ELSE vista.num <= pico

Servicio == INSTANCE ServicioMundo WITH
    sesiones <- [k \in Claves |-> conexiones[k].idConexion],
    ultima   <- siguienteId - 1,
    oidos    <- enviados,
    listados <- jugs

\* The server with its queue, its flag, its Sleeps and a monitor kept by two
\* calls implements the service: whatever is repeated or waits in the socket,
\* appearances do not overlap nor start again on the same session, and players
\* come into the list and leave it only with the message or the FIN that says so.
ImplementaServicio == Servicio!Spec

\* A PING that waits behind appearances, without a FIN before it, is answered.
PingContestado ==
    \A n \in 1 .. MaxLlegadas :
        (\E i \in 1 .. Len(cola) :
            /\ cola[i].tipo = "PING" /\ cola[i].n = n /\ Legible(cola[i].clave)
            /\ \A h \in 1 .. i : cola[h].clave = cola[i].clave => cola[h].tipo # "FIN")
        ~> n \in pongs

\* monitor.hpp:40, "jugadores activos", with the idConexion of monitor.hpp:27:
\* a listed player is listed under the id of the connection it has.
ListaActual == \A j \in jugs : j.id = conexiones[j.clave].idConexion
==============================================================================
