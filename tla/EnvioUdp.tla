------------------------------- MODULE EnvioUdp -------------------------------
(***************************************************************************)
(* The sending helpers of ServidorUdp.  The login server and the world     *)
(* server run in threads of their own and both build their packets in the  *)
(* function-local static array of enviarFiable, which no lock protects;    *)
(* the one of enviarFragmentado is used by the login thread only.          *)
(*                                                                         *)
(* Every statement of a helper that writes or reads the array is a step.   *)
(* A step touches a field of the packet whole: the torn fields that the    *)
(* data race can also give are coarser than this, and mix no less.         *)
(* `pedidos` and `solape` are history.                                     *)
(***************************************************************************)
EXTENDS Integers, Sequences

CONSTANTS
    Hilos,          \* the threads of the servers
    Fragmentan,     \* those whose server calls enviarFragmentado: the login's
    Sesiones,       \* the connections of all servers
    HiloDe,         \* the thread whose conexiones_ holds each connection
    NumsFrag,       \* how many fragments a large message may take
    MaxPaquetes     \* bound on the packets of each connection

ASSUME EnvioAssumption ==
    /\ Fragmentan \subseteq Hilos
    /\ \A g, h \in Fragmentan : g = h
    /\ HiloDe \in [Sesiones -> Hilos]
    /\ NumsFrag \subseteq Nat \ {0}
    /\ MaxPaquetes \in [Sesiones -> Nat]

VARIABLES
    bufer,        \* the packet in each static array
    llamada,      \* the call each thread is in
    idMensajeTx,  \* idMensajeTx of each connection
    salida,       \* the packets sent to the client of each connection
    pedidos,      \* history: what those packets should carry, in order
    solape        \* history: has another thread touched the array of the call?

vars == <<bufer, llamada, idMensajeTx, salida, pedidos, solape>>

Operacion == {"enviarFiable", "enviarFragmentado"}
Paso == {"fuera", "cabecera", "numero", "copia", "cifra", "envia"}

\* What zeros stand for.
Ninguna == "ninguna"

\* A packet: connHi, ventana and ack, campoC, and the payload: the connection,
\* the call and the fragment its data comes from, and the keys it was ciphered
\* with, in order (<<>> is plain).
Paquete ==
    [sesion : Sesiones \cup {Ninguna}, ventana : Nat, ack : Nat, idMensaje : Nat,
     datos : [sesion : Sesiones \cup {Ninguna}, mensaje : Nat, i : Nat],
     claves : Seq(Sesiones)]

Ceros ==
    [sesion |-> Ninguna, ventana |-> 0, ack |-> 0, idMensaje |-> 0,
     datos |-> [sesion |-> Ninguna, mensaje |-> 0, i |-> 0], claves |-> <<>>]

\* A call: its helper, its connection, its message, its number of fragments and
\* the one in hand.
Llamada ==
    [op : Operacion, sesion : Sesiones \cup {Ninguna}, mensaje : Nat,
     numFrag : Nat, i : Nat, paso : Paso]

\* Mutant: one array for both helpers.
BuferDe_Comun(op) == "enviarFiable"

\* Which static array a helper builds its packets in.
BuferDe(op) == op

En(h, paso) == llamada[h].paso = paso

EnElBufer(h) == bufer[BuferDe(llamada[h].op)]

-----------------------------------------------------------------------------
(* The steps of a call.                                                    *)

Sigue(h, paso) == llamada' = [llamada EXCEPT ![h].paso = paso]

\* h writes its array: a packet that another thread builds there is spoilt.
Escribe(h, p) ==
    /\ bufer' = [bufer EXCEPT ![BuferDe(llamada[h].op)] = p]
    /\ solape' = [g \in Hilos |->
          IF g = h THEN solape[h] /\ ~ En(h, "cabecera")
          ELSE \/ solape[g]
               \/ /\ llamada[g].paso \in {"numero", "copia", "cifra", "envia"}
                  /\ BuferDe(llamada[g].op) = BuferDe(llamada[h].op)]

\* The thread of a server calls a helper for one of its connections.
Llamar(h, op, s, n) ==
    /\ En(h, "fuera")
    /\ HiloDe[s] = h
    /\ IF op = "enviarFiable" THEN n = 1 ELSE h \in Fragmentan
    /\ Len(pedidos[s]) + n <= MaxPaquetes[s]
    /\ LET mensaje == Len(pedidos[s]) + 1
       IN  /\ llamada' = [llamada EXCEPT ![h] =
                 [op |-> op, sesion |-> s, mensaje |-> mensaje, numFrag |-> n,
                  i |-> 0, paso |-> "cabecera"]]
           /\ pedidos' = [pedidos EXCEPT ![s] =
                 @ \o [j \in 1 .. n |-> [mensaje |-> mensaje, ventana |-> n, i |-> j - 1]]]
    /\ UNCHANGED <<bufer, idMensajeTx, salida, solape>>

\* Mutant: the fragments count from -1.
Cabecera_AckMenosUno(h) ==
    /\ En(h, "cabecera")
    /\ Escribe(h, [Ceros EXCEPT !.sesion = llamada[h].sesion,
                      !.ventana = llamada[h].numFrag, !.ack = llamada[h].i - 1])
    /\ Sigue(h, "numero")
    /\ UNCHANGED <<idMensajeTx, salida, pedidos>>

\* memset, connHi, ventana and ack.
Cabecera(h) ==
    /\ En(h, "cabecera")
    /\ Escribe(h, [Ceros EXCEPT !.sesion = llamada[h].sesion,
                      !.ventana = llamada[h].numFrag, !.ack = llamada[h].i])
    /\ Sigue(h, "numero")
    /\ UNCHANGED <<idMensajeTx, salida, pedidos>>

\* Mutant: campoC gets the counter before its increment.
Numerar_Despues(h) ==
    /\ En(h, "numero")
    /\ LET s == llamada[h].sesion
       IN  /\ idMensajeTx' = [idMensajeTx EXCEPT ![s] = @ + 1]
           /\ Escribe(h, [EnElBufer(h) EXCEPT !.idMensaje = idMensajeTx[s]])
    /\ Sigue(h, "copia")
    /\ UNCHANGED <<salida, pedidos>>

\* ++c.idMensajeTx.
Numerar(h) ==
    /\ En(h, "numero")
    /\ LET s == llamada[h].sesion
       IN  /\ idMensajeTx' = [idMensajeTx EXCEPT ![s] = @ + 1]
           /\ Escribe(h, [EnElBufer(h) EXCEPT !.idMensaje = idMensajeTx'[s]])
    /\ Sigue(h, "copia")
    /\ UNCHANGED <<salida, pedidos>>

\* memcpy leaves a plain payload, whatever was there.
Copiar(h) ==
    /\ En(h, "copia")
    /\ LET l == llamada[h]
       IN  Escribe(h, [EnElBufer(h) EXCEPT
              !.datos = [sesion |-> l.sesion, mensaje |-> l.mensaje, i |-> l.i],
              !.claves = <<>>])
    /\ Sigue(h, "cifra")
    /\ UNCHANGED <<idMensajeTx, salida, pedidos>>

\* cifrar works in place, with the key of the connection of the call.
Cifrar(h) ==
    /\ En(h, "cifra")
    /\ Escribe(h, [EnElBufer(h) EXCEPT !.claves = Append(@, llamada[h].sesion)])
    /\ Sigue(h, "envia")
    /\ UNCHANGED <<idMensajeTx, salida, pedidos>>

\* The destination is the endpoint of the call; the loop goes on to the next
\* fragment.
Enviar(h) ==
    /\ En(h, "envia")
    /\ LET l == llamada[h]
       IN  /\ salida' = [salida EXCEPT ![l.sesion] =
                 Append(@, [paquete |-> EnElBufer(h), op |-> l.op, solapado |-> solape[h]])]
           /\ llamada' = [llamada EXCEPT ![h] =
                 IF l.i + 1 < l.numFrag THEN [l EXCEPT !.i = @ + 1, !.paso = "cabecera"]
                                        ELSE [l EXCEPT !.paso = "fuera"]]
    /\ UNCHANGED <<bufer, idMensajeTx, pedidos, solape>>

-----------------------------------------------------------------------------
Init ==
    /\ bufer = [b \in {BuferDe(op) : op \in Operacion} |-> Ceros]
    /\ llamada = [h \in Hilos |-> [op |-> "enviarFiable", sesion |-> Ninguna,
                                    mensaje |-> 0, numFrag |-> 0, i |-> 0, paso |-> "fuera"]]
    /\ idMensajeTx = [s \in Sesiones |-> 0]
    /\ salida = [s \in Sesiones |-> <<>>]
    /\ pedidos = [s \in Sesiones |-> <<>>]
    /\ solape = [h \in Hilos |-> FALSE]

Hilo(h) ==
    \/ \E op \in Operacion, s \in Sesiones, n \in NumsFrag \cup {1} : Llamar(h, op, s, n)
    \/ Cabecera(h)
    \/ Numerar(h)
    \/ Copiar(h)
    \/ Cifrar(h)
    \/ Enviar(h)

Next == \E h \in Hilos : Hilo(h)

Spec == Init /\ [][Next]_vars

-----------------------------------------------------------------------------
(* Properties.                                                             *)

TypeOK ==
    /\ bufer \in [{BuferDe(op) : op \in Operacion} -> Paquete]
    /\ llamada \in [Hilos -> Llamada]
    /\ idMensajeTx \in [Sesiones -> Nat]
    /\ salida \in [Sesiones -> Seq([paquete : Paquete, op : Operacion, solapado : BOOLEAN])]
    /\ pedidos \in [Sesiones -> Seq([mensaje : Nat, ventana : Nat, i : Nat])]
    /\ solape \in [Hilos -> BOOLEAN]

\* The n-th packet to the client of s is what the server asked for: its own
\* data, ciphered once with its own key, under the n-th id of the connection.
Integro(s, n) ==
    LET p == salida[s][n].paquete
        q == pedidos[s][n]
    IN  /\ p.sesion = s /\ p.idMensaje = n
        /\ p.ventana = q.ventana /\ p.ack = q.i
        /\ p.datos = [sesion |-> s, mensaje |-> q.mensaje, i |-> q.i]
        /\ p.claves = <<s>>

\* The fragments of a large message arrive at the socket whole, in order and
\* under consecutive ids, although the other thread sends at the same time:
\* their array is only the login thread's.
FragmentosIntegros ==
    \A s \in Sesiones : \A n \in DOMAIN salida[s] :
        salida[s][n].op = "enviarFragmentado" => Integro(s, n)

\* A packet of enviarFiable is spoilt only if the other thread wrote the array
\* while the packet was being built: nothing of an earlier packet of any
\* connection stays in it.
MezclaSoloSolapada ==
    \A s \in Sesiones : \A n \in DOMAIN salida[s] :
        ~ salida[s][n].solapado => Integro(s, n)

\* servidor_udp.hpp:64, "Construye la cabecera SNS, cifra el payload y lo manda":
\* the packet that enviarFiable sends is the one its caller gave it.
PaqueteIntegro == \A s \in Sesiones : \A n \in DOMAIN salida[s] : Integro(s, n)
==============================================================================
