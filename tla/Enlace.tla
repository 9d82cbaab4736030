-------------------------------- MODULE Enlace --------------------------------
(***************************************************************************)
(* The transport between one client and the login server: the handshake    *)
(* with its key exchange, the ACKs, the close, and one LOGIN whose verdict *)
(* the server sends once and never repeats.                                *)
(*                                                                         *)
(* The network loses, repeats and reorders datagrams: whatever was sent    *)
(* may arrive later, never, or several times.  What the client sends it    *)
(* also repeats itself until it is answered, so a loss there is a delay;   *)
(* what the server sends may be lost for good (`Perder`).                  *)
(* A 32-bit word is the set of its bits that are 1.                        *)
(***************************************************************************)
EXTENDS Integers, FiniteSets

CONSTANTS
    Bits,           \* the bits of a word
    Extremos,       \* low words of the client's ip << 16 | port
    Semilla,        \* 0xA5A5A5A5
    Mascara,        \* MASCARA_CLAVE
    Marca,          \* contadorMarcaTiempo_ at the SYN-ACK of each connection
    MaxIntentos,    \* bound on the connections the client opens
    MaxId,          \* bound on the connections the server makes
    MaxPerdidas     \* bound on the datagrams to the client that are lost

Palabra == SUBSET Bits

ASSUME EnlaceAssumption ==
    /\ Extremos \subseteq Palabra
    /\ Semilla \in Palabra /\ Mascara \in Palabra
    /\ Marca \in [1 .. MaxId -> Palabra]
    /\ MaxIntentos \in Nat /\ MaxId \in Nat /\ MaxPerdidas \in Nat

VARIABLES
    extremo,       \* the client's address
    cliente,       \* what the client knows
    conexion,      \* the entry of conexiones_ for the client's address
    siguienteId,   \* siguienteId_
    ida,           \* the datagrams the client sent
    vuelta,        \* the datagrams the server sent, but those lost
    perdidas,      \* how many datagrams were lost
    sinVeredicto   \* history: connections whose verdict was lost

vars == <<extremo, cliente, conexion, siguienteId, ida, vuelta, perdidas, sinVeredicto>>

-----------------------------------------------------------------------------
(* Words and the key exchange.                                             *)

Xor(a, b) == (a \ b) \cup (b \ a)

\* 0xA5A5A5A5 ^ low word of the connection key: it depends on nothing else.
ClaveDe(e) == Xor(Semilla, e)

\* f1 and f2 of the SYN-ACK, from the key and a timestamp.
F1(K, TS) == Xor(Xor(TS, K) \cap Mascara, K)

\* Mutant: both words are made from the key.
F2_DeLaClave(K, TS) == Xor(Xor(TS, K) \cap Mascara, K)

F2(K, TS) == Xor(Xor(TS, K) \cap Mascara, TS)

\* What the client computes (protocolo_sns.hpp:29).
Recuperada(f1, f2) == Xor(Xor(f1, f2) \cap Mascara, f1)

-----------------------------------------------------------------------------
Intento == 1 .. MaxIntentos

\* To the server: n is the nonce of the attempt, which the answers echo.
\* A LOGIN also has the key it was enciphered with.
Ida ==
    [tipo : {"SYN", "ACK", "FIN"}, n : Intento]
        \cup [tipo : {"LOGIN"}, n : Intento, clave : Palabra]

Vuelta ==
    [tipo : {"SYN_ACK"}, n : Intento, id : Nat, f1 : Palabra, f2 : Palabra]
        \cup [tipo : {"FIN_ACK", "ACK"}, n : Intento]
        \cup [tipo : {"VEREDICTO"}, id : Nat, clave : Palabra]

Conexion ==
    [id : Nat, clave : Palabra, fase : {"Nueva", "SynRespondido", "Establecida"},
     enviadoLogin : BOOLEAN, juzgado : 0 .. MaxIntentos]

\* No entry in the map.  `juzgado` is history: whose LOGIN got the verdict.
SinConexion ==
    [id |-> 0, clave |-> {}, fase |-> "Nueva", enviadoLogin |-> FALSE, juzgado |-> 0]

Cliente ==
    [estado : {"cerrado", "abriendo", "abierto", "cerrando"}, intento : 0 .. MaxIntentos,
     id : Nat, clave : Palabra, confirmado : BOOLEAN, veredicto : BOOLEAN]

Init ==
    /\ extremo \in Extremos
    /\ cliente = [estado |-> "cerrado", intento |-> 0, id |-> 0, clave |-> {},
                  confirmado |-> FALSE, veredicto |-> FALSE]
    /\ conexion = SinConexion
    /\ siguienteId = 1
    /\ ida = {} /\ vuelta = {}
    /\ perdidas = 0 /\ sinVeredicto = {}

-----------------------------------------------------------------------------
(* The client, as the server's code tells of it.                           *)

AbrirCliente ==
    /\ cliente.estado = "cerrado" /\ cliente.intento < MaxIntentos
    /\ cliente' = [estado |-> "abriendo", intento |-> cliente.intento + 1, id |-> 0,
                   clave |-> {}, confirmado |-> FALSE, veredicto |-> FALSE]
    /\ ida' = ida \cup {[tipo |-> "SYN", n |-> cliente'.intento]}
    /\ UNCHANGED <<extremo, conexion, siguienteId, vuelta, perdidas, sinVeredicto>>

CerrarCliente ==
    /\ cliente.estado = "abierto"
    /\ cliente' = [cliente EXCEPT !.estado = "cerrando"]
    /\ ida' = ida \cup {[tipo |-> "FIN", n |-> cliente.intento]}
    /\ UNCHANGED <<extremo, conexion, siguienteId, vuelta, perdidas, sinVeredicto>>

\* The first SYN-ACK of the attempt gives the id and the key.  ACK goes back,
\* and the LOGIN.
AdoptarSynAck(d) ==
    /\ d.tipo = "SYN_ACK" /\ cliente.estado = "abriendo" /\ d.n = cliente.intento
    /\ cliente' = [cliente EXCEPT !.estado = "abierto", !.id = d.id,
                                  !.clave = Recuperada(d.f1, d.f2)]
    /\ ida' = ida \cup {[tipo |-> "ACK", n |-> d.n],
                       [tipo |-> "LOGIN", n |-> d.n, clave |-> cliente'.clave]}

RecibirConfirmacion(d) ==
    /\ d.tipo = "ACK" /\ cliente.estado = "abierto" /\ d.n = cliente.intento
    /\ cliente' = [cliente EXCEPT !.confirmado = TRUE]
    /\ UNCHANGED ida

\* A verdict for its connection, read with its key.
Legible(d) ==
    /\ d.tipo = "VEREDICTO" /\ cliente.estado = "abierto"
    /\ d.id = cliente.id /\ d.clave = cliente.clave

RecibirVeredicto(d) ==
    /\ Legible(d)
    /\ cliente' = [cliente EXCEPT !.veredicto = TRUE]
    /\ UNCHANGED ida

RecibirFinAck(d) ==
    /\ d.tipo = "FIN_ACK" /\ cliente.estado = "cerrando" /\ d.n = cliente.intento
    /\ cliente' = [cliente EXCEPT !.estado = "cerrado"]
    /\ UNCHANGED ida

ClienteRecibe(d) ==
    /\ \/ AdoptarSynAck(d)
       \/ RecibirConfirmacion(d)
       \/ RecibirVeredicto(d)
       \/ RecibirFinAck(d)
    /\ UNCHANGED <<extremo, conexion, siguienteId, vuelta, perdidas, sinVeredicto>>

\* Any other datagram is ignored.  It changes nothing, except for a verdict
\* that comes too soon or too late: nobody sends it again.
DesoirVeredicto(d) ==
    /\ d.tipo = "VEREDICTO" /\ ~ Legible(d)
    /\ vuelta' = vuelta \ {d}
    /\ UNCHANGED <<extremo, cliente, conexion, siguienteId, ida, perdidas, sinVeredicto>>

-----------------------------------------------------------------------------
(* The server: procesarPaquete and the head of procesarDatos.              *)

\* Mutant: the SYN of a connection that exists is taken for a repetition.
AtiendeSyn_SinRepetir(d) == d.tipo = "SYN" /\ siguienteId <= MaxId /\ conexion.id = 0

AtiendeSyn(d) == d.tipo = "SYN" /\ siguienteId <= MaxId

\* Mutant: ++siguienteId_.
Nueva_PreIncremento(id, K) ==
    [SinConexion EXCEPT !.id = id + 1, !.clave = K, !.fase = "SynRespondido"]

Nueva(id, K) ==
    [SinConexion EXCEPT !.id = id, !.clave = K, !.fase = "SynRespondido"]

SynAck(n, id, K, TS) ==
    [tipo |-> "SYN_ACK", n |-> n, id |-> id, f1 |-> F1(K, TS), f2 |-> F2(K, TS)]

\* SYN: a fresh connection, also when there was one, and a SYN-ACK that
\* carries its key and echoes the nonce.
RecibirSyn(d) ==
    /\ AtiendeSyn(d)
    /\ conexion' = Nueva(siguienteId, ClaveDe(extremo))
    /\ vuelta' = vuelta \cup
          {SynAck(d.n, siguienteId, ClaveDe(extremo), Marca[siguienteId])}
    /\ siguienteId' = siguienteId + 1
    /\ UNCHANGED <<extremo, cliente, ida, perdidas, sinVeredicto>>

RecibirAck(d) ==
    /\ d.tipo = "ACK"
    /\ conexion' = IF conexion.id = 0 THEN conexion
                   ELSE [conexion EXCEPT !.fase = "Establecida"]
    /\ UNCHANGED <<extremo, cliente, siguienteId, ida, vuelta, perdidas, sinVeredicto>>

\* Mutant: a FIN without a connection is not answered.
RecibirFin_SoloConocida(d) ==
    /\ d.tipo = "FIN"
    /\ vuelta' = IF conexion.id = 0 THEN vuelta
                 ELSE vuelta \cup {[tipo |-> "FIN_ACK", n |-> d.n]}
    /\ conexion' = SinConexion
    /\ UNCHANGED <<extremo, cliente, siguienteId, ida, perdidas, sinVeredicto>>

\* FIN: its copy goes back as type 5, with or without a connection to erase.
RecibirFin(d) ==
    /\ d.tipo = "FIN"
    /\ vuelta' = vuelta \cup {[tipo |-> "FIN_ACK", n |-> d.n]}
    /\ conexion' = SinConexion
    /\ UNCHANGED <<extremo, cliente, siguienteId, ida, perdidas, sinVeredicto>>

\* Does the record survive the deciphering and reach its handler?
Atiende(d) ==
    conexion.id # 0 /\ conexion.clave # {} /\ d.clave = conexion.clave

\* Mutant: the record is handled only after the ACK of the handshake.
RecibirLogin_Establecida(d) ==
    /\ d.tipo = "LOGIN"
    /\ LET nuevo == Atiende(d) /\ conexion.fase = "Establecida" /\ ~ conexion.enviadoLogin
       IN  /\ vuelta' = vuelta \cup {[tipo |-> "ACK", n |-> d.n]} \cup
                 (IF nuevo THEN {[tipo |-> "VEREDICTO", id |-> conexion.id,
                                  clave |-> conexion.clave]} ELSE {})
           /\ conexion' = IF nuevo THEN [conexion EXCEPT !.enviadoLogin = TRUE,
                                                         !.juzgado = d.n]
                          ELSE conexion
    /\ UNCHANGED <<extremo, cliente, siguienteId, ida, perdidas, sinVeredicto>>

\* Data: the ACK goes out before the key, the connection or the flag are
\* looked at; the verdict goes out once per connection.
RecibirLogin(d) ==
    /\ d.tipo = "LOGIN"
    /\ LET nuevo == Atiende(d) /\ ~ conexion.enviadoLogin
       IN  /\ vuelta' = vuelta \cup {[tipo |-> "ACK", n |-> d.n]} \cup
                 (IF nuevo THEN {[tipo |-> "VEREDICTO", id |-> conexion.id,
                                  clave |-> conexion.clave]} ELSE {})
           /\ conexion' = IF nuevo THEN [conexion EXCEPT !.enviadoLogin = TRUE,
                                                         !.juzgado = d.n]
                          ELSE conexion
    /\ UNCHANGED <<extremo, cliente, siguienteId, ida, perdidas, sinVeredicto>>

ServidorRecibe(d) == RecibirSyn(d) \/ RecibirAck(d) \/ RecibirFin(d) \/ RecibirLogin(d)

-----------------------------------------------------------------------------
(* The network.                                                            *)

Perder(d) ==
    /\ perdidas < MaxPerdidas
    /\ perdidas' = perdidas + 1
    /\ vuelta' = vuelta \ {d}
    /\ sinVeredicto' = sinVeredicto \cup (IF d.tipo = "VEREDICTO" THEN {d.id} ELSE {})
    /\ UNCHANGED <<extremo, cliente, conexion, siguienteId, ida>>

Next ==
    \/ AbrirCliente
    \/ CerrarCliente
    \/ \E d \in ida : ServidorRecibe(d)
    \/ \E d \in vuelta : ClienteRecibe(d) \/ DesoirVeredicto(d) \/ Perder(d)

Spec == Init /\ [][Next]_vars

\* What the client repeats until it is answered.
Insistencia ==
    CASE cliente.estado = "abriendo" -> {[tipo |-> "SYN", n |-> cliente.intento]}
      [] cliente.estado = "abierto" /\ ~ cliente.confirmado ->
            {[tipo |-> "LOGIN", n |-> cliente.intento, clave |-> cliente.clave]}
      [] cliente.estado = "cerrando" -> {[tipo |-> "FIN", n |-> cliente.intento]}
      [] OTHER -> {}

\* The server thread never stops, the network delivers at last what the
\* client insists on, and what the network does not lose reaches the client.
Equidad ==
    /\ WF_vars(\E d \in Insistencia \cap ida : ServidorRecibe(d))
    /\ WF_vars(\E d \in vuelta : ClienteRecibe(d))

SpecJusta == Spec /\ Equidad

-----------------------------------------------------------------------------
(* Properties.                                                             *)

TypeOK ==
    /\ extremo \in Extremos
    /\ cliente \in Cliente
    /\ conexion \in Conexion /\ conexion.id < siguienteId
    /\ siguienteId \in Nat \ {0}
    /\ ida \in SUBSET Ida
    /\ vuelta \in SUBSET Vuelta
    /\ perdidas \in Nat
    /\ sinVeredicto \in SUBSET Nat

\* The client and the server never disagree on the key: a client that adopted
\* a SYN-ACK, however late or repeated, has the key of every connection the
\* server makes for its address, whatever SYN made it and whatever timestamp
\* hid the key in the SYN-ACK.
ClaveCompartida ==
    cliente.estado \in {"abierto", "cerrando"} =>
        /\ cliente.clave = ClaveDe(extremo)
        /\ conexion.id # 0 => cliente.clave = conexion.clave

\* Why a client may never hear its verdict: the datagram was lost; a SYN or FIN
\* processed later replaced or erased the connection it knows; the LOGIN of
\* an earlier attempt took the only verdict; or its key is 0.
PorPerdida == cliente.id \in sinVeredicto
PorOtroSynOFin == conexion.id # cliente.id
PorOtroLogin == conexion.juzgado \notin {0, cliente.intento}
PorClaveNula == ClaveDe(extremo) = {}

Impedido == PorPerdida \/ PorOtroSynOFin \/ PorOtroLogin \/ PorClaveNula

EnCamino == \E d \in vuelta : d.tipo = "VEREDICTO" /\ d.id = cliente.id

\* A client whose LOGIN was confirmed does not repeat it.  Unless one of those
\* causes holds, its verdict has arrived or is on its way: the ACK that goes
\* out before the record is handled confirms no record that is then dropped.
ConfirmadoNoEspera ==
    cliente.estado = "abierto" /\ cliente.confirmado =>
        cliente.veredicto \/ EnCamino \/ Impedido

\* A client that insists gets in and hears its verdict, or closes, or one of
\* those causes holds (or the bound on connections stops the handshake).
VeredictoLlega ==
    cliente.estado \in {"abriendo", "abierto"} ~>
        \/ cliente.veredicto
        \/ cliente.estado \in {"cerrando", "cerrado"}
        \/ cliente.estado = "abierto" /\ Impedido
        \/ cliente.estado = "abriendo" /\ siguienteId > MaxId

\* A client that closes is told so, also when the answer to its first FIN was
\* lost and there is no connection left when it repeats it.
CierreConfirmado == cliente.estado = "cerrando" ~> cliente.estado = "cerrado"
==============================================================================
