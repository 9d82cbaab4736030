---------------------------- MODULE ServidorLogin ----------------------------
(***************************************************************************)
(* The login server (UDP 25666): the map from endpoints to connections,    *)
(* the handlers of procesarPaquete and procesarDatos, and the tables of    *)
(* MySQL they read and write.                                              *)
(*                                                                         *)
(* The network may lose, repeat and reorder what the clients send: any     *)
(* datagram may arrive from any endpoint whenever the thread is idle.  A   *)
(* data datagram groups several application records; the thread handles    *)
(* them one by one (`pendientes`) before it receives again, while other    *)
(* users of MySQL may change the tables between two records.               *)
(*                                                                         *)
(* `red` keeps every application message sent, with the message ids that   *)
(* enviarFiable and enviarFragmentado gave it.  The replies of the         *)
(* transport itself (SYN-ACK, FIN-ACK, ACK) change no state of the server  *)
(* and are not in it.                                                      *)
(***************************************************************************)
EXTENDS EstadosCuenta, FiniteSets

CONSTANTS
    Claves,          \* endpoints, the keys (ip << 16 | port) of conexiones_
    Ip,              \* the address of each endpoint
    ClavesNulas,     \* endpoints whose XOR key K is 0: their data is dropped
    Usuarios,        \* user names a SYN may carry
    FilasCuenta,     \* for each user, the rows `accounts` may hold for it
    Nicks,           \* nicks of characters: names of 1 to 31 characters
    Nombres,         \* names of any length that a creation block begins with
    Corto,           \* the first 31 characters of a name
    Datagramas,      \* the record sequences a data datagram may carry
    NumPrisiones,    \* rows of game_servers with online = 1
    ListaRica,       \* cfg().listaRica
    ClassInfo,       \* cfg().classInfo, with rows in delitos and atributos
    EnterGame,       \* cfg().enterGame
    IdInicial,       \* cfg().startFieldc - 1, or 0
    CaducidadUso,    \* CADUCIDAD_USO
    Palabra,         \* 2^32, the modulus of uint32_t
    BdFalla,         \* may the connection to MySQL be lost?
    InsercionFalla,  \* may an INSERT fail by itself?
    MaxId,           \* bound on the connections ever made
    MaxIdMensaje,    \* no datagram is received beyond this message id
    MaxReloj,        \* bound on the clock
    MaxBorrados      \* bound on the characters deleted by other programs

\* What follows the header of a CREAR_PERSONAJE: nothing, or a block of bytes,
\* which is told apart by the name it begins with, the empty one too.
SinBloque == "sin bloque"
Bloques == Nombres \cup {"", SinBloque}

\* An application record, by its opcode and what the handler reads of it.
Registro ==
    [op : {"LOGIN"}, hash : Hashes]
        \cup [op : {"CREAR_PERSONAJE"}, datos : Bloques]
        \cup [op : {"JUGAR"}, pj : 0 .. 255]
        \cup [op : {"LATIDO", "PIDE_SERVIDORES", "SELECCIONAR", "OTRO"}]

ASSUME LoginAssumption ==
    /\ ClavesNulas \subseteq Claves
    /\ FilasCuenta \in [Usuarios -> SUBSET Cuenta]
    /\ "Recluso" \in Nicks /\ Nicks \subseteq Nombres
    /\ "" \notin Nombres /\ SinBloque \notin Nombres
    /\ Corto \in [Nombres -> Nicks] /\ \A n \in Nicks : Corto[n] = n
    /\ Datagramas \subseteq Seq(Registro)
    /\ NumPrisiones \in Nat
    /\ ListaRica \in BOOLEAN /\ ClassInfo \in BOOLEAN /\ EnterGame \in BOOLEAN
    /\ BdFalla \in BOOLEAN /\ InsercionFalla \in BOOLEAN
    /\ IdInicial \in Nat /\ MaxId \in Nat /\ MaxIdMensaje \in Nat
    /\ MaxReloj \in Nat /\ MaxBorrados \in Nat /\ CaducidadUso \in Nat
    /\ Palabra \in Nat /\ 1 < Palabra /\ MaxReloj < Palabra

\* id is the AUTO_INCREMENT PRIMARY KEY of accounts: never 0.
ASSUME IdsDeCuentaAssumption ==
    \A u \in Usuarios : \A f \in FilasCuenta[u] : f.encontrada => f.id # 0

VARIABLES
    cuentas,      \* the row of `accounts` of each user
    personajes,   \* the rows of `characters`
    bdViva,       \* does the connection to MySQL answer?
    conexiones,   \* conexiones_; an absent key is SinConexion
    siguienteId,  \* siguienteId_
    pendientes,   \* records of the datagram in hand, by its endpoint
    ahora,        \* time(nullptr)
    red,          \* the application messages sent
    inactivas     \* history: connections that were once silent past CaducidadUso

bd == <<cuentas, personajes, bdViva>>
vars == <<cuentas, personajes, bdViva, conexiones, siguienteId, pendientes,
          ahora, red, inactivas>>

Fase == {"Nueva", "SynRespondido", "Establecida"}

Conexion ==
    [idConexion : Nat, fase : Fase, cuenta : Cuenta, ultimaActividad : Nat,
     enviadoLogin : BOOLEAN, enviadoAceptar : BOOLEAN, enviadoEntrar : BOOLEAN,
     idMensajeTx : Nat]

\* The default Conexion{}; ids start above 0, so id 0 is "not in the map".
SinConexion ==
    [idConexion |-> 0, fase |-> "Nueva", cuenta |-> CuentaVacia,
     ultimaActividad |-> 0, enviadoLogin |-> FALSE, enviadoAceptar |-> FALSE,
     enviadoEntrar |-> FALSE, idMensajeTx |-> 0]

Viva(k) == conexiones[k].idConexion # 0

\* datos is the column appearance, NULL when there was no block.
Personaje ==
    [cuenta : Nat, slot : Nat, nick : Nicks, servidor : Nat, deleted : BOOLEAN,
     datos : Bloques]

Ficha == [slot : Nat, nick : Nombres \cup {""}]

OpServidor ==
    {"CUENTA", "LOGINRECHAZADO", "CHARCREATED", "CHARERROR", "SERVERADDED",
     "AVAILABLESERVERS", "CLASSINFO", "LOGINACCEPTED", "ENTERINGGAMEACCEPTED"}

\* A message: its connection, its first message id, how many ids it takes,
\* the opcode, a number and the characters it shows.
Mensaje ==
    [id : Nat, n : Nat, trozos : Nat, op : OpServidor, codigo : Nat,
     fichas : SUBSET Ficha]

\* The codigo of a CHARCREATED is what became of the INSERT (`guardado`,
\* which the handler computes and does not send).
SinCuenta == 0
Guardado  == 1
Fallo     == 2

-----------------------------------------------------------------------------
(* Sending.                                                                *)

App(op, codigo) == [op |-> op, codigo |-> codigo, fichas |-> {}]
AppFichas(op, codigo, fichas) == [op |-> op, codigo |-> codigo, fichas |-> fichas]

\* Fragments of 0x200 bytes that enviarFragmentado makes of n bytes.
numFrag(n) == (n + 511) \div 512
TrozosCuenta == numFrag(2 + 2509)
TrozosCreado == numFrag(2 + 1 + 834)

\* The messages of the sequence ms on connection c, each of t ids in a row:
\* enviarFiable takes one (++idMensajeTx), enviarFragmentado one per fragment.
Numerados(c, t, ms) ==
    { [id |-> c.idConexion, n |-> c.idMensajeTx + 1 + (i - 1) * t, trozos |-> t,
       op |-> ms[i].op, codigo |-> ms[i].codigo, fichas |-> ms[i].fichas]
        : i \in 1 .. Len(ms) }

\* Mutant: one id per message, whatever its fragments.
Responder_SinTrozos(k, c, t, ms) ==
    /\ conexiones' = [conexiones EXCEPT
          ![k] = [c EXCEPT !.idMensajeTx = c.idMensajeTx + Len(ms)]]
    /\ red' = red \cup Numerados(c, t, ms)
    /\ pendientes' = [pendientes EXCEPT ![k] = Tail(@)]
    /\ UNCHANGED <<siguienteId, ahora, inactivas, cuentas, bdViva>>

\* The end of a handler: connection k becomes c, with the messages ms sent.
Responder(k, c, t, ms) ==
    /\ conexiones' = [conexiones EXCEPT
          ![k] = [c EXCEPT !.idMensajeTx = c.idMensajeTx + t * Len(ms)]]
    /\ red' = red \cup Numerados(c, t, ms)
    /\ pendientes' = [pendientes EXCEPT ![k] = Tail(@)]
    /\ UNCHANGED <<siguienteId, ahora, inactivas, cuentas, bdViva>>

-----------------------------------------------------------------------------
(* MySQL, as base_datos.cpp uses it: a query that fails gives its default. *)

buscarCuenta(u) == IF bdViva THEN cuentas[u] ELSE CuentaVacia

Vivos(idCuenta) == {p \in personajes : p.cuenta = idCuenta /\ ~ p.deleted}

\* Mutant: counts the prison, not the account.
contarPersonajes_DeLaPrision(idCuenta) ==
    IF bdViva THEN Cardinality({p \in personajes : p.servidor = 1}) ELSE 0

contarPersonajes(idCuenta) ==
    IF bdViva THEN Cardinality(Vivos(idCuenta)) ELSE 0

\* Mutant: leaves out the one who asks.
contarReclusos_SinElQuePide(idServidor) ==
    IF bdViva
    THEN Cardinality({p \in personajes : p.servidor = idServidor /\ ~ p.deleted}) - 1
    ELSE 0

contarReclusos(idServidor) ==
    IF bdViva
    THEN Cardinality({p \in personajes : p.servidor = idServidor /\ ~ p.deleted})
    ELSE 0

\* Mutant: a deleted character gives its nick back.
existeNick_SinBorrados(nick) ==
    bdViva /\ \E p \in personajes : p.nick = nick /\ ~ p.deleted

existeNick(nick) == bdViva /\ \E p \in personajes : p.nick = nick

\* The results of ORDER BY slot: rows with the same slot come in any order.
cargarPersonajes(idCuenta) ==
    LET S == IF bdViva THEN Vivos(idCuenta) ELSE {}
        n == Cardinality(S)
    IN  {s \in [1 .. n -> S] :
            /\ \A p \in S : \E i \in 1 .. n : s[i] = p
            /\ \A i, j \in 1 .. n : i < j => s[i].slot <= s[j].slot}

\* UNIQUE (nick) makes an INSERT of a nick in use fail.
ResultadosInsercion(nick) ==
    IF bdViva /\ \A p \in personajes : p.nick # nick
    THEN IF InsercionFalla THEN {Guardado, Fallo} ELSE {Guardado}
    ELSE {Fallo}

listarServidores == IF bdViva THEN NumPrisiones ELSE 0

-----------------------------------------------------------------------------
(* Reception and handshake: procesarPaquete.                               *)

Ociosa == \A k \in Claves : pendientes[k] = <<>>

\* ahora - ultimaActividad is a subtraction of uint32_t.
Caducada(c) == (ahora - c.ultimaActividad) % Palabra >= CaducidadUso

\* Every datagram of a known endpoint renews its ultimaActividad.
Tocada(k) ==
    IF Viva(k) THEN [conexiones[k] EXCEPT !.ultimaActividad = ahora]
               ELSE conexiones[k]

AnotarSilencio(k) ==
    inactivas' = inactivas \cup
        (IF Viva(k) /\ Caducada(conexiones[k]) THEN {conexiones[k].idConexion} ELSE {})

\* SYN: a fresh Conexion, also when the endpoint already had one.
RecibirSyn(k, u) ==
    /\ Ociosa
    /\ siguienteId <= MaxId
    /\ conexiones' = [conexiones EXCEPT ![k] =
          [SinConexion EXCEPT !.idConexion = siguienteId,
                              !.fase = "SynRespondido",
                              !.cuenta = buscarCuenta(u),
                              !.ultimaActividad = ahora,
                              !.idMensajeTx = IdInicial]]
    /\ siguienteId' = siguienteId + 1
    /\ AnotarSilencio(k)
    /\ UNCHANGED <<bd, pendientes, ahora, red>>

RecibirAck(k) ==
    /\ Ociosa
    /\ Viva(k)
    /\ conexiones' = [conexiones EXCEPT ![k] = [Tocada(k) EXCEPT !.fase = "Establecida"]]
    /\ AnotarSilencio(k)
    /\ UNCHANGED <<bd, siguienteId, pendientes, ahora, red>>

RecibirFin(k) ==
    /\ Ociosa
    /\ conexiones' = [conexiones EXCEPT ![k] = SinConexion]
    /\ AnotarSilencio(k)
    /\ UNCHANGED <<bd, siguienteId, pendientes, ahora, red>>

\* Data: nothing checks fase, nor that the datagram was not seen before.
RecibirDatos(k, d) ==
    /\ Ociosa
    /\ conexiones[k].idMensajeTx <= MaxIdMensaje
    /\ conexiones' = [conexiones EXCEPT ![k] = Tocada(k)]
    /\ pendientes' = [pendientes EXCEPT
          ![k] = IF Viva(k) /\ k \notin ClavesNulas THEN d ELSE <<>>]
    /\ AnotarSilencio(k)
    /\ UNCHANGED <<bd, siguienteId, ahora, red>>

-----------------------------------------------------------------------------
(* The records of a datagram: procesarDatos.                               *)

\* Mutant: SELECCIONAR forgets that JUGAR may have been granted.
Rama_EntraDosVeces(c, r) ==
    CASE r.op = "LOGIN" /\ ~ c.enviadoLogin -> "LOGIN"
      [] r.op = "JUGAR" /\ ~ c.enviadoEntrar -> "JUGAR"
      [] r.op = "SELECCIONAR" /\ c.enviadoLogin /\ EnterGame -> "SELECCIONAR"
      [] OTHER -> "NINGUNA"

\* Mutant: the heartbeat is answered before the LOGIN.
Rama_LatidoAntes(c, r) ==
    CASE r.op = "LOGIN" /\ ~ c.enviadoLogin -> "LOGIN"
      [] r.op = "LATIDO" /\ ~ c.enviadoAceptar -> "LATIDO"
      [] OTHER -> "NINGUNA"

\* The branch of the if / else-if chain that record r takes on connection c.
Rama(c, r) ==
    CASE r.op = "LOGIN" /\ ~ c.enviadoLogin -> "LOGIN"
      [] r.op = "CREAR_PERSONAJE" -> "CREAR_PERSONAJE"
      [] r.op = "LATIDO" /\ c.enviadoLogin /\ ~ c.enviadoAceptar -> "LATIDO"
      [] r.op = "PIDE_SERVIDORES" -> "PIDE_SERVIDORES"
      [] r.op = "JUGAR" /\ ~ c.enviadoEntrar -> "JUGAR"
      [] /\ r.op = "SELECCIONAR" /\ c.enviadoLogin
         /\ ~ c.enviadoEntrar /\ EnterGame -> "SELECCIONAR"
      [] OTHER -> "NINGUNA"

Toma(k, rama) ==
    /\ pendientes[k] # <<>>
    /\ Rama(conexiones[k], Head(pendientes[k])) = rama

Actual(k) == Head(pendientes[k])

\* Mutant: only connections that completed the handshake count.
cuentaYaConectada_SoloEstablecidas(k) ==
    \E j \in Claves \ {k} :
        /\ conexiones[j].cuenta.id = conexiones[k].cuenta.id
        /\ conexiones[j].enviadoLogin /\ conexiones[j].fase = "Establecida"
        /\ ~ Caducada(conexiones[j]) /\ Ip[j] # Ip[k]

\* Is the account in use from another address?  Any connection that ever
\* sent a LOGIN counts, whatever the verdict was, until it falls silent.
cuentaYaConectada(k) ==
    LET idCuenta == conexiones[k].cuenta.id
    IN  /\ idCuenta # 0
        /\ \E j \in Claves \ {k} :
              LET otra == conexiones[j]
              IN  /\ Viva(j)
                  /\ otra.cuenta.id = idCuenta /\ otra.enviadoLogin
                  /\ ~ Caducada(otra)
                  /\ Ip[j] # Ip[k]

\* The verdict uses the row read when the SYN came.
EstadoDe(k) ==
    evaluarEstado(conexiones[k].cuenta, Actual(k).hash, ahora, cuentaYaConectada(k))

\* Mutant: the bound of the slots is off by one.
Ranura_DosRanuras(p) == IF p.slot \in 0 .. 1 THEN p.slot ELSE 0

\* Three slots; a slot out of range shows in slot 0, the last row wins.
Ranura(p) == IF p.slot \in 0 .. 2 THEN p.slot ELSE 0

\* The creation block is copied over the name, which it begins with; the nick
\* only fills it when there is no block.  The fields written after it cut a name
\* that reaches them, and what a name without its final 0 shows of one that was
\* in the slot before is not in the model.
Rotulo(p) == IF p.datos = SinBloque THEN p.nick ELSE p.datos

Fichas(s) ==
    LET n == IF Len(s) > 3 THEN 3 ELSE Len(s)
    IN  {[slot |-> Ranura(s[i]), nick |-> Rotulo(s[i])] :
            i \in {h \in 1 .. n : \A j \in h + 1 .. n : Ranura(s[j]) # Ranura(s[h])}}

LoginAceptado(k) ==
    /\ Toma(k, "LOGIN")
    /\ EstadoDe(k) = "Ok"
    /\ \E s \in cargarPersonajes(conexiones[k].cuenta.id) :
          Responder(k, [conexiones[k] EXCEPT !.enviadoLogin = TRUE], TrozosCuenta,
                    <<AppFichas("CUENTA", 0, Fichas(s))>>)
    /\ UNCHANGED personajes

\* A rejected LOGIN also sets enviadoLogin.
LoginRechazado(k) ==
    /\ Toma(k, "LOGIN")
    /\ EstadoDe(k) # "Ok"
    /\ Responder(k, [conexiones[k] EXCEPT !.enviadoLogin = TRUE], 1,
                 <<App("LOGINRECHAZADO", estadoARechazo(EstadoDe(k)))>>)
    /\ UNCHANGED personajes

\* The nick that a creation block is stored under.
NickDe(datos) == IF datos \in {"", SinBloque} THEN "Recluso" ELSE Corto[datos]

NickPedido(k) == NickDe(Actual(k).datos)

NickRepetido(k) ==
    /\ Toma(k, "CREAR_PERSONAJE")
    /\ existeNick(NickPedido(k))
    /\ Responder(k, conexiones[k], 1, <<App("CHARERROR", 0)>>)
    /\ UNCHANGED personajes

\* Mutant: no test of the nick, and an INSERT that overwrites.
CrearPersonaje_Sobrescribe(k, guardado) ==
    /\ Toma(k, "CREAR_PERSONAJE") /\ bdViva /\ guardado = Guardado
    /\ LET idCuenta == conexiones[k].cuenta.id
           nuevo == [cuenta |-> idCuenta, slot |-> contarPersonajes(idCuenta),
                     nick |-> NickPedido(k), servidor |-> 1, deleted |-> FALSE,
                     datos |-> Actual(k).datos]
       IN  /\ personajes' = {p \in personajes : p.nick # nuevo.nick} \cup {nuevo}
           /\ Responder(k, conexiones[k], TrozosCreado,
                 <<AppFichas("CHARCREATED", guardado,
                             {[slot |-> nuevo.slot, nick |-> nuevo.nick]})>>)

\* CHARCREATED is sent whatever became of the INSERT.
CrearPersonaje(k, guardado) ==
    /\ Toma(k, "CREAR_PERSONAJE")
    /\ ~ existeNick(NickPedido(k))
    /\ LET idCuenta == conexiones[k].cuenta.id
           slot == IF idCuenta # 0 THEN contarPersonajes(idCuenta) ELSE 0
           nuevo == [cuenta |-> idCuenta, slot |-> slot, nick |-> NickPedido(k),
                     servidor |-> 1, deleted |-> FALSE, datos |-> Actual(k).datos]
       IN  /\ guardado \in IF idCuenta # 0 THEN ResultadosInsercion(nuevo.nick)
                                           ELSE {SinCuenta}
           /\ personajes' = IF guardado = Guardado THEN personajes \cup {nuevo}
                                                   ELSE personajes
           /\ Responder(k, conexiones[k], TrozosCreado,
                 <<AppFichas("CHARCREATED", guardado,
                             {[slot |-> slot % 256, nick |-> nuevo.nick]})>>)

Latido(k) ==
    /\ Toma(k, "LATIDO")
    /\ Responder(k, [conexiones[k] EXCEPT !.enviadoAceptar = TRUE], 1,
          <<App("LOGINACCEPTED", 0)>>
          \o (IF ListaRica THEN <<App("LOGINACCEPTED", 1)>> ELSE <<>>)
          \o (IF ClassInfo /\ bdViva THEN <<App("CLASSINFO", 0)>> ELSE <<>>)
          \o <<App("SERVERADDED", listarServidores)>>)
    /\ UNCHANGED personajes

PideServidores(k) ==
    /\ Toma(k, "PIDE_SERVIDORES")
    /\ Responder(k, conexiones[k], 1,
          <<App("SERVERADDED", listarServidores),
            App("AVAILABLESERVERS",
                IF listarServidores = 0 THEN 0 ELSE contarReclusos(1))>>)
    /\ UNCHANGED personajes

Jugar(k) ==
    /\ Toma(k, "JUGAR")
    /\ Responder(k, [conexiones[k] EXCEPT !.enviadoEntrar = TRUE], 1,
                 <<App("ENTERINGGAMEACCEPTED", Actual(k).pj)>>)
    /\ UNCHANGED personajes

Seleccionar(k) ==
    /\ Toma(k, "SELECCIONAR")
    /\ Responder(k, [conexiones[k] EXCEPT !.enviadoEntrar = TRUE,
                                          !.enviadoAceptar = TRUE], 1,
          (IF conexiones[k].enviadoAceptar THEN <<>>
           ELSE <<App("LOGINACCEPTED", 0), App("AVAILABLESERVERS", 0)>>)
          \o <<App("ENTERINGGAMEACCEPTED", 0)>>)
    /\ UNCHANGED personajes

\* An unknown opcode, or one whose guard fails, is skipped.
Saltar(k) ==
    /\ Toma(k, "NINGUNA")
    /\ Responder(k, conexiones[k], 1, <<>>)
    /\ UNCHANGED personajes

-----------------------------------------------------------------------------
(* What surrounds the server: the clock and the other users of MySQL.      *)

Tic ==
    /\ ahora < MaxReloj
    /\ ahora' = ahora + 1
    /\ UNCHANGED <<bd, conexiones, siguienteId, pendientes, red, inactivas>>

\* mysql_ is never reconnected.
CaeBd ==
    /\ BdFalla /\ bdViva
    /\ bdViva' = FALSE
    /\ UNCHANGED <<cuentas, personajes, conexiones, siguienteId, pendientes,
                   ahora, red, inactivas>>

\* An administrator edits the row of a user.
CambiarCuenta(u, fila) ==
    /\ fila # cuentas[u]
    /\ cuentas' = [cuentas EXCEPT ![u] = fila]
    /\ UNCHANGED <<personajes, bdViva, conexiones, siguienteId, pendientes,
                   ahora, red, inactivas>>

\* Another program marks a character as deleted.
BorrarPersonaje(p) ==
    /\ ~ p.deleted
    /\ Cardinality({q \in personajes : q.deleted}) < MaxBorrados
    /\ personajes' = (personajes \ {p}) \cup {[p EXCEPT !.deleted = TRUE]}
    /\ UNCHANGED <<cuentas, bdViva, conexiones, siguienteId, pendientes,
                   ahora, red, inactivas>>

-----------------------------------------------------------------------------
Init ==
    /\ cuentas \in {f \in [Usuarios -> UNION {FilasCuenta[u] : u \in Usuarios}] :
                        \A u \in Usuarios : f[u] \in FilasCuenta[u]}
    /\ personajes = {}
    /\ bdViva \in IF BdFalla THEN BOOLEAN ELSE {TRUE}
    /\ conexiones = [k \in Claves |-> SinConexion]
    /\ siguienteId = 1
    /\ pendientes = [k \in Claves |-> <<>>]
    /\ ahora = 1
    /\ red = {}
    /\ inactivas = {}

Recibir(k) ==
    \/ \E u \in Usuarios : RecibirSyn(k, u)
    \/ RecibirAck(k)
    \/ RecibirFin(k)
    \/ \E d \in Datagramas : RecibirDatos(k, d)

Atender(k) ==
    \/ LoginAceptado(k)
    \/ LoginRechazado(k)
    \/ NickRepetido(k)
    \/ \E guardado \in {SinCuenta, Guardado, Fallo} : CrearPersonaje(k, guardado)
    \/ Latido(k)
    \/ PideServidores(k)
    \/ Jugar(k)
    \/ Seleccionar(k)
    \/ Saltar(k)

Entorno ==
    \/ Tic
    \/ CaeBd
    \/ \E u \in Usuarios : \E fila \in FilasCuenta[u] : CambiarCuenta(u, fila)
    \/ \E p \in personajes : BorrarPersonaje(p)

Next == Entorno \/ \E k \in Claves : Recibir(k) \/ Atender(k)

Spec == Init /\ [][Next]_vars

-----------------------------------------------------------------------------
(* Properties.                                                             *)

TypeOK ==
    /\ cuentas \in [Usuarios -> Cuenta]
    /\ personajes \in SUBSET Personaje /\ IsFiniteSet(personajes)
    /\ bdViva \in BOOLEAN
    /\ conexiones \in [Claves -> Conexion]
    /\ siguienteId \in Nat \ {0}
    /\ pendientes \in [Claves -> Seq(Registro)]
    /\ ahora \in Nat
    /\ red \in SUBSET Mensaje
    /\ inactivas \in SUBSET Nat

\* The answers that a flag of Conexion allows once per connection.
Clase(m) ==
    CASE m.op \in {"CUENTA", "LOGINRECHAZADO"}     -> "veredicto"
      [] m.op = "LOGINACCEPTED" /\ m.codigo = 0    -> "aceptacion"
      [] m.op = "ENTERINGGAMEACCEPTED"             -> "entrada"
      [] OTHER                                     -> "otra"

\* However often the client repeats its records, one connection hears at most
\* one verdict on its LOGIN, one LOGINACCEPTED and one ENTERINGGAMEACCEPTED
\* (the flags of Conexion against retransmissions; JUGAR and SELECCIONAR
\* share one of them, LATIDO and SELECCIONAR another).
RespuestasUnicas ==
    \A m1, m2 \in red :
        m1.id = m2.id /\ Clase(m1) = Clase(m2) /\ Clase(m1) # "otra" => m1 = m2

ConClase(S) == {m \in S : Clase(m) # "otra"}

Dadas == {[sesion |-> m.id, n |-> m.n, clase |-> Clase(m)] : m \in ConClase(red)}

Servicio == INSTANCE ServicioLogin WITH
    abiertas <- [k \in Claves |-> conexiones[k].idConexion],
    ultima   <- siguienteId - 1,
    dadas    <- Dadas

\* The server with its flags, its transport that repeats and reorders, its
\* message ids and its tables implements the service: no interleaving of
\* SYN, FIN and records gives a session two answers of a class, an acceptance
\* before a verdict, or anything once it is replaced or closed.
ImplementaServicio == Servicio!Spec

IdsDe(m) == m.n .. m.n + m.trozos - 1

\* The client matches ACKs and reassembles fragments by message id: on every
\* connection the ids of the messages, fragments included, are taken once
\* each and leave no hole up to idMensajeTx.
NumeracionContinua ==
    /\ \A m1, m2 \in red :
          m1.id = m2.id /\ m1 # m2 => IdsDe(m1) \cap IdsDe(m2) = {}
    /\ \A k \in Claves : Viva(k) =>
          UNION {IdsDe(m) : m \in {x \in red : x.id = conexiones[k].idConexion}}
             = IdInicial + 1 .. conexiones[k].idMensajeTx

Autenticada(k) ==
    /\ Viva(k)
    /\ \E m \in red : m.id = conexiones[k].idConexion /\ m.op = "CUENTA"

\* k has been silent for CADUCIDAD_USO, now or at some time since its SYN.
CalloDemasiado(k) ==
    conexiones[k].idConexion \in inactivas \/ Caducada(conexiones[k])

\* Two addresses hold authenticated sessions of one account only if one of
\* them let its session expire: cuentaYaConectada keeps out every other
\* client as long as the first one keeps talking, through any order of SYN,
\* LOGIN, FIN and reconnections.
SesionUnica ==
    \A j, k \in Claves :
        /\ Ip[j] # Ip[k]
        /\ Autenticada(j) /\ Autenticada(k)
        /\ conexiones[j].cuenta.id = conexiones[k].cuenta.id
        => CalloDemasiado(j) \/ CalloDemasiado(k)

\* The slots of the characters of an account that never lost one are
\* 0 .. n-1, each taken once, whichever connections created them: the slot
\* is a count taken before the INSERT.
RanurasContiguas ==
    \A p \in personajes :
        (\A q \in personajes : q.cuenta = p.cuenta => ~ q.deleted) =>
            {q.slot : q \in Vivos(p.cuenta)} = 0 .. Cardinality(Vivos(p.cuenta)) - 1

Creacion(m) == m.op = "CHARCREATED" /\ m.codigo = Guardado

\* The stored characters and the CHARCREATED that announced a successful
\* INSERT match one to one: a repeated CREAR_PERSONAJE neither stores a
\* character twice nor announces it twice, and nicks are unique.
CreadoUnaVez ==
    /\ \A p \in personajes :
          \E m \in red : Creacion(m) /\ m.fichas = {[slot |-> p.slot % 256, nick |-> p.nick]}
    /\ \A m1, m2 \in red : Creacion(m1) /\ Creacion(m2) =>
          /\ \E p \in personajes : \E f \in m1.fichas : p.nick = f.nick
          /\ m1 # m2 => m1.fichas \cap m2.fichas = {}
    /\ \A p, q \in personajes : p.nick = q.nick => p = q

\* With MySQL alive and no INSERT failing by itself, the test of existeNick
\* is enough: no CHARCREATED ever follows an INSERT refused by UNIQUE (nick),
\* also when a deleted character holds the nick.
InsercionPrevista ==
    \A m \in red : m.op = "CHARCREATED" /\ m.codigo = Fallo => ~ bdViva \/ InsercionFalla

Nuevos == red' \ red

\* The CUENTA of an account with at most three characters, none of them ever
\* deleted, has one card for each of them in its own slot and no other: the slots
\* chosen at creation do not collide when the account structure is filled.  A card
\* shows the nick stored, but for a creation block with a name that was not stored
\* as it came: the empty one, stored as "Recluso", and one over 31 characters,
\* stored cut.
CuentaCompletaPaso ==
    \A k \in Claves : \A m \in Nuevos :
        LET S == Vivos(conexiones[k].cuenta.id)
        IN  /\ m.op = "CUENTA" /\ m.id = conexiones[k].idConexion
            /\ bdViva /\ Cardinality(S) <= 3
            /\ \A q \in personajes : q.cuenta = conexiones[k].cuenta.id => ~ q.deleted
            => m.fichas =
                 {[slot |-> p.slot,
                   nick |-> IF p.datos \in Nicks \cup {SinBloque} THEN p.nick
                                                                ELSE p.datos] : p \in S}
CuentaCompleta == [][CuentaCompletaPaso]_vars

-----------------------------------------------------------------------------
(* What comments of the source say and the code does not do.               *)

\* estados_cuenta.hpp:56, "ya hay una sesion activa": a LOGIN is refused with
\* CUENTA_EN_USO only while another connection of the account is authenticated.
EnUsoRealPaso ==
    \A m \in Nuevos :
        m.op = "LOGINRECHAZADO" /\ m.codigo = estadoARechazo("YaConectada") =>
            \E j \in Claves : Autenticada(j) /\ conexiones[j].idConexion # m.id
EnUsoReal == [][EnUsoRealPaso]_vars

\* opcodes.hpp:52, CHARCREATED "confirma que el personaje se creo".
CreadoImplicaGuardado ==
    \A m \in red : m.op = "CHARCREATED" => m.codigo = Guardado
==============================================================================
