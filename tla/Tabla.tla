-------------------------------- MODULE Tabla --------------------------------
(***************************************************************************)
(* The way of a compressed table (the rich list of prisons, CLASSINFO):    *)
(* the client's grouped records, the compressor of Compresor writing its   *)
(* bits, the message in one packet or in fragments, the cipher, and the    *)
(* client that puts the fragments together and inflates.                   *)
(***************************************************************************)
EXTENDS Compresor, Cifrado, Trama

CONSTANTS
    Casos,         \* connections and what the client groups in its datagram
    Trozo,         \* TROZO of enviarFragmentado
    MaxBloque      \* 0xFFFF of comprimirZlibStored

Octeto == 0 .. 255

\* Bytes are bytes; the limits are those of the format.
ASSUME FormatoAssumption ==
    /\ Byte \subseteq Octeto
    /\ MaxMatch <= 258 /\ MaxDist <= 32768
    /\ MaxBloque \in 1 .. 65535

\* A table fits the arrays of the callers, and so a datagram and the one byte
\* that numbers the fragments.
ASSUME EntradasAssumption ==
    /\ Trozo \in Nat \ {0}
    /\ \A e \in Entradas : LET l == Cardinality(DOMAIN e) IN
          l + l \div 8 + 24 <= 255 * Trozo /\ l + l \div 8 <= 65000

\* What the client groups fits a datagram.
Datos == {a \in Seq(Octeto) : Len(a) <= 65535}

ASSUME CasosAssumption ==
    \A c \in Casos :
        /\ c.id \in Nat /\ c.clave \in [1 .. 4 -> Octeto]
        /\ c.pedidos \in Seq(Datos)

VARIABLES
    caso,          \* [id, clave, pedidos] of the connection
    tramo,         \* how far the table is
    leidos,        \* the records that the server handled
    escritor,      \* what EscritorBits b wrote
    salida,        \* the zlib stream
    paquetes,      \* the packets on their way, payload enciphered
    trozos,        \* the payloads that the client deciphered, by their ack
    mensaje,       \* the message they make
    lugar,         \* the bit of its stream where the next symbol begins
    recibida       \* the table as far as the client has inflated it

cliente == <<trozos, mensaje, lugar, recibida>>
varsTabla == <<varsCompresor, caso, tramo, leidos, escritor, salida, paquetes, cliente>>

LOGINACCEPTED == 5077
CLASSINFO == 5058

Bytes(e) == [j \in 1 .. Cardinality(DOMAIN e) |-> e[j - 1]]

InitTabla ==
    /\ Init
    /\ caso \in Casos /\ tramo = "pedir" /\ leidos = << >>
    /\ escritor = EscritorVacio /\ salida = << >>
    /\ paquetes = {}
    /\ trozos = << >> /\ mensaje = << >> /\ lugar = 0 /\ recibida = << >>

-----------------------------------------------------------------------------
(* The server.                                                             *)

\* procesarDatos: decipher, then every record in turn.
ProcesarDatos ==
    /\ tramo = "pedir"
    /\ LET pay == cifrar(Agrupar(caso.id, caso.pedidos), caso.clave)
       IN  leidos' = RegistrosDe(descifrar(pay, caso.clave))
    /\ tramo' = "comprimir"
    /\ escritor' = Put(Put(EscritorVacio, 1, 1), 1, 2)
    /\ UNCHANGED <<varsCompresor, caso, salida, paquetes, cliente>>

\* A step of the compressor writes the token it emits, if any.
Comprimir ==
    /\ tramo = "comprimir" /\ Next
    /\ escritor' =
          IF fichas' = fichas THEN escritor
          ELSE LET f == fichas'[Len(fichas')]
               IN  IF f.dist = 0 THEN emitirSimbolo(escritor, entrada[f.en])
                   ELSE EscribirCoincidencia(escritor, f.lon, f.dist)
    /\ UNCHANGED <<caso, tramo, leidos, salida, paquetes, cliente>>

\* End of block, flush, checksum.
AcabarFlujo ==
    /\ tramo = "comprimir" /\ fase = "mirar" /\ i = n
    /\ escritor' = Flush(emitirSimbolo(escritor, 256))
    /\ salida' = Cabecera \o Escrito(escritor') \o BytesAdler(Bytes(entrada))
    /\ tramo' = "enviar"
    /\ UNCHANGED <<varsCompresor, caso, leidos, paquetes, cliente>>

\* [opcode][count][size][compressed size][zlib]
Mensaje(opcode, count) ==
    escribir16(opcode) \o escribir32(count) \o escribir32(n) \o escribir32(Len(salida)) \o salida

Cifrada(p) == [p EXCEPT !.payload = cifrar(@, caso.clave)]

EnviarListaRica ==
    /\ tramo = "enviar" /\ tramo' = "recibir"
    /\ paquetes' = {Cifrada(p) : p \in Fragmentos(caso.id, Mensaje(LOGINACCEPTED, 1), Trozo)}
    /\ UNCHANGED <<varsCompresor, caso, leidos, escritor, salida, cliente>>

EnviarClassInfo ==
    /\ tramo = "enviar" /\ tramo' = "recibir"
    /\ paquetes' = {Cifrada([ventana |-> 1, ack |-> 0,
                     payload |-> componerMensajeApp(caso.id, Mensaje(CLASSINFO, 0))])}
    /\ UNCHANGED <<varsCompresor, caso, leidos, escritor, salida, cliente>>

-----------------------------------------------------------------------------
(* The client, as the comments of the code tell of it: packets in any      *)
(* order, fragments joined by ack, a single packet read as records if it   *)
(* is a chain of them, and an inflate written from RFC 1951.               *)

Reunir(ventana, partes) ==
    LET junto[k \in 0 .. ventana] ==
            IF k = 0 THEN << >>
            ELSE junto[k - 1] \o SubSeq(partes[k - 1], 9, Len(partes[k - 1]))
        registros == RegistrosDe(partes[0])
    IN  IF ventana = 1 /\ registros # << >> THEN registros[1] ELSE junto[ventana]

\* The stream of a message, and the bytes that its header says it has.
Flujo(M) == SubSeq(M, 15, 14 + leer32(M, 10))
Tamano(M) == leer32(M, 6)

\* The value of l bits from position b (from 0) on, the low one first.
BitsBajos(z, b, l) ==
    LET bit(p) == IF p \div 8 < Len(z) THEN (z[p \div 8 + 1] \div 2^(p % 8)) % 2 ELSE 0
        v[k \in 0 .. l] == IF k = 0 THEN 0 ELSE v[k - 1] + bit(b + k - 1) * 2^(k - 1)
    IN  v[l]

\* A code: the high bit first.
Codigo(z, b, l) == invertir(BitsBajos(z, b, l), l)

\* The packet p arrives; with the last one, the header of the table is read.
ClienteRecibe(p) ==
    /\ tramo = "recibir"
    /\ trozos' = [a \in DOMAIN trozos \cup {p.ack} |->
                    IF a = p.ack THEN descifrar(p.payload, caso.clave) ELSE trozos[a]]
    /\ paquetes' = paquetes \ {p}
    /\ IF Cardinality(DOMAIN trozos') = p.ventana
       THEN /\ mensaje' = Reunir(p.ventana, trozos')
            /\ LET z == Flujo(mensaje')
               IN  tramo' = IF 256 * z[1] + z[2] = 30721 /\ BitsBajos(z, 16, 3) = 3
                            THEN "inflar" ELSE "rota"
            /\ lugar' = 19
       ELSE UNCHANGED <<mensaje, tramo, lugar>>
    /\ UNCHANGED <<varsCompresor, caso, leidos, escritor, salida, recibida>>

\* The symbol at bit b and where it ends: its first seven bits say how long it is.
Simbolo(z, b) ==
    LET c == Codigo(z, b, 7)
    IN  CASE c < 24 -> [es |-> 256 + c, fin |-> b + 7]
          [] c \in 24 .. 95 -> [es |-> Codigo(z, b, 8) - 48, fin |-> b + 8]
          [] c \in 96 .. 99 -> [es |-> 280 + Codigo(z, b, 8) - 192, fin |-> b + 8]
          [] OTHER -> [es |-> 144 + Codigo(z, b, 9) - 400, fin |-> b + 9]

\* After a length of symbol s whose extra bits begin at b: the length, the
\* distance, and where they end.
Repeticion(z, s, b) ==
    LET le == IF s < 265 \/ s = 285 THEN 0 ELSE (s - 261) \div 4
        lon == CASE s < 265 -> s - 254
                 [] s = 285 -> 258
                 [] OTHER -> (4 + ((s - 265) % 4)) * 2^le + 3 + BitsBajos(z, b, le)
        d == Codigo(z, b + le, 5)
        de == IF d < 4 THEN 0 ELSE (d - 2) \div 2
        dist == IF d < 4 THEN d + 1
                ELSE (2 + (d % 2)) * 2^de + 1 + BitsBajos(z, b + le + 5, de)
    IN  [lon |-> lon, dist |-> dist, fin |-> b + le + 5 + de]

Copiar(out, lon, dist) ==
    out \o [k \in 1 .. lon |-> out[Len(out) - dist + 1 + ((k - 1) % dist)]]

\* The symbol that the client is about to take.
Leido == Simbolo(Flujo(mensaje), lugar)

SigueInflando ==
    /\ tramo = "inflar"
    /\ UNCHANGED <<varsCompresor, caso, leidos, escritor, salida, paquetes, trozos, mensaje>>

InflarLiteral ==
    /\ SigueInflando /\ Leido.es < 256
    /\ recibida' = Append(recibida, Leido.es)
    /\ lugar' = Leido.fin
    /\ UNCHANGED tramo

InflarRepeticion ==
    /\ SigueInflando /\ Leido.es > 256
    /\ LET r == Repeticion(Flujo(mensaje), Leido.es, Leido.fin)
       IN  IF r.dist > Len(recibida)
           THEN tramo' = "rota" /\ UNCHANGED <<recibida, lugar>>
           ELSE /\ recibida' = Copiar(recibida, r.lon, r.dist)
                /\ lugar' = r.fin
                /\ UNCHANGED tramo

\* The end of the block: the table is taken if its size and checksum are right.
FinDeBloque ==
    /\ SigueInflando /\ Leido.es = 256
    /\ LET z == Flujo(mensaje)
       IN  tramo' = IF /\ Len(recibida) = Tamano(mensaje)
                       /\ SubSeq(z, Len(z) - 3, Len(z)) = BytesAdler(recibida)
                    THEN "leida" ELSE "rota"
    /\ UNCHANGED <<lugar, recibida>>

Leida == tramo \in {"leida", "rota"} /\ UNCHANGED varsTabla

NextTabla ==
    \/ ProcesarDatos
    \/ Comprimir
    \/ AcabarFlujo
    \/ EnviarListaRica
    \/ EnviarClassInfo
    \/ \E p \in paquetes : ClienteRecibe(p)
    \/ InflarLiteral \/ InflarRepeticion \/ FinDeBloque
    \/ Leida

SpecTabla == InitTabla /\ [][NextTabla]_varsTabla

\* comprimirZlib is a loop in one thread, which nothing stops.
Bucle == tramo = "comprimir" /\ Next

SpecTablaJusta == SpecTabla /\ WF_varsCompresor(Bucle)

-----------------------------------------------------------------------------
(* Properties.                                                             *)

\* The server handles exactly the records that the client grouped, in order.
RegistrosLeidos == tramo # "pedir" => leidos = caso.pedidos

\* The client inflates the table that was compressed, whatever the way, the
\* split and the order of the packets, and finds nothing wrong with it.
TablaLlega ==
    /\ tramo # "rota"
    /\ tramo = "leida" => recibida = Bytes(entrada)

\* The stream of n bytes fits a buffer of n + n / 8 + 10: the callers' buffers
\* (512 for 256, 4096 and 16384 for tables) are as large only if this holds.
TamanoAcotado == Len(salida) <= n + n \div 8 + 10

\* Where the distances change code, with their neighbours.
Fronteras == {DBASE[k] + x : k \in 1 .. Len(DBASE), x \in -1 .. 1} \cap 1 .. 32768

\* The code of a length or distance begins at or below it, and its extra bits
\* hold the rest.
LongitudExacta(len) == LET k == indiceLongitud(len) + 1 IN
    LBASE[k] <= len /\ len - LBASE[k] < 2^LEXTRA[k]
DistanciaExacta(d) == LET k == indiceDistancia(d) + 1 IN
    DBASE[k] <= d /\ d - DBASE[k] < 2^DEXTRA[k]

\* Every length, and every distance up to 32768, has the code whose extra bits
\* hold the rest: the tables leave no gap, and the search in them falls on
\* neither side of a boundary.  (It is about constants, and is looked at only
\* before the flow of the empty buffer begins.)
CodigosExactos ==
    n = 0 /\ tramo = "pedir" =>
        /\ \A len \in 3 .. 258 : LongitudExacta(len)
        /\ \A d \in Fronteras \cup {32768} : DistanciaExacta(d)

\* What inflate makes of a stored stream.
LeerBloques(z) ==
    LET desde[p \in 0 .. Len(z)] ==
            LET sigue == p + 5 + z[p + 2] + 256 * z[p + 3]
            IN  IF \/ p + 5 > Len(z) \/ sigue > Len(z)
                   \/ z[p + 4] # 255 - z[p + 2] \/ z[p + 5] # 255 - z[p + 3]
                THEN <<"no">>
                ELSE SubSeq(z, p + 6, sigue) \o
                     (IF z[p + 1] # 1 THEN desde[sigue]
                      ELSE IF Len(z) = sigue + 4 THEN << >> ELSE <<"no">>)
    IN  desde[2]

\* The stored stream gives back its input, also when it is empty or fills its
\* blocks exactly.
StoredFiel ==
    tramo = "pedir" =>
        LET z == comprimirZlibStored(Bytes(entrada), MaxBloque)
        IN  LeerBloques(z) = Bytes(entrada)

\* The search and the insertion end for every buffer.
Acaba == tramo = "comprimir" ~> fase = "mirar" /\ i = n
==============================================================================
