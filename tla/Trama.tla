-------------------------------- MODULE Trama --------------------------------
(***************************************************************************)
(* Application messages on the wire: the chain of records that             *)
(* componerMensajeApp writes and that the loop of procesarDatos reads, and *)
(* the split of enviarFragmentado.  Byte buffers are sequences: index      *)
(* j + 1 holds the byte at offset j.                                       *)
(***************************************************************************)
EXTENDS Integers, Sequences

TAM_CABECERA == 22

escribir16(v) == <<v % 256, (v \div 256) % 256>>
escribir32(v) == escribir16(v) \o <<(v \div 65536) % 256, (v \div 16777216) % 256>>

leer32(b, off) ==
    b[off + 1] + 256 * b[off + 2] + 65536 * b[off + 3] + 16777216 * b[off + 4]

Prefijo(id) == escribir32(id) \o escribir32(1)

Registro(id, app) == escribir32(8 + Len(app)) \o Prefijo(id) \o app

componerMensajeApp(id, app) == Prefijo(id) \o Registro(id, app) \o escribir32(0)

\* What the client sends: any number of records in one payload.
Agrupar(id, apps) ==
    LET pay[k \in 0 .. Len(apps)] ==
            IF k = 0 THEN Prefijo(id) ELSE pay[k - 1] \o Registro(id, apps[k])
    IN  pay[Len(apps)] \o escribir32(0)

\* The application data of each record from `pos` on, until one has length 0
\* or does not fit.
Registros(pay, pos) ==
    LET desde[p \in 0 .. Len(pay)] ==
            LET len == IF p + 4 <= Len(pay) THEN leer32(pay, p) ELSE 0
            IN  IF len < 8 \/ p + 4 + len > Len(pay) THEN << >>
                ELSE <<SubSeq(pay, p + 13, p + 4 + len)>> \o desde[p + 4 + len]
    IN  desde[pos]

\* The records that procesarDatos handles; a payload shorter than a header has
\* none.
RegistrosDe(pay) == IF Len(pay) < TAM_CABECERA THEN << >> ELSE Registros(pay, 8)

NumFragmentos(l, trozo) == IF l = 0 THEN 1 ELSE (l + trozo - 1) \div trozo

\* The fragments of enviarFragmentado: how many, which, and the payload in clear.
Fragmentos(id, M, trozo) ==
    LET num == NumFragmentos(Len(M), trozo)
        hasta(k) == IF (k + 1) * trozo < Len(M) THEN (k + 1) * trozo ELSE Len(M)
    IN  {[ventana |-> num % 256, ack |-> k % 256,
          payload |-> Prefijo(id) \o SubSeq(M, k * trozo + 1, hasta(k))] : k \in 0 .. num - 1}
==============================================================================
