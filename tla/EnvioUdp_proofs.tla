---------------------------- MODULE EnvioUdp_proofs ----------------------------
(***************************************************************************)
(* Types of the sending helpers, and what the static arrays guarantee      *)
(* under any number of threads, connections and fragments: a packet is     *)
(* spoilt by a real overlap only, and the packets of enviarFragmentado     *)
(* never are.                                                              *)
(***************************************************************************)
EXTENDS EnvioUdp, TLAPS

Dentro(h) == llamada[h].paso # "fuera"

Cuerpo(l) == [sesion |-> l.sesion, mensaje |-> l.mensaje, i |-> l.i]

\* The call of h is one of its own connections, and pedidos ends with the
\* packets it has still to send.
LlamadaOK(h) ==
    Dentro(h) =>
        LET l == llamada[h]
            s == l.sesion
        IN  /\ s \in Sesiones /\ HiloDe[s] = h
            /\ l.op = "enviarFragmentado" => h \in Fragmentan
            /\ l.i < l.numFrag
            /\ Len(pedidos[s]) = Len(salida[s]) + l.numFrag - l.i
            /\ \A n \in Len(salida[s]) + 1 .. Len(pedidos[s]) :
                  pedidos[s][n] = [mensaje |-> l.mensaje, ventana |-> l.numFrag,
                                   i |-> l.i + (n - Len(salida[s]) - 1)]

Numerado(h) == llamada[h].paso \in {"copia", "cifra", "envia"}

\* Unless another thread wrote there, the array holds what h has done so far.
Progreso(h) ==
    ~ solape[h] =>
        LET l == llamada[h]
            p == bufer[BuferDe(l.op)]
        IN  /\ l.paso \in {"numero", "copia", "cifra", "envia"} =>
                  p.sesion = l.sesion /\ p.ventana = l.numFrag /\ p.ack = l.i
            /\ Numerado(h) => p.idMensaje = Len(salida[l.sesion]) + 1
            /\ l.paso \in {"cifra", "envia"} => p.datos = Cuerpo(l)
            /\ l.paso = "cifra" => p.claves = <<>>
            /\ l.paso = "envia" => p.claves = <<l.sesion>>

\* Nobody else writes the array of enviarFragmentado.
FragmentoSolo(h) ==
    /\ llamada[h].op = "enviarFragmentado"
    /\ llamada[h].paso \in {"numero", "copia", "cifra", "envia"}
    => ~ solape[h]

EnMano(s) == Dentro(HiloDe[s]) /\ llamada[HiloDe[s]].sesion = s

\* Between two calls every packet asked for has been sent, and the counter of
\* ids is the number of packets, or one more while one is being built.
CuentaOK(s) ==
    /\ ~ EnMano(s) => Len(pedidos[s]) = Len(salida[s])
    /\ idMensajeTx[s] = Len(salida[s]) + IF EnMano(s) /\ Numerado(HiloDe[s]) THEN 1 ELSE 0

SalidaOK(s) ==
    \A n \in DOMAIN salida[s] :
        /\ ~ salida[s][n].solapado => Integro(s, n)
        /\ salida[s][n].op = "enviarFragmentado" => ~ salida[s][n].solapado

InvEnvio ==
    /\ TypeOK
    /\ \A h \in Hilos : LlamadaOK(h) /\ Progreso(h) /\ FragmentoSolo(h)
    /\ \A s \in Sesiones : CuentaOK(s) /\ SalidaOK(s)

-----------------------------------------------------------------------------
\* A zeroed array is a packet.
LEMMA CerosEsPaquete == Ceros \in Paquete
BY DEF Ceros, Paquete

\* The invariant holds before any call.
LEMMA InicioEnvio == Init => InvEnvio
<1> SUFFICES ASSUME Init PROVE InvEnvio
  OBVIOUS
<1>1. TypeOK
  <2>1. Ceros \in Paquete
    BY CerosEsPaquete
  <2>2. bufer \in [{BuferDe(op) : op \in Operacion} -> Paquete]
    BY <2>1 DEF Init
  <2>3. llamada \in [Hilos -> Llamada]
    BY DEF Init, Llamada, Operacion, Paso
  <2> QED
    BY <2>2, <2>3 DEF Init, TypeOK
<1>2. \A h \in Hilos : llamada[h].paso = "fuera"
  BY DEF Init
<1>3. ASSUME NEW h \in Hilos PROVE LlamadaOK(h) /\ Progreso(h) /\ FragmentoSolo(h)
  BY <1>2 DEF LlamadaOK, Progreso, FragmentoSolo, Dentro, Numerado, En
<1>4. ASSUME NEW s \in Sesiones PROVE CuentaOK(s) /\ SalidaOK(s)
  <2>1. HiloDe[s] \in Hilos
    BY EnvioAssumption
  <2>2. ~ EnMano(s)
    BY <2>1, <1>2 DEF EnMano, Dentro
  <2>3. salida[s] = <<>> /\ pedidos[s] = <<>> /\ idMensajeTx[s] = 0
    BY DEF Init
  <2> QED
    BY <2>2, <2>3 DEF CuentaOK, SalidaOK
<1> QED
  BY <1>1, <1>3, <1>4 DEF InvEnvio

\* A step that writes the array: calls, counts of packets and the progress of
\* the other threads survive it; what is left is the progress of h itself.
LEMMA Escritura ==
  ASSUME InvEnvio, NEW h \in Hilos, NEW p \in Paquete, NEW q \in Paso,
         Dentro(h), q \in {"numero", "copia", "cifra", "envia"},
         Escribe(h, p), Sigue(h, q), UNCHANGED <<salida, pedidos>>
  PROVE  /\ bufer' \in [{BuferDe(op) : op \in Operacion} -> Paquete]
         /\ bufer'[BuferDe(llamada[h].op)] = p
         /\ llamada' \in [Hilos -> Llamada]
         /\ llamada'[h] = [llamada[h] EXCEPT !.paso = q]
         /\ solape' \in [Hilos -> BOOLEAN]
         /\ solape[h] /\ ~ En(h, "cabecera") => solape'[h]
         /\ \A g \in Hilos : LlamadaOK(g)' /\ FragmentoSolo(g)'
         /\ \A g \in Hilos \ {h} : Progreso(g)'
         /\ \A s \in Sesiones : SalidaOK(s)'
<1> DEFINE l == llamada[h]
<1>0. llamada \in [Hilos -> Llamada] /\ l \in Llamada /\ l.op \in Operacion
  BY DEF InvEnvio, TypeOK, Llamada
<1>1. bufer' \in [{BuferDe(op) : op \in Operacion} -> Paquete] /\ bufer'[BuferDe(l.op)] = p
  BY <1>0 DEF Escribe, InvEnvio, TypeOK
<1>2. llamada' \in [Hilos -> Llamada] /\ llamada'[h] = [l EXCEPT !.paso = q]
  BY <1>0 DEF Sigue, Llamada
<1>3. \A g \in Hilos \ {h} : llamada'[g] = llamada[g]
  BY <1>0 DEF Sigue
<1>4. \A b \in {BuferDe(op) : op \in Operacion} : b # BuferDe(l.op) => bufer'[b] = bufer[b]
  BY <1>0 DEF Escribe, InvEnvio, TypeOK
<1>5. solape' \in [Hilos -> BOOLEAN]
  BY <1>0 DEF Escribe, InvEnvio, TypeOK
<1>6. solape[h] /\ ~ En(h, "cabecera") => solape'[h]
  BY DEF Escribe
<1>7. ASSUME NEW g \in Hilos PROVE LlamadaOK(g)'
  <2>1. CASE g = h
    <3>1. /\ llamada'[h].op = l.op /\ llamada'[h].sesion = l.sesion
          /\ llamada'[h].mensaje = l.mensaje /\ llamada'[h].numFrag = l.numFrag
          /\ llamada'[h].i = l.i
      BY <1>0, <1>2 DEF Llamada
    <3>2. LlamadaOK(h) /\ Dentro(h)
      BY DEF InvEnvio
    <3> QED
      BY <2>1, <3>1, <3>2 DEF LlamadaOK
  <2>2. CASE g # h
    <3>1. LlamadaOK(g)
      BY DEF InvEnvio
    <3>2. llamada'[g] = llamada[g] /\ salida' = salida /\ pedidos' = pedidos
      BY <2>2, <1>3
    <3> QED
      BY <3>1, <3>2 DEF LlamadaOK, Dentro
  <2> QED
    BY <2>1, <2>2
<1>8. ASSUME NEW g \in Hilos PROVE FragmentoSolo(g)'
  <2>1. CASE g = h
    <3> SUFFICES ASSUME l.op = "enviarFragmentado" PROVE ~ solape'[h]
      BY <2>1, <1>0, <1>2 DEF FragmentoSolo, Llamada
    <3>1. CASE En(h, "cabecera")
      BY <3>1 DEF Escribe
    <3>2. CASE ~ En(h, "cabecera")
      <4>1. l.paso \in {"numero", "copia", "cifra", "envia"}
        BY <3>2, <1>0 DEF Dentro, En, Llamada, Paso
      <4>2. ~ solape[h]
        BY <4>1 DEF InvEnvio, FragmentoSolo
      <4> QED
        BY <4>2 DEF Escribe
    <3> QED
      BY <3>1, <3>2
  <2>2. CASE g # h
    <3> SUFFICES ASSUME llamada[g].op = "enviarFragmentado",
                        llamada[g].paso \in {"numero", "copia", "cifra", "envia"}
                 PROVE  ~ solape'[g]
      BY <2>2, <1>3 DEF FragmentoSolo
    <3>1. g \in Fragmentan /\ ~ solape[g]
      BY DEF InvEnvio, LlamadaOK, FragmentoSolo, Dentro, En
    <3>2. l.op # "enviarFragmentado"
      BY <2>2, <3>1, EnvioAssumption DEF InvEnvio, LlamadaOK
    <3> QED
      BY <2>2, <3>1, <3>2 DEF Escribe, BuferDe
  <2> QED
    BY <2>1, <2>2
<1>9. ASSUME NEW g \in Hilos \ {h} PROVE Progreso(g)'
  <2>1. llamada'[g] = llamada[g] /\ llamada[g] \in Llamada
    BY <1>0, <1>3
  <2>2. CASE llamada[g].paso \in {"numero", "copia", "cifra", "envia"} /\ llamada[g].op = l.op
    BY <2>1, <2>2 DEF Escribe, Progreso
  <2>3. CASE llamada[g].paso \in {"numero", "copia", "cifra", "envia"} /\ llamada[g].op # l.op
    <3>1. bufer'[BuferDe(llamada[g].op)] = bufer[BuferDe(llamada[g].op)]
      BY <2>1, <2>3, <1>4 DEF BuferDe, Llamada
    <3>2. solape'[g] <=> solape[g]
      BY <2>3 DEF Escribe, BuferDe, InvEnvio, TypeOK
    <3>3. Progreso(g)
      BY DEF InvEnvio
    <3> SUFFICES ASSUME ~ solape'[g] PROVE Progreso(g)'
      BY DEF Progreso
    <3>4. ~ solape[g] /\ salida' = salida
      BY <3>2
    <3> QED
      BY <2>1, <3>1, <3>3, <3>4 DEF Progreso, Numerado, Cuerpo
  <2>4. CASE llamada[g].paso \notin {"numero", "copia", "cifra", "envia"}
    BY <2>1, <2>4 DEF Progreso, Numerado
  <2> QED
    BY <2>2, <2>3, <2>4
<1>10. ASSUME NEW s \in Sesiones PROVE SalidaOK(s)'
  BY DEF InvEnvio, SalidaOK, Integro
<1> QED
  BY <1>1, <1>2, <1>5, <1>6, <1>7, <1>8, <1>9, <1>10

-----------------------------------------------------------------------------
(* One lemma per step of a call.                                           *)

Datos == [sesion : Sesiones \cup {Ninguna}, mensaje : Nat, i : Nat]

\* The fields of a packet may be replaced one by one.
LEMMA CambiarPaquete ==
  ASSUME NEW b \in Paquete
  PROVE  /\ \A n \in Nat : [b EXCEPT !.idMensaje = n] \in Paquete
         /\ \A d \in Datos, c \in Seq(Sesiones) :
               [b EXCEPT !.datos = d, !.claves = c] \in Paquete
         /\ \A c \in Seq(Sesiones) : [b EXCEPT !.claves = c] \in Paquete
         /\ \A s \in Sesiones \cup {Ninguna}, v, a \in Nat :
               [b EXCEPT !.sesion = s, !.ventana = v, !.ack = a] \in Paquete
<1>1. Paquete = [sesion : Sesiones \cup {Ninguna}, ventana : Nat, ack : Nat,
                 idMensaje : Nat, datos : Datos, claves : Seq(Sesiones)]
  BY DEF Paquete, Datos
<1> QED
  BY <1>1
\* A fresh header: nothing of the packet before is left in the array.
LEMMA PasoCabecera ==
  ASSUME InvEnvio, NEW h \in Hilos, Cabecera(h)
  PROVE  InvEnvio'
<1> DEFINE l == llamada[h]
           p == [Ceros EXCEPT !.sesion = l.sesion, !.ventana = l.numFrag, !.ack = l.i]
<1>0. l \in Llamada /\ Dentro(h) /\ l.paso = "cabecera"
  BY DEF InvEnvio, TypeOK, Cabecera, En, Dentro
<1>1. p \in Paquete /\ p.sesion = l.sesion /\ p.ventana = l.numFrag /\ p.ack = l.i
  <2>1. p \in Paquete
    BY <1>0, CerosEsPaquete, CambiarPaquete DEF Llamada
  <2> QED
    BY <2>1 DEF Ceros
<1>2. Escribe(h, p) /\ Sigue(h, "numero") /\ UNCHANGED <<idMensajeTx, salida, pedidos>>
  BY DEF Cabecera
<1> HIDE DEF p
<1>3. /\ bufer' \in [{BuferDe(op) : op \in Operacion} -> Paquete]
      /\ bufer'[BuferDe(l.op)] = p
      /\ llamada' \in [Hilos -> Llamada]
      /\ llamada'[h] = [l EXCEPT !.paso = "numero"]
      /\ solape' \in [Hilos -> BOOLEAN]
      /\ \A g \in Hilos : LlamadaOK(g)' /\ FragmentoSolo(g)'
      /\ \A g \in Hilos \ {h} : Progreso(g)'
      /\ \A s \in Sesiones : SalidaOK(s)'
  BY <1>0, <1>1, <1>2, Escritura DEF Paso
<1>4. TypeOK'
  BY <1>2, <1>3 DEF InvEnvio, TypeOK
<1>5. Progreso(h)'
  BY <1>0, <1>1, <1>3 DEF Progreso, Numerado, Llamada
<1>6. ASSUME NEW s \in Sesiones PROVE CuentaOK(s)'
  BY <1>0, <1>2, <1>3, EnvioAssumption
     DEF InvEnvio, CuentaOK, EnMano, Dentro, Numerado, Sigue, Llamada, TypeOK
<1> QED
  BY <1>3, <1>4, <1>5, <1>6 DEF InvEnvio
\* The id counts the packet being built.
LEMMA PasoNumerar ==
  ASSUME InvEnvio, NEW h \in Hilos, Numerar(h)
  PROVE  InvEnvio'
<1> DEFINE l == llamada[h]
           s0 == l.sesion
           p == [bufer[BuferDe(l.op)] EXCEPT !.idMensaje = idMensajeTx'[s0]]
<1>0. l \in Llamada /\ Dentro(h) /\ l.paso = "numero"
  BY DEF InvEnvio, TypeOK, Numerar, En, Dentro
<1>1. s0 \in Sesiones /\ HiloDe[s0] = h
  BY <1>0 DEF InvEnvio, LlamadaOK
<1>2. /\ idMensajeTx' = [idMensajeTx EXCEPT ![s0] = @ + 1]
      /\ idMensajeTx' \in [Sesiones -> Nat]
      /\ idMensajeTx'[s0] = idMensajeTx[s0] + 1
  BY <1>1 DEF InvEnvio, TypeOK, Numerar
<1>3. EnMano(s0) /\ ~ Numerado(HiloDe[s0])
  BY <1>0, <1>1 DEF EnMano, Numerado
<1>4. idMensajeTx'[s0] = Len(salida[s0]) + 1
  BY <1>1, <1>2, <1>3 DEF InvEnvio, CuentaOK, TypeOK
<1>5. bufer[BuferDe(l.op)] \in Paquete
  BY <1>0 DEF InvEnvio, TypeOK, Llamada
<1>6. /\ p \in Paquete /\ p.idMensaje = Len(salida[s0]) + 1
      /\ p.sesion = bufer[BuferDe(l.op)].sesion
      /\ p.ventana = bufer[BuferDe(l.op)].ventana
      /\ p.ack = bufer[BuferDe(l.op)].ack
  BY <1>1, <1>2, <1>4, <1>5 DEF Paquete
<1>7. Escribe(h, p) /\ Sigue(h, "copia") /\ UNCHANGED <<salida, pedidos>>
  BY DEF Numerar, EnElBufer
<1> HIDE DEF p
<1>8. /\ bufer' \in [{BuferDe(op) : op \in Operacion} -> Paquete]
      /\ bufer'[BuferDe(l.op)] = p
      /\ llamada' \in [Hilos -> Llamada]
      /\ llamada'[h] = [l EXCEPT !.paso = "copia"]
      /\ solape' \in [Hilos -> BOOLEAN]
      /\ solape[h] /\ ~ En(h, "cabecera") => solape'[h]
      /\ \A g \in Hilos : LlamadaOK(g)' /\ FragmentoSolo(g)'
      /\ \A g \in Hilos \ {h} : Progreso(g)'
      /\ \A s \in Sesiones : SalidaOK(s)'
  BY <1>0, <1>6, <1>7, Escritura DEF Paso
<1>9. TypeOK'
  BY <1>2, <1>7, <1>8 DEF InvEnvio, TypeOK
<1>10. Progreso(h)'
  <2>1. ~ solape'[h] => ~ solape[h] /\ Progreso(h)
    BY <1>0, <1>8 DEF InvEnvio, En
  <2>2. /\ llamada'[h].op = l.op /\ llamada'[h].sesion = l.sesion
        /\ llamada'[h].numFrag = l.numFrag /\ llamada'[h].i = l.i
        /\ llamada'[h].paso = "copia"
    BY <1>0, <1>8 DEF Llamada
  <2>3. bufer'[BuferDe(l.op)] = p /\ salida' = salida
    BY <1>7, <1>8
  <2> QED
    BY <2>1, <2>2, <2>3, <1>0, <1>6 DEF Progreso, Numerado
<1>11. ASSUME NEW s \in Sesiones PROVE CuentaOK(s)'
  <2>1. CASE s = s0
    <3>1. EnMano(s)' /\ Numerado(HiloDe[s])'
      BY <2>1, <1>0, <1>1, <1>8 DEF EnMano, Dentro, Numerado, Llamada
    <3> QED
      BY <2>1, <3>1, <1>4, <1>7 DEF CuentaOK
  <2>2. CASE s # s0
    <3>1. (EnMano(s)' <=> EnMano(s)) /\ (EnMano(s) => HiloDe[s] # h)
      BY <2>2, <1>0, <1>1, <1>7, <1>8, EnvioAssumption
         DEF EnMano, Dentro, Sigue, Llamada, InvEnvio, TypeOK
    <3>2. HiloDe[s] # h => llamada'[HiloDe[s]] = llamada[HiloDe[s]]
      BY <1>7, EnvioAssumption DEF Sigue, InvEnvio, TypeOK
    <3>3. idMensajeTx'[s] = idMensajeTx[s]
      BY <2>2, <1>2 DEF InvEnvio, TypeOK
    <3> QED
      BY <3>1, <3>2, <3>3, <1>7 DEF InvEnvio, CuentaOK, Numerado
  <2> QED
    BY <2>1, <2>2
<1> QED
  BY <1>8, <1>9, <1>10, <1>11 DEF InvEnvio
\* memcpy puts the data of the call where the last payload was.
LEMMA PasoCopiar ==
  ASSUME InvEnvio, NEW h \in Hilos, Copiar(h)
  PROVE  InvEnvio'
<1> DEFINE l == llamada[h]
           b == bufer[BuferDe(l.op)]
           p == [b EXCEPT !.datos = Cuerpo(l), !.claves = <<>>]
<1>0. l \in Llamada /\ Dentro(h) /\ l.paso = "copia"
  BY DEF InvEnvio, TypeOK, Copiar, En, Dentro
<1>1. b \in Paquete
  BY <1>0 DEF InvEnvio, TypeOK, Llamada
<1>2. /\ p \in Paquete /\ p.datos = Cuerpo(l) /\ p.claves = <<>>
      /\ p.sesion = b.sesion /\ p.ventana = b.ventana /\ p.ack = b.ack
      /\ p.idMensaje = b.idMensaje
  <2>1. Cuerpo(l) \in Datos /\ <<>> \in Seq(Sesiones)
    BY <1>0 DEF Llamada, Cuerpo, Datos
  <2>2. p \in Paquete
    BY <1>1, <2>1, CambiarPaquete
  <2> QED
    BY <1>1, <2>2 DEF Paquete
<1>3. Escribe(h, p) /\ Sigue(h, "cifra") /\ UNCHANGED <<idMensajeTx, salida, pedidos>>
  BY DEF Copiar, EnElBufer, Cuerpo
<1> HIDE DEF p
<1>4. /\ bufer' \in [{BuferDe(op) : op \in Operacion} -> Paquete]
      /\ bufer'[BuferDe(l.op)] = p
      /\ llamada' \in [Hilos -> Llamada]
      /\ llamada'[h] = [l EXCEPT !.paso = "cifra"]
      /\ solape' \in [Hilos -> BOOLEAN]
      /\ solape[h] /\ ~ En(h, "cabecera") => solape'[h]
      /\ \A g \in Hilos : LlamadaOK(g)' /\ FragmentoSolo(g)'
      /\ \A g \in Hilos \ {h} : Progreso(g)'
      /\ \A s \in Sesiones : SalidaOK(s)'
  BY <1>0, <1>2, <1>3, Escritura DEF Paso
<1>5. TypeOK'
  BY <1>3, <1>4 DEF InvEnvio, TypeOK
<1>6. Progreso(h)'
  <2>1. ~ solape'[h] => ~ solape[h] /\ Progreso(h)
    BY <1>0, <1>4 DEF InvEnvio, En
  <2>2. Cuerpo(l)' = Cuerpo(l)
    BY <1>0, <1>4 DEF Cuerpo, Llamada
  <2>3. /\ llamada'[h].op = l.op /\ llamada'[h].sesion = l.sesion
        /\ llamada'[h].numFrag = l.numFrag /\ llamada'[h].i = l.i
        /\ llamada'[h].paso = "cifra"
    BY <1>0, <1>4 DEF Llamada
  <2>4. bufer'[BuferDe(l.op)] = p /\ salida' = salida
    BY <1>3, <1>4
  <2> QED
    BY <2>1, <2>2, <2>3, <2>4, <1>0, <1>2 DEF Progreso, Numerado
<1>7. ASSUME NEW s \in Sesiones PROVE CuentaOK(s)'
  BY <1>0, <1>3, <1>4, EnvioAssumption
     DEF InvEnvio, CuentaOK, EnMano, Dentro, Numerado, Sigue, Llamada, TypeOK
<1> QED
  BY <1>4, <1>5, <1>6, <1>7 DEF InvEnvio
\* The payload was plain, so it is ciphered once.
LEMMA PasoCifrar ==
  ASSUME InvEnvio, NEW h \in Hilos, Cifrar(h)
  PROVE  InvEnvio'
<1> DEFINE l == llamada[h]
           b == bufer[BuferDe(l.op)]
           p == [b EXCEPT !.claves = Append(b.claves, l.sesion)]
<1>0. l \in Llamada /\ Dentro(h) /\ l.paso = "cifra"
  BY DEF InvEnvio, TypeOK, Cifrar, En, Dentro
<1>1. b \in Paquete /\ l.sesion \in Sesiones
  BY <1>0 DEF InvEnvio, TypeOK, Llamada, LlamadaOK
<1>2. /\ p \in Paquete /\ p.claves = Append(b.claves, l.sesion)
      /\ p.sesion = b.sesion /\ p.ventana = b.ventana /\ p.ack = b.ack
      /\ p.idMensaje = b.idMensaje /\ p.datos = b.datos
  <2>1. Append(b.claves, l.sesion) \in Seq(Sesiones)
    BY <1>1 DEF Paquete
  <2>2. p \in Paquete
    BY <1>1, <2>1, CambiarPaquete
  <2> QED
    BY <1>1, <2>2 DEF Paquete
<1>3. Escribe(h, p) /\ Sigue(h, "envia") /\ UNCHANGED <<idMensajeTx, salida, pedidos>>
  BY DEF Cifrar, EnElBufer
<1> HIDE DEF p
<1>4. /\ bufer' \in [{BuferDe(op) : op \in Operacion} -> Paquete]
      /\ bufer'[BuferDe(l.op)] = p
      /\ llamada' \in [Hilos -> Llamada]
      /\ llamada'[h] = [l EXCEPT !.paso = "envia"]
      /\ solape' \in [Hilos -> BOOLEAN]
      /\ solape[h] /\ ~ En(h, "cabecera") => solape'[h]
      /\ \A g \in Hilos : LlamadaOK(g)' /\ FragmentoSolo(g)'
      /\ \A g \in Hilos \ {h} : Progreso(g)'
      /\ \A s \in Sesiones : SalidaOK(s)'
  BY <1>0, <1>2, <1>3, Escritura DEF Paso
<1>5. TypeOK'
  BY <1>3, <1>4 DEF InvEnvio, TypeOK
<1>6. Progreso(h)'
  <2>1. ~ solape'[h] => ~ solape[h] /\ Progreso(h)
    BY <1>0, <1>4 DEF InvEnvio, En
  <2>2. Cuerpo(l)' = Cuerpo(l)
    BY <1>0, <1>4 DEF Cuerpo, Llamada
  <2>3. b.claves = <<>> => Append(b.claves, l.sesion) = <<l.sesion>>
    OBVIOUS
  <2>4. /\ llamada'[h].op = l.op /\ llamada'[h].sesion = l.sesion
        /\ llamada'[h].numFrag = l.numFrag /\ llamada'[h].i = l.i
        /\ llamada'[h].paso = "envia"
    BY <1>0, <1>4 DEF Llamada
  <2>5. bufer'[BuferDe(l.op)] = p /\ salida' = salida
    BY <1>3, <1>4
  <2>6. SUFFICES ASSUME ~ solape'[h]
        PROVE  /\ p.sesion = l.sesion /\ p.ventana = l.numFrag /\ p.ack = l.i
               /\ p.idMensaje = Len(salida[l.sesion]) + 1
               /\ p.datos = Cuerpo(l) /\ p.claves = <<l.sesion>>
    BY <2>2, <2>4, <2>5 DEF Progreso, Numerado
  <2> QED
    BY <2>1, <2>3, <2>6, <1>0, <1>2 DEF Progreso, Numerado
<1>7. ASSUME NEW s \in Sesiones PROVE CuentaOK(s)'
  BY <1>0, <1>3, <1>4, EnvioAssumption
     DEF InvEnvio, CuentaOK, EnMano, Dentro, Numerado, Sigue, Llamada, TypeOK
<1> QED
  BY <1>4, <1>5, <1>6, <1>7 DEF InvEnvio

\* The thread was between two calls: its session had nothing left to send.
LEMMA PasoLlamar ==
  ASSUME InvEnvio, NEW h \in Hilos, NEW op \in Operacion, NEW s0 \in Sesiones,
         NEW n \in NumsFrag \cup {1}, Llamar(h, op, s0, n)
  PROVE  InvEnvio'
<1> DEFINE mensaje == Len(pedidos[s0]) + 1
           l == [op |-> op, sesion |-> s0, mensaje |-> mensaje, numFrag |-> n,
                 i |-> 0, paso |-> "cabecera"]
           nuevos == [j \in 1 .. n |-> [mensaje |-> mensaje, ventana |-> n, i |-> j - 1]]
<1>0. /\ HiloDe[s0] = h /\ llamada[h].paso = "fuera"
      /\ op = "enviarFragmentado" => h \in Fragmentan
      /\ llamada' = [llamada EXCEPT ![h] = l]
      /\ pedidos' = [pedidos EXCEPT ![s0] = @ \o nuevos]
      /\ UNCHANGED <<bufer, idMensajeTx, salida, solape>>
  BY DEF Llamar, En, Operacion
<1>1. n \in Nat \ {0} /\ mensaje \in Nat
  BY EnvioAssumption DEF InvEnvio, TypeOK
<1>2. l \in Llamada
  BY <1>1 DEF Llamada, Paso
<1>3. nuevos \in Seq([mensaje : Nat, ventana : Nat, i : Nat]) /\ Len(nuevos) = n
  BY <1>1
<1> DEFINE ped == pedidos[s0] \o nuevos
<1>4. /\ ped \in Seq([mensaje : Nat, ventana : Nat, i : Nat])
      /\ Len(ped) = Len(pedidos[s0]) + n
      /\ \A i \in 1 .. Len(pedidos[s0]) : ped[i] = pedidos[s0][i]
      /\ \A i \in Len(pedidos[s0]) + 1 .. Len(ped) :
            ped[i] = [mensaje |-> mensaje, ventana |-> n, i |-> i - Len(pedidos[s0]) - 1]
  BY <1>1, <1>3 DEF InvEnvio, TypeOK
<1>5. ~ EnMano(s0)
  BY <1>0 DEF EnMano, Dentro
<1>6. Len(pedidos[s0]) = Len(salida[s0]) /\ Len(salida[s0]) \in Nat
  BY <1>5 DEF InvEnvio, CuentaOK, TypeOK
<1>7. /\ llamada' \in [Hilos -> Llamada] /\ llamada'[h] = l
      /\ \A g \in Hilos \ {h} : llamada'[g] = llamada[g]
      /\ pedidos' \in [Sesiones -> Seq([mensaje : Nat, ventana : Nat, i : Nat])]
      /\ pedidos'[s0] = ped
      /\ \A s \in Sesiones \ {s0} : pedidos'[s] = pedidos[s]
  BY <1>0, <1>2, <1>4 DEF InvEnvio, TypeOK
<1> HIDE DEF nuevos, ped
<1>8. TypeOK'
  BY <1>0, <1>7 DEF InvEnvio, TypeOK
<1>9. ASSUME NEW g \in Hilos PROVE LlamadaOK(g)'
  <2>1. CASE g = h
    <3>1. /\ llamada'[g].sesion = s0 /\ llamada'[g].op = op /\ llamada'[g].i = 0
          /\ llamada'[g].numFrag = n /\ llamada'[g].mensaje = mensaje
      BY <2>1, <1>7
    <3>2. Len(pedidos'[s0]) = Len(salida'[s0]) + n - 0 /\ 0 < n
      BY <1>0, <1>1, <1>4, <1>6, <1>7
    <3>3. ASSUME NEW i \in Len(salida'[s0]) + 1 .. Len(pedidos'[s0])
          PROVE  pedidos'[s0][i] = [mensaje |-> mensaje, ventana |-> n,
                                    i |-> 0 + (i - Len(salida'[s0]) - 1)]
      <4>1. i \in Len(pedidos[s0]) + 1 .. Len(ped) /\ salida' = salida
        BY <1>0, <1>6, <1>7
      <4>2. 0 + (i - Len(salida[s0]) - 1) = i - Len(pedidos[s0]) - 1
        BY <4>1, <1>6
      <4> QED
        BY <4>1, <4>2, <1>4, <1>7
    <3> HIDE DEF mensaje, l
    <3> DEFINE q == llamada'[g]
    <3>4. \A i \in Len(salida'[q.sesion]) + 1 .. Len(pedidos'[q.sesion]) :
             pedidos'[q.sesion][i] = [mensaje |-> q.mensaje, ventana |-> q.numFrag,
                                      i |-> q.i + (i - Len(salida'[q.sesion]) - 1)]
      BY <3>1, <3>3
    <3>5. /\ q.sesion \in Sesiones /\ HiloDe[q.sesion] = g
          /\ q.op = "enviarFragmentado" => g \in Fragmentan
          /\ q.i < q.numFrag
          /\ Len(pedidos'[q.sesion]) = Len(salida'[q.sesion]) + q.numFrag - q.i
      BY <2>1, <3>1, <3>2, <1>0
    <3> QED
      BY <3>4, <3>5 DEF LlamadaOK
  <2>2. CASE g # h
    <3> SUFFICES ASSUME Dentro(g) PROVE LlamadaOK(g)'
      BY <2>2, <1>7 DEF LlamadaOK, Dentro
    <3>1. LlamadaOK(g)
      BY DEF InvEnvio
    <3>2. llamada[g].sesion \in Sesiones \ {s0}
      BY <2>2, <3>1, <1>0 DEF LlamadaOK
    <3> QED
      BY <2>2, <3>1, <3>2, <1>0, <1>7 DEF LlamadaOK
  <2> QED
    BY <2>1, <2>2
<1>10. ASSUME NEW g \in Hilos PROVE Progreso(g)' /\ FragmentoSolo(g)'
  <2>1. CASE g = h
    BY <2>1, <1>7 DEF Progreso, FragmentoSolo, Numerado
  <2>2. CASE g # h
    <3>1. llamada'[g] = llamada[g]
      BY <2>2, <1>7
    <3>2. Progreso(g) /\ FragmentoSolo(g)
      BY DEF InvEnvio
    <3> QED
      BY <3>1, <3>2, <1>0 DEF Progreso, FragmentoSolo, Numerado, Cuerpo
  <2> QED
    BY <2>1, <2>2
<1>11. ASSUME NEW s \in Sesiones PROVE CuentaOK(s)'
  <2>1. HiloDe[s] \in Hilos
    BY EnvioAssumption
  <2>2. CASE s = s0
    <3>1. idMensajeTx[s] = Len(salida[s])
      BY <2>2, <1>5, <1>6 DEF InvEnvio, CuentaOK, TypeOK
    <3>2. EnMano(s)' /\ ~ Numerado(HiloDe[s])'
      BY <2>2, <1>0, <1>7 DEF EnMano, Dentro, Numerado
    <3> QED
      BY <3>1, <3>2, <1>0, <1>6, <2>2 DEF CuentaOK
  <2>3. CASE s # s0 /\ HiloDe[s] = h
    <3>1. ~ EnMano(s) /\ ~ EnMano(s)'
      BY <2>3, <1>0, <1>7 DEF EnMano, Dentro
    <3> QED
      BY <2>3, <3>1, <1>0, <1>7 DEF InvEnvio, CuentaOK
  <2>4. CASE HiloDe[s] # h
    <3>1. llamada'[HiloDe[s]] = llamada[HiloDe[s]] /\ s # s0
      BY <2>1, <2>4, <1>0, <1>7
    <3> QED
      BY <3>1, <1>0, <1>7 DEF InvEnvio, CuentaOK, EnMano, Dentro, Numerado
  <2> QED
    BY <2>2, <2>3, <2>4
<1>12. ASSUME NEW s \in Sesiones PROVE SalidaOK(s)'
  <2>1. SalidaOK(s) /\ salida' = salida
    BY <1>0 DEF InvEnvio
  <2>2. \A i \in DOMAIN salida[s] : pedidos'[s][i] = pedidos[s][i]
    <3>1. CASE s = s0
      <4>1. DOMAIN salida[s] = 1 .. Len(pedidos[s0])
        BY <3>1, <1>6 DEF InvEnvio, TypeOK
      <4> QED
        BY <3>1, <4>1, <1>4, <1>7
    <3>2. CASE s # s0
      BY <3>2, <1>7
    <3> QED
      BY <3>1, <3>2
  <2> QED
    BY <2>1, <2>2 DEF SalidaOK, Integro
<1> QED
  BY <1>8, <1>9, <1>10, <1>11, <1>12 DEF InvEnvio

\* The packet leaves: it is the next one asked for, or it was overlapped.
LEMMA PasoEnviar ==
  ASSUME InvEnvio, NEW h \in Hilos, Enviar(h)
  PROVE  InvEnvio'
<1> DEFINE l == llamada[h]
           s0 == l.sesion
           k == Len(salida[s0])
           b == bufer[BuferDe(l.op)]
           m == [paquete |-> b, op |-> l.op, solapado |-> solape[h]]
           fin == IF l.i + 1 < l.numFrag THEN [l EXCEPT !.i = @ + 1, !.paso = "cabecera"]
                                         ELSE [l EXCEPT !.paso = "fuera"]
<1>0. l \in Llamada /\ Dentro(h) /\ l.paso = "envia"
  BY DEF InvEnvio, TypeOK, Enviar, En, Dentro
<1>1. /\ s0 \in Sesiones /\ HiloDe[s0] = h /\ l.i < l.numFrag
      /\ Len(pedidos[s0]) = k + l.numFrag - l.i
      /\ \A n \in k + 1 .. Len(pedidos[s0]) :
            pedidos[s0][n] = [mensaje |-> l.mensaje, ventana |-> l.numFrag, i |-> l.i + (n - k - 1)]
  BY <1>0 DEF InvEnvio, LlamadaOK
<1>2. k \in Nat /\ l.i \in Nat /\ l.numFrag \in Nat /\ Len(pedidos[s0]) \in Nat
  BY <1>0, <1>1 DEF InvEnvio, TypeOK, Llamada
<1>3. m \in [paquete : Paquete, op : Operacion, solapado : BOOLEAN]
  BY <1>0 DEF InvEnvio, TypeOK, Llamada
<1>4. /\ salida' = [salida EXCEPT ![s0] = Append(@, m)]
      /\ llamada' = [llamada EXCEPT ![h] = fin]
      /\ UNCHANGED <<bufer, idMensajeTx, pedidos, solape>>
  BY DEF Enviar, EnElBufer
<1>5. /\ fin \in Llamada /\ fin.sesion = s0 /\ fin.op = l.op /\ fin.numFrag = l.numFrag
      /\ fin.mensaje = l.mensaje
      /\ \/ fin.paso = "cabecera" /\ fin.i = l.i + 1 /\ l.i + 1 < l.numFrag
         \/ fin.paso = "fuera" /\ ~ (l.i + 1 < l.numFrag)
  <2> HIDE DEF l
  <2>1. CASE l.i + 1 < l.numFrag
    <3>1. fin = [l EXCEPT !.i = l.i + 1, !.paso = "cabecera"]
      BY <2>1
    <3>2. l.i + 1 \in Nat
      BY <1>2
    <3> HIDE DEF fin
    <3>3. fin = [op |-> l.op, sesion |-> l.sesion, mensaje |-> l.mensaje,
                 numFrag |-> l.numFrag, i |-> l.i + 1, paso |-> "cabecera"]
      BY <1>0, <3>1 DEF Llamada
    <3>4. fin \in Llamada
      BY <1>0, <3>2, <3>3 DEF Llamada, Paso
    <3> QED
      BY <2>1, <3>3, <3>4
  <2>2. CASE ~ (l.i + 1 < l.numFrag)
    <3>1. fin = [l EXCEPT !.paso = "fuera"]
      BY <2>2
    <3> HIDE DEF fin
    <3>2. fin = [op |-> l.op, sesion |-> l.sesion, mensaje |-> l.mensaje,
                 numFrag |-> l.numFrag, i |-> l.i, paso |-> "fuera"]
      BY <1>0, <3>1 DEF Llamada
    <3>3. fin \in Llamada
      BY <1>0, <3>2 DEF Llamada, Paso
    <3> QED
      BY <2>2, <3>2, <3>3
  <2> QED
    BY <2>1, <2>2
<1> HIDE DEF fin
<1>6. /\ llamada' \in [Hilos -> Llamada] /\ llamada'[h] = fin
      /\ \A g \in Hilos \ {h} : llamada'[g] = llamada[g]
  BY <1>4, <1>5 DEF InvEnvio, TypeOK
<1>7. /\ salida' \in [Sesiones -> Seq([paquete : Paquete, op : Operacion, solapado : BOOLEAN])]
      /\ Len(salida'[s0]) = k + 1 /\ salida'[s0][k + 1] = m
      /\ \A n \in 1 .. k : salida'[s0][n] = salida[s0][n]
      /\ DOMAIN salida'[s0] = 1 .. k + 1
      /\ \A s \in Sesiones \ {s0} : salida'[s] = salida[s]
  <2> DEFINE R == [paquete : Paquete, op : Operacion, solapado : BOOLEAN]
             q == salida[s0]
             q1 == Append(q, m)
  <2>1. salida \in [Sesiones -> Seq(R)] /\ q \in Seq(R) /\ m \in R
    BY <1>1, <1>3 DEF InvEnvio, TypeOK
  <2>2. salida' = [salida EXCEPT ![s0] = q1]
    BY <1>4
  <2>3. Len(q) = k
    OBVIOUS
  <2> HIDE DEF m, R, q, k, s0, l
  <2>4. /\ q1 \in Seq(R) /\ Len(q1) = k + 1 /\ q1[k + 1] = m
        /\ \A n \in 1 .. k : q1[n] = q[n]
    BY <2>1, <2>3
  <2>5. DOMAIN q1 = 1 .. k + 1
    BY <2>4
  <2> HIDE DEF q1
  <2>6. salida' \in [Sesiones -> Seq(R)] /\ salida'[s0] = q1
    BY <2>1, <2>2, <2>4, <1>1
  <2>7. \A s \in Sesiones \ {s0} : salida'[s] = salida[s]
    BY <2>1, <2>2
  <2> QED
    BY <2>4, <2>5, <2>6, <2>7 DEF R, q
<1>8. TypeOK'
  BY <1>4, <1>6, <1>7 DEF InvEnvio, TypeOK
<1>9. ASSUME NEW g \in Hilos PROVE LlamadaOK(g)'
  <2>1. CASE g = h /\ fin.paso = "cabecera"
    <3> DEFINE q == llamada'[g]
    <3>1. /\ q.sesion = s0 /\ q.op = l.op /\ q.i = l.i + 1
          /\ q.numFrag = l.numFrag /\ q.mensaje = l.mensaje
      BY <2>1, <1>5, <1>6
    <3> HIDE DEF q
    <3>2. Len(pedidos[s0]) = k + 1 + l.numFrag - (l.i + 1) /\ l.i + 1 < l.numFrag
      <4>1. l.i + 1 < l.numFrag
        BY <2>1, <1>5
      <4>2. Len(pedidos[s0]) = k + l.numFrag - l.i
        BY <1>1
      <4> DEFINE j == l.i
                 f == l.numFrag
                 t == Len(pedidos[s0])
      <4>3. k \in Nat /\ j \in Nat /\ f \in Nat /\ t = k + f - j
        BY <4>2, <1>2
      <4> HIDE DEF k, j, f, t
      <4>4. t = k + 1 + f - (j + 1)
        BY <4>3
      <4> QED
        BY <4>1, <4>4 DEF j, f, t
    <3>3. ASSUME NEW n \in k + 1 + 1 .. Len(pedidos[s0])
          PROVE  pedidos[s0][n] = [mensaje |-> l.mensaje, ventana |-> l.numFrag,
                                   i |-> l.i + 1 + (n - (k + 1) - 1)]
      <4>1. n \in k + 1 .. Len(pedidos[s0]) /\ l.i + 1 + (n - (k + 1) - 1) = l.i + (n - k - 1)
        <5> DEFINE j == l.i
                   t == Len(pedidos[s0])
        <5>1. k \in Nat /\ j \in Nat /\ t \in Nat /\ n \in k + 1 + 1 .. t
          BY <1>2
        <5> HIDE DEF k, j, t
        <5>2. n \in k + 1 .. t /\ j + 1 + (n - (k + 1) - 1) = j + (n - k - 1)
          BY <5>1
        <5> QED
          BY <5>2 DEF j, t
      <4> QED
        BY <4>1, <1>1
    <3>4. l.op = "enviarFragmentado" => g \in Fragmentan
      BY <2>1, <1>0 DEF InvEnvio, LlamadaOK
    <3>5. pedidos' = pedidos /\ Len(salida'[s0]) = k + 1
      BY <1>4, <1>7
    <3> HIDE DEF k, l, s0
    <3>6. \A n \in Len(salida'[q.sesion]) + 1 .. Len(pedidos'[q.sesion]) :
             pedidos'[q.sesion][n] = [mensaje |-> q.mensaje, ventana |-> q.numFrag,
                                      i |-> q.i + (n - Len(salida'[q.sesion]) - 1)]
      BY <3>1, <3>3, <3>5
    <3>7. /\ q.sesion \in Sesiones /\ HiloDe[q.sesion] = g
          /\ q.op = "enviarFragmentado" => g \in Fragmentan
          /\ q.i < q.numFrag
          /\ Len(pedidos'[q.sesion]) = Len(salida'[q.sesion]) + q.numFrag - q.i
      BY <2>1, <3>1, <3>2, <3>4, <3>5, <1>1
    <3> QED
      BY <3>6, <3>7 DEF LlamadaOK, q
  <2>2. CASE g = h /\ fin.paso = "fuera"
    BY <2>2, <1>6 DEF LlamadaOK, Dentro
  <2>3. CASE g # h
    <3> SUFFICES ASSUME Dentro(g) PROVE LlamadaOK(g)'
      BY <2>3, <1>6 DEF LlamadaOK, Dentro
    <3>1. LlamadaOK(g)
      BY DEF InvEnvio
    <3>2. llamada[g].sesion \in Sesiones \ {s0}
      BY <2>3, <3>1, <1>1 DEF LlamadaOK
    <3>3. /\ llamada'[g] = llamada[g] /\ pedidos' = pedidos
          /\ salida'[llamada[g].sesion] = salida[llamada[g].sesion]
      BY <2>3, <3>2, <1>4, <1>6, <1>7
    <3> QED
      BY <3>1, <3>3 DEF LlamadaOK, Dentro
  <2> QED
    BY <2>1, <2>2, <2>3, <1>5
<1>10. ASSUME NEW g \in Hilos PROVE Progreso(g)' /\ FragmentoSolo(g)'
  <2>1. CASE g = h
    BY <2>1, <1>5, <1>6 DEF Progreso, FragmentoSolo, Numerado
  <2>2. CASE g # h /\ llamada[g].paso \in {"numero", "copia", "cifra", "envia"}
    <3>1. llamada'[g] = llamada[g] /\ Progreso(g) /\ FragmentoSolo(g) /\ LlamadaOK(g)
      BY <2>2, <1>6 DEF InvEnvio
    <3>2. llamada[g].sesion \in Sesiones \ {s0}
      BY <2>2, <3>1, <1>1 DEF LlamadaOK, Dentro
    <3> QED
      BY <3>1, <3>2, <1>4, <1>7 DEF Progreso, FragmentoSolo, Numerado, Cuerpo
  <2>3. CASE g # h /\ llamada[g].paso \notin {"numero", "copia", "cifra", "envia"}
    BY <2>3, <1>6 DEF Progreso, FragmentoSolo, Numerado
  <2> QED
    BY <2>1, <2>2, <2>3
<1>11. ASSUME NEW s \in Sesiones PROVE CuentaOK(s)'
  <2>1. HiloDe[s] \in Hilos
    BY EnvioAssumption
  <2>2. CASE s = s0
    <3>1. EnMano(s) /\ Numerado(HiloDe[s])
      BY <2>2, <1>0, <1>1 DEF EnMano, Numerado
    <3>2. idMensajeTx[s] = k + 1
      BY <2>2, <3>1 DEF InvEnvio, CuentaOK
    <3>3. llamada'[HiloDe[s]] = fin /\ fin.sesion = s
      BY <2>2, <1>1, <1>5, <1>6
    <3>4. ~ Numerado(HiloDe[s])'
      BY <3>3, <1>5 DEF Numerado
    <3>5. ~ EnMano(s)' => Len(pedidos[s0]) = k + 1
      BY <3>3, <1>1, <1>2, <1>5 DEF EnMano, Dentro
    <3>6. pedidos' = pedidos /\ idMensajeTx' = idMensajeTx /\ Len(salida'[s]) = k + 1
      BY <2>2, <1>4, <1>7
    <3> QED
      BY <2>2, <3>2, <3>4, <3>5, <3>6, <1>2 DEF CuentaOK
  <2>3. CASE s # s0 /\ HiloDe[s] = h
    <3>1. ~ EnMano(s) /\ ~ EnMano(s)'
      BY <2>3, <1>5, <1>6 DEF EnMano
    <3> QED
      BY <2>3, <3>1, <1>4, <1>7 DEF InvEnvio, CuentaOK
  <2>4. CASE HiloDe[s] # h
    <3>1. llamada'[HiloDe[s]] = llamada[HiloDe[s]] /\ s # s0
      BY <2>1, <2>4, <1>1, <1>6
    <3> QED
      BY <3>1, <1>4, <1>7 DEF InvEnvio, CuentaOK, EnMano, Dentro, Numerado
  <2> QED
    BY <2>2, <2>3, <2>4
<1>12. ASSUME NEW s \in Sesiones PROVE SalidaOK(s)'
  <2>1. SalidaOK(s) /\ pedidos' = pedidos
    BY <1>4 DEF InvEnvio
  <2>2. CASE s # s0
    <3>1. salida'[s] = salida[s]
      BY <2>2, <1>7
    <3> QED
      BY <2>1, <3>1 DEF SalidaOK, Integro
  <2>3. CASE s = s0
    <3>1. ASSUME NEW n \in 1 .. k
          PROVE  /\ ~ salida'[s][n].solapado => Integro(s, n)'
                 /\ salida'[s][n].op = "enviarFragmentado" => ~ salida'[s][n].solapado
      <4>1. salida'[s][n] = salida[s][n] /\ n \in DOMAIN salida[s]
        BY <2>3, <1>1, <1>7 DEF InvEnvio, TypeOK
      <4> QED
        BY <4>1, <2>1 DEF SalidaOK, Integro
    <3>2. m.op = "enviarFragmentado" => ~ m.solapado
      BY <1>0 DEF InvEnvio, FragmentoSolo
    <3>3. ASSUME NEW n \in Nat, n = k + 1, ~ m.solapado PROVE Integro(s, n)'
      <4>1. /\ b.sesion = s0 /\ b.ventana = l.numFrag /\ b.ack = l.i
            /\ b.idMensaje = n /\ b.datos = Cuerpo(l) /\ b.claves = <<s0>>
        BY <3>3, <1>0 DEF InvEnvio, Progreso, Numerado
      <4>2. pedidos[s0][n] = [mensaje |-> l.mensaje, ventana |-> l.numFrag, i |-> l.i]
        <5>1. n \in k + 1 .. Len(pedidos[s0]) /\ l.i + (n - k - 1) = l.i
          <6> DEFINE j == l.i
                     f == l.numFrag
                     t == Len(pedidos[s0])
          <6>1. /\ k \in Nat /\ j \in Nat /\ f \in Nat /\ t \in Nat
                /\ j < f /\ t = k + f - j /\ n = k + 1
            BY <1>1, <1>2, <3>3
          <6> HIDE DEF k, j, f, t
          <6>2. n \in k + 1 .. t /\ j + (n - k - 1) = j
            BY <6>1
          <6> QED
            BY <6>2 DEF j, t
        <5> QED
          BY <5>1, <1>1
      <4>3. salida'[s][n].paquete = b /\ pedidos'[s] = pedidos[s0]
        BY <2>1, <2>3, <3>3, <1>7
      <4> QED
        BY <2>3, <4>1, <4>2, <4>3 DEF Integro, Cuerpo
    <3>4. ASSUME NEW n \in DOMAIN salida'[s] PROVE n \in Nat /\ (n \in 1 .. k \/ n = k + 1)
      <4>1. n \in 1 .. k + 1
        BY <2>3, <1>7
      <4> HIDE DEF k
      <4> QED
        BY <4>1, <1>2
    <3>5. ASSUME NEW n \in DOMAIN salida'[s]
          PROVE  /\ ~ salida'[s][n].solapado => Integro(s, n)'
                 /\ salida'[s][n].op = "enviarFragmentado" => ~ salida'[s][n].solapado
      <4>1. CASE n \in 1 .. k
        BY <4>1, <3>1
      <4>2. CASE n = k + 1
        <5>1. salida'[s][n] = m
          BY <2>3, <4>2, <1>7
        <5> HIDE DEF m
        <5> QED
          BY <4>2, <5>1, <3>2, <3>3, <3>4
      <4> QED
        BY <4>1, <4>2, <3>4
    <3> QED
      BY <3>5 DEF SalidaOK
  <2> QED
    BY <2>2, <2>3
<1> QED
  BY <1>8, <1>9, <1>10, <1>11, <1>12 DEF InvEnvio
\* A step that changes nothing.
LEMMA PasoQuieto ==
  ASSUME InvEnvio, UNCHANGED vars
  PROVE  InvEnvio'
<1>1. UNCHANGED <<bufer, llamada, idMensajeTx, salida, pedidos, solape>>
  BY DEF vars
<1>2. TypeOK'
  BY <1>1 DEF InvEnvio, TypeOK
<1>3. ASSUME NEW h \in Hilos PROVE LlamadaOK(h)' /\ Progreso(h)' /\ FragmentoSolo(h)'
  <2>1. LlamadaOK(h) /\ Progreso(h) /\ FragmentoSolo(h)
    BY DEF InvEnvio
  <2>2. LlamadaOK(h)'
    BY <1>1, <2>1 DEF LlamadaOK, Dentro
  <2>3. Progreso(h)'
    BY <1>1, <2>1 DEF Progreso, Numerado, Cuerpo
  <2>4. FragmentoSolo(h)'
    BY <1>1, <2>1 DEF FragmentoSolo
  <2> QED
    BY <2>2, <2>3, <2>4
<1>4. ASSUME NEW s \in Sesiones PROVE CuentaOK(s)' /\ SalidaOK(s)'
  <2>1. CuentaOK(s) /\ SalidaOK(s)
    BY DEF InvEnvio
  <2>2. CuentaOK(s)'
    BY <1>1, <2>1 DEF CuentaOK, EnMano, Dentro, Numerado
  <2>3. SalidaOK(s)'
    BY <1>1, <2>1 DEF SalidaOK, Integro
  <2> QED
    BY <2>2, <2>3
<1> QED
  BY <1>2, <1>3, <1>4 DEF InvEnvio
\* InvEnvio is inductive.
LEMMA InvarianteEnvio == Spec => []InvEnvio
<1>1. ASSUME InvEnvio, [Next]_vars PROVE InvEnvio'
  <2>1. ASSUME NEW h \in Hilos, Hilo(h) PROVE InvEnvio'
    <3>1. CASE \E op \in Operacion, s \in Sesiones, n \in NumsFrag \cup {1} : Llamar(h, op, s, n)
      BY <1>1, <3>1, PasoLlamar
    <3>2. CASE Cabecera(h)
      BY <1>1, <3>2, PasoCabecera
    <3>3. CASE Numerar(h)
      BY <1>1, <3>3, PasoNumerar
    <3>4. CASE Copiar(h)
      BY <1>1, <3>4, PasoCopiar
    <3>5. CASE Cifrar(h)
      BY <1>1, <3>5, PasoCifrar
    <3>6. CASE Enviar(h)
      BY <1>1, <3>6, PasoEnviar
    <3> QED
      BY <2>1, <3>1, <3>2, <3>3, <3>4, <3>5, <3>6 DEF Hilo
  <2>2. CASE UNCHANGED vars
    BY <1>1, <2>2, PasoQuieto
  <2> QED
    BY <1>1, <2>1, <2>2 DEF Next
<1> QED
  BY <1>1, InicioEnvio, PTL DEF Spec

-----------------------------------------------------------------------------
(* The results.                                                            *)

\* The values of enviarFiable and enviarFragmentado keep their types.
THEOREM TipoEnvio == Spec => []TypeOK
<1>1. InvEnvio => TypeOK
  BY DEF InvEnvio
<1> QED
  BY <1>1, InvarianteEnvio, PTL

\* Under any number of threads, a packet in which no other thread wrote is the
\* one its caller asked for: static arrays carry nothing from call to call.
THEOREM SoloMezclaElSolape == Spec => []MezclaSoloSolapada
<1>1. InvEnvio => MezclaSoloSolapada
  BY DEF InvEnvio, SalidaOK, MezclaSoloSolapada
<1> QED
  BY <1>1, InvarianteEnvio, PTL

\* With one thread that fragments, every fragment leaves whole, in order and
\* under the next id, whatever the other threads send.
THEOREM FragmentosSiempreIntegros == Spec => []FragmentosIntegros
<1>1. InvEnvio => FragmentosIntegros
  BY DEF InvEnvio, SalidaOK, FragmentosIntegros
<1> QED
  BY <1>1, InvarianteEnvio, PTL
==============================================================================
