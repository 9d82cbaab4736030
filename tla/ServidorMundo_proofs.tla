------------------------- MODULE ServidorMundo_proofs -------------------------
(***************************************************************************)
(* What holds of the world server for every value of the constants: types, *)
(* appearances that are whole, a list of players that is true, and a       *)
(* window that never contradicts itself.                                   *)
(***************************************************************************)
EXTENDS ServidorMundo, SequenceTheorems, FiniteSetTheorems, TLAPS

\* The appearance in hand was accepted on its connection: when its last
\* message is sent, the connection has the whole of it and says so.
Aceptada == Ocupado => conexiones[tarea.clave].enviadoAceptar

\* VistaCoherente while the window is between its two reads is about a peak
\* that may still grow, so the number of players must be below it.
InvMundo == TypeOK /\ AparicionEntera /\ Aceptada /\ ListaFiel /\ VistaCoherente

-----------------------------------------------------------------------------
(* The sequence of an appearance, and how it moves from the task to the    *)
(* connection.                                                             *)

\* An appearance is a sequence of opcodes, whatever the configuration.
LEMMA TipoSecuencia == Secuencia \in Seq(Opcode)
  <1>1. Tablas \in Seq(Opcode)
    BY DEF Tablas, Opcode
  <1>2. Entrada \in Seq(Opcode)
    BY DEF Entrada, Opcode
  <1>3. Tablas \o Entrada \in Seq(Opcode)
    BY <1>1, <1>2, ConcatProperties
  <1>4. [i \in 1 .. NumBarrido |-> "BARRIDO"] \in Seq(Opcode)
    <2>1. NumBarrido \in Nat
      BY MundoAssumption
    <2>2. \A i \in 1 .. NumBarrido : "BARRIDO" \in Opcode
      BY DEF Opcode
    <2> QED
      BY <2>1, <2>2, IsASeq
  <1> QED
    BY <1>2, <1>3, <1>4 DEF Secuencia

\* Sending the head of what is left keeps what was sent and what is left
\* together.
LEMMA PasaUno ==
    ASSUME NEW s \in Seq(Opcode), NEW r \in Seq(Opcode), r # << >>
    PROVE  /\ Head(r) \in Opcode /\ Tail(r) \in Seq(Opcode)
           /\ Append(s, Head(r)) \in Seq(Opcode)
           /\ Append(s, Head(r)) \o Tail(r) = s \o r
           /\ Tail(r) = << >> => Append(s, Head(r)) = s \o r
  <1> DEFINE t == Append(s, Head(r))
  <1>1. Head(r) \in Opcode /\ Tail(r) \in Seq(Opcode) /\ Len(Tail(r)) = Len(r) - 1
        /\ Len(r) \in Nat /\ Len(r) > 0 /\ Head(r) = r[1]
        /\ \A i \in 1 .. Len(r) - 1 : Tail(r)[i] = r[i + 1]
    BY HeadTailProperties, LenProperties, EmptySeq
  <1>2. t \in Seq(Opcode) /\ Len(t) = Len(s) + 1 /\ Len(s) \in Nat
        /\ t[Len(s) + 1] = Head(r) /\ \A i \in 1 .. Len(s) : t[i] = s[i]
    BY <1>1, AppendProperties, LenProperties
  <1> HIDE DEF t
  <1> DEFINE a == t \o Tail(r)
             b == s \o r
  <1>3. a \in Seq(Opcode) /\ Len(a) = Len(s) + Len(r)
        /\ \A i \in 1 .. Len(s) + Len(r) :
              a[i] = IF i <= Len(s) + 1 THEN t[i] ELSE Tail(r)[i - (Len(s) + 1)]
    <2>1. a \in Seq(Opcode) /\ Len(a) = Len(t) + Len(Tail(r))
          /\ \A i \in 1 .. Len(t) + Len(Tail(r)) :
                a[i] = IF i <= Len(t) THEN t[i] ELSE Tail(r)[i - Len(t)]
      BY <1>1, <1>2, ConcatProperties
    <2>2. Len(t) + Len(Tail(r)) = Len(s) + Len(r)
      BY <1>1, <1>2
    <2> QED
      BY <1>2, <2>1, <2>2
  <1>4. b \in Seq(Opcode) /\ Len(b) = Len(s) + Len(r)
        /\ \A i \in 1 .. Len(s) + Len(r) : b[i] = IF i <= Len(s) THEN s[i] ELSE r[i - Len(s)]
    BY ConcatProperties
  <1>5. ASSUME NEW i \in 1 .. Len(s) + Len(r) PROVE a[i] = b[i]
    <2>1. CASE i <= Len(s)
      BY <1>1, <1>2, <1>3, <1>4, <2>1
    <2>2. CASE i = Len(s) + 1
      BY <1>1, <1>2, <1>3, <1>4, <2>2
    <2>3. CASE i > Len(s) + 1
      <3>1. a[i] = Tail(r)[i - (Len(s) + 1)] /\ b[i] = r[i - Len(s)]
        BY <1>1, <1>2, <1>3, <1>4, <2>3
      <3>2. i - (Len(s) + 1) \in 1 .. Len(r) - 1 /\ (i - (Len(s) + 1)) + 1 = i - Len(s)
        BY <1>1, <1>2, <2>3
      <3> QED
        BY <1>1, <3>1, <3>2
    <2> QED
      BY <1>1, <1>2, <2>1, <2>2, <2>3
  <1>6. a = b
    <2> HIDE DEF a, b
    <2> QED
      BY <1>3, <1>4, <1>5, SeqEqual
  <1>7. Tail(r) = << >> => t = t \o Tail(r)
    BY <1>2, ConcatEmptySeq
  <1> QED
    BY <1>1, <1>2, <1>6, <1>7 DEF t

-----------------------------------------------------------------------------
(* monitor.cpp.                                                            *)

\* No player is listed twice.
SinRepetir(J) == \A i, j \in J : i.clave = j.clave => i = j

\* What is true of the monitor's two variables between two locks.
Monitor(J, p) ==
    /\ J \in SUBSET Jugador /\ IsFiniteSet(J) /\ p \in Nat
    /\ SinRepetir(J)
    /\ Cardinality(J) <= p

\* A player who enters is listed once, beside those who were; the peak follows.
LEMMA AlEntrar ==
    ASSUME Monitor(jugs, pico), NEW k \in Claves, NEW id \in Nat, clienteEntra(k, id)
    PROVE  /\ Monitor(jugs', pico') /\ pico <= pico'
           /\ \A j \in jugs' : j.clave = k \/ j \in jugs
  <1> DEFINE nuevo == [clave |-> k, id |-> id]
  <1>1. nuevo \in Jugador /\ nuevo.clave = k
    BY DEF Jugador
  <1>2. Cardinality(jugs) \in Nat
    BY FS_CardinalityType DEF Monitor
  <1>3. CASE \E j \in jugs : j.clave = k
    <2>1. PICK j \in jugs : j.clave = k /\ jugs' = (jugs \ {j}) \cup {nuevo}
      BY <1>3 DEF clienteEntra
    <2>2. pico' = pico
      BY <1>3 DEF clienteEntra
    <2> HIDE DEF nuevo
    <2> DEFINE resto == jugs \ {j}
    <2>3. IsFiniteSet(resto) /\ Cardinality(resto) = Cardinality(jugs) - 1
      BY <2>1, FS_RemoveElement DEF Monitor
    <2>4. \A i \in resto : i.clave # k
      BY <2>1 DEF Monitor, SinRepetir
    <2>5. nuevo \notin resto
      BY <1>1, <2>4
    <2> HIDE DEF resto
    <2>6. IsFiniteSet(resto \cup {nuevo}) /\ Cardinality(resto \cup {nuevo}) = Cardinality(jugs)
      <3>1. /\ IsFiniteSet(resto \cup {nuevo})
            /\ Cardinality(resto \cup {nuevo}) = Cardinality(resto) + 1
        BY <2>3, <2>5, FS_AddElement
      <3> QED
        BY <1>2, <2>3, <3>1
    <2>7. jugs' = resto \cup {nuevo}
      BY <2>1 DEF resto
    <2>8. resto \subseteq jugs
      BY DEF resto
    <2>9. SinRepetir(jugs')
      BY <1>1, <2>4, <2>7, <2>8 DEF Monitor, SinRepetir
    <2> QED
      BY <1>1, <1>2, <2>2, <2>6, <2>7, <2>8, <2>9 DEF Monitor
  <1>4. CASE ~ \E j \in jugs : j.clave = k
    <2>1. /\ jugs' = jugs \cup {nuevo}
          /\ pico' = IF Cardinality(jugs') > pico THEN Cardinality(jugs') ELSE pico
      BY <1>4 DEF clienteEntra
    <2> HIDE DEF nuevo
    <2>2. IsFiniteSet(jugs') /\ Cardinality(jugs') \in Nat
      BY <2>1, FS_AddElement, FS_CardinalityType DEF Monitor
    <2>3. pico' \in Nat /\ Cardinality(jugs') <= pico' /\ pico <= pico'
      BY <2>1, <2>2 DEF Monitor
    <2>4. SinRepetir(jugs')
      BY <1>1, <1>4, <2>1 DEF Monitor, SinRepetir
    <2> QED
      BY <1>1, <2>1, <2>2, <2>3, <2>4 DEF Monitor
  <1> QED
    BY <1>3, <1>4

\* Of a player who leaves nothing stays, and nobody else goes.
LEMMA AlSalir ==
    ASSUME Monitor(jugs, pico), NEW k \in Claves, clienteSale(k)
    PROVE  /\ Monitor(jugs', pico') /\ pico' = pico
           /\ jugs' = {j \in jugs : j.clave # k}
  <1>1. pico' = pico
    BY DEF clienteSale
  <1>2. jugs' = {j \in jugs : j.clave # k}
    <2>1. CASE \E j \in jugs : j.clave = k
      <3>1. PICK j \in jugs : j.clave = k /\ jugs' = jugs \ {j}
        BY <2>1 DEF clienteSale
      <3> QED
        BY <3>1 DEF Monitor, SinRepetir
    <2>2. CASE ~ \E j \in jugs : j.clave = k
      BY <2>2 DEF clienteSale
    <2> QED
      BY <2>1, <2>2
  <1>3. jugs' \subseteq jugs
    BY <1>2
  <1>4. IsFiniteSet(jugs') /\ Cardinality(jugs') <= Cardinality(jugs)
    BY <1>3, FS_Subset DEF Monitor
  <1>5. Cardinality(jugs') \in Nat /\ Cardinality(jugs) \in Nat
    BY <1>4, FS_CardinalityType DEF Monitor
  <1> QED
    BY <1>1, <1>2, <1>3, <1>4, <1>5 DEF Monitor, SinRepetir

\* The invariant, with the monitor's part by its name.
LEMMA MonitorInvariante == InvMundo => Monitor(jugs, pico)
  BY DEF InvMundo, TypeOK, ListaFiel, Monitor, SinRepetir

-----------------------------------------------------------------------------
LEMMA MundoInit == Init => InvMundo
  <1> SUFFICES ASSUME Init PROVE InvMundo
    OBVIOUS
  <1>1. SinConexion \in Conexion
    BY DEF SinConexion, Conexion, Fase
  <1>2. PICK k \in Claves : tarea = Libre(k)
    BY DEF Init
  <1>3. ~ Ocupado
    BY <1>2 DEF Ocupado, Libre
  <1>4. tarea \in [clave : Claves, resto : Seq(Opcode)]
    <2>1. << >> \in Seq(Opcode)
      OBVIOUS
    <2> QED
      BY <1>2, <2>1 DEF Libre
  <1>5. conexiones \in [Claves -> Conexion] /\ enviados \in [Claves -> Seq(Opcode)]
    BY <1>1 DEF Init
  <1>6. TypeOK
    BY <1>4, <1>5, FS_EmptySet DEF Init, TypeOK
  <1>7. AparicionEntera
    BY <1>3 DEF Init, AparicionEntera, SinConexion
  <1>8. ListaFiel
    BY FS_EmptySet DEF Init, ListaFiel
  <1>9. VistaCoherente
    BY DEF Init, VistaCoherente
  <1> QED
    BY <1>3, <1>6, <1>7, <1>8, <1>9 DEF InvMundo, Aceptada

\* One more message id on a connection keeps everything else of it.
LEMMA OtroMensaje ==
    ASSUME TypeOK, NEW k \in Claves,
           conexiones' = [conexiones EXCEPT ![k].idMensajeTx = @ + 1]
    PROVE  /\ conexiones' \in [Claves -> Conexion]
           /\ \A j \in Claves :
                 /\ conexiones'[j].enviadoAceptar = conexiones[j].enviadoAceptar
                 /\ Viva(j) => Viva(j)'
  <1> DEFINE c == [conexiones[k] EXCEPT !.idMensajeTx = @ + 1]
  <1>1. conexiones[k] \in Conexion
    BY DEF TypeOK
  <1>2. /\ c \in Conexion /\ c.idConexion = conexiones[k].idConexion
        /\ c.enviadoAceptar = conexiones[k].enviadoAceptar
    BY <1>1 DEF Conexion
  <1>3. conexiones' = [conexiones EXCEPT ![k] = c]
    OBVIOUS
  <1> HIDE DEF c
  <1>4. conexiones' \in [Claves -> Conexion]
    BY <1>2, <1>3 DEF TypeOK
  <1>5. conexiones'[k] = c /\ \A j \in Claves \ {k} : conexiones'[j] = conexiones[j]
    BY <1>3 DEF TypeOK
  <1> QED
    BY <1>2, <1>4, <1>5 DEF Viva

\* A datagram that the thread takes from the socket, between two appearances.
LEMMA PasoRecibir ==
    ASSUME InvMundo, ~ Ocupado, cola # << >>, Recibir(Head(cola))
    PROVE  InvMundo'
  <1> DEFINE d == Head(cola)
             k == d.clave
  <1>1. /\ TypeOK /\ AparicionEntera /\ ListaFiel /\ VistaCoherente
        /\ Monitor(jugs, pico)
    BY MonitorInvariante DEF InvMundo
  <1>2. d \in Datagrama /\ k \in Claves /\ d.n \in Nat
    <2>1. Head(cola) \in Datagrama
      BY <1>1, HeadTailProperties DEF TypeOK
    <2> QED
      BY <2>1 DEF Datagrama
  <1>3. cola' \in Seq(Datagrama) /\ UNCHANGED <<llegadas, vista>>
    <2>1. Tail(cola) \in Seq(Datagrama)
      BY <1>1, HeadTailProperties DEF TypeOK
    <2> QED
      BY <2>1 DEF Recibir, RecibirSyn, RecibirAck, RecibirFin, Ping, PassDoor, Ignorar, Sacado
  <1> HIDE DEF d
  <1>4. \A j \in Claves : enviados[j] = IF conexiones[j].enviadoAceptar THEN Secuencia ELSE << >>
    BY <1>1 DEF AparicionEntera
  <1>5. SinConexion \in Conexion /\ ~ SinConexion.enviadoAceptar /\ conexiones[k] \in Conexion
    BY <1>1, <1>2 DEF SinConexion, Conexion, Fase, TypeOK
  \* All but PassDoor leave the thread free.
  <1>6. ASSUME UNCHANGED <<tarea>>, ~ Ocupado',
               \A j \in Claves :
                  enviados'[j] = IF conexiones'[j].enviadoAceptar THEN Secuencia ELSE << >>
        PROVE  AparicionEntera' /\ Aceptada'
    BY <1>6 DEF AparicionEntera, Aceptada
  <1>7. CASE RecibirSyn(d)
    <2> DEFINE c == [SinConexion EXCEPT !.idConexion = siguienteId, !.fase = "SynRespondido"]
    <2>1. /\ conexiones' = [conexiones EXCEPT ![k] = c]
          /\ siguienteId' = siguienteId + 1
          /\ enviados' = [enviados EXCEPT ![k] = << >>]
          /\ UNCHANGED <<tarea, jugs, pico, pongs>>
      BY <1>7 DEF RecibirSyn, monitor
    <2>2. c \in Conexion /\ c.idConexion # 0 /\ ~ c.enviadoAceptar
      BY <1>1 DEF SinConexion, Conexion, Fase, TypeOK
    <2> HIDE DEF c
    <2>3. TypeOK'
      <3>1. conexiones' \in [Claves -> Conexion] /\ enviados' \in [Claves -> Seq(Opcode)]
        BY <1>1, <1>2, <2>1, <2>2 DEF TypeOK
      <3>2. siguienteId' \in Nat \ {0}
        BY <1>1, <2>1 DEF TypeOK
      <3> QED
        BY <1>1, <1>3, <2>1, <3>1, <3>2 DEF TypeOK
    <2>4. \A j \in Claves :
            /\ enviados'[j] = IF conexiones'[j].enviadoAceptar THEN Secuencia ELSE << >>
            /\ Viva(j) => Viva(j)'
      BY <1>1, <1>2, <1>4, <2>1, <2>2 DEF TypeOK, Viva
    <2>5. ListaFiel'
      BY <1>1, <2>1, <2>4 DEF ListaFiel, TypeOK, Jugador
    <2>6. VistaCoherente'
      BY <1>1, <1>3, <2>1 DEF VistaCoherente
    <2> QED
      BY <1>6, <2>1, <2>3, <2>4, <2>5, <2>6 DEF InvMundo, Ocupado
  <1>8. CASE RecibirAck(d)
    <2>1. /\ conexiones' = IF Viva(k) THEN [conexiones EXCEPT ![k].fase = "Establecida"]
                           ELSE conexiones
          /\ UNCHANGED <<siguienteId, tarea, jugs, pico, enviados, pongs>>
      BY <1>8 DEF RecibirAck, monitor
    <2>2. conexiones' \in [Claves -> Conexion]
      BY <1>1, <1>5, <2>1 DEF TypeOK, Conexion, Fase
    <2>3. \A j \in Claves :
            /\ conexiones'[j].enviadoAceptar = conexiones[j].enviadoAceptar
            /\ Viva(j) => Viva(j)'
      BY <1>1, <1>2, <2>1 DEF TypeOK, Viva, Conexion
    <2>4. TypeOK'
      BY <1>1, <1>3, <2>1, <2>2 DEF TypeOK
    <2>5. ListaFiel'
      BY <1>1, <2>1, <2>3 DEF ListaFiel, TypeOK, Jugador
    <2>6. VistaCoherente'
      BY <1>1, <1>3, <2>1 DEF VistaCoherente
    <2> QED
      BY <1>4, <1>6, <2>1, <2>3, <2>4, <2>5, <2>6 DEF InvMundo, Ocupado
  <1>9. CASE RecibirFin(d)
    <2>1. /\ conexiones' = [conexiones EXCEPT ![k] = SinConexion]
          /\ clienteSale(k)
          /\ enviados' = [enviados EXCEPT ![k] = << >>]
          /\ UNCHANGED <<siguienteId, tarea, pongs>>
      BY <1>9 DEF RecibirFin
    <2>2. Monitor(jugs', pico') /\ pico' = pico /\ jugs' = {j \in jugs : j.clave # k}
      BY <1>1, <1>2, <2>1, AlSalir
    <2>3. TypeOK'
      BY <1>1, <1>2, <1>3, <1>5, <2>1, <2>2 DEF TypeOK, Monitor
    <2>4. \A j \in Claves :
            /\ enviados'[j] = IF conexiones'[j].enviadoAceptar THEN Secuencia ELSE << >>
            /\ Viva(j) /\ j # k => Viva(j)'
      BY <1>1, <1>2, <1>4, <1>5, <2>1 DEF TypeOK, Viva
    <2>5. ListaFiel'
      BY <1>1, <2>2, <2>4 DEF ListaFiel, TypeOK, Jugador, Monitor, SinRepetir
    <2>6. VistaCoherente'
      BY <1>1, <1>3, <2>2 DEF VistaCoherente
    <2> QED
      BY <1>6, <2>1, <2>3, <2>4, <2>5, <2>6 DEF InvMundo, Ocupado
  <1>10. CASE Ping(d)
    <2>1. /\ conexiones' = [conexiones EXCEPT ![k].idMensajeTx = @ + 1]
          /\ pongs' = pongs \cup {d.n}
          /\ UNCHANGED <<siguienteId, tarea, jugs, pico, enviados>>
      BY <1>10 DEF Ping, monitor
    <2>2. conexiones' \in [Claves -> Conexion]
      BY <1>1, <1>2, <2>1, OtroMensaje
    <2>3. \A j \in Claves :
            /\ conexiones'[j].enviadoAceptar = conexiones[j].enviadoAceptar
            /\ Viva(j) => Viva(j)'
      BY <1>1, <1>2, <2>1, OtroMensaje
    <2>4. TypeOK'
      BY <1>1, <1>2, <1>3, <2>1, <2>2 DEF TypeOK
    <2>5. ListaFiel'
      BY <1>1, <2>1, <2>3 DEF ListaFiel, TypeOK, Jugador
    <2>6. VistaCoherente'
      BY <1>1, <1>3, <2>1 DEF VistaCoherente
    <2> QED
      BY <1>4, <1>6, <2>1, <2>3, <2>4, <2>5, <2>6 DEF InvMundo, Ocupado
  <1>11. CASE PassDoor(d)
    <2>1. /\ conexiones' = [conexiones EXCEPT ![k].enviadoAceptar = TRUE]
          /\ tarea' = [clave |-> k, resto |-> Secuencia]
          /\ Viva(k) /\ ~ conexiones[k].enviadoAceptar
          /\ UNCHANGED <<siguienteId, jugs, pico, enviados, pongs>>
      BY <1>11 DEF PassDoor, monitor, Legible
    <2>2. conexiones' \in [Claves -> Conexion]
      BY <1>1, <1>5, <2>1 DEF TypeOK, Conexion
    <2>3. /\ conexiones'[k].enviadoAceptar
          /\ \A j \in Claves : Viva(j) => Viva(j)'
          /\ \A j \in Claves \ {k} : conexiones'[j] = conexiones[j]
      BY <1>1, <1>2, <1>5, <2>1 DEF TypeOK, Viva, Conexion
    <2>4. TypeOK'
      BY <1>1, <1>2, <1>3, <2>1, <2>2, TipoSecuencia DEF TypeOK
    <2>5. enviados[k] = << >> /\ << >> \o Secuencia = Secuencia
      BY <1>2, <1>4, <2>1, TipoSecuencia, ConcatEmptySeq
    <2>6. AparicionEntera'
      BY <1>2, <1>4, <2>1, <2>3, <2>5 DEF AparicionEntera, Ocupado
    <2>7. Aceptada'
      BY <2>1, <2>3 DEF Aceptada
    <2>8. ListaFiel'
      BY <1>1, <2>1, <2>3 DEF ListaFiel, TypeOK, Jugador
    <2>9. VistaCoherente'
      BY <1>1, <1>3, <2>1 DEF VistaCoherente
    <2> QED
      BY <2>4, <2>6, <2>7, <2>8, <2>9 DEF InvMundo
  <1>12. CASE Ignorar(d)
    <2>1. UNCHANGED <<conexiones, siguienteId, tarea, jugs, pico, enviados, pongs>>
      BY <1>12 DEF Ignorar, monitor
    <2>2. TypeOK'
      BY <1>1, <1>3, <2>1 DEF TypeOK
    <2>3. ListaFiel' /\ VistaCoherente'
      BY <1>1, <1>3, <2>1 DEF ListaFiel, VistaCoherente, Viva
    <2> QED
      BY <1>4, <1>6, <2>1, <2>2, <2>3 DEF InvMundo, Ocupado
  <1> QED
    BY <1>7, <1>8, <1>9, <1>10, <1>11, <1>12 DEF Recibir, d

\* The next message of the appearance in hand.
LEMMA PasoAparecer == InvMundo /\ Aparecer => InvMundo'
  <1> SUFFICES ASSUME InvMundo, Aparecer PROVE InvMundo'
    OBVIOUS
  <1> DEFINE k == tarea.clave
             m == Head(tarea.resto)
  <1>1. /\ TypeOK /\ AparicionEntera /\ Aceptada /\ ListaFiel /\ VistaCoherente
        /\ Monitor(jugs, pico) /\ Ocupado
    BY MonitorInvariante DEF InvMundo, Aparecer
  <1>2. k \in Claves /\ conexiones[k] \in Conexion
        /\ tarea.resto \in Seq(Opcode) /\ tarea.resto # << >>
    BY <1>1 DEF TypeOK, Ocupado
  <1>3. /\ conexiones' = [conexiones EXCEPT ![k].idMensajeTx = @ + 1]
        /\ enviados' = [enviados EXCEPT ![k] = Append(@, m)]
        /\ tarea' = [tarea EXCEPT !.resto = Tail(@)]
        /\ UNCHANGED <<siguienteId, cola, llegadas, vista, pongs>>
    BY DEF Aparecer
  <1>4. /\ tarea'.clave = k /\ tarea'.resto = Tail(tarea.resto)
        /\ tarea' \in [clave : Claves, resto : Seq(Opcode)]
    <2>1. Tail(tarea.resto) \in Seq(Opcode)
      BY <1>2, HeadTailProperties
    <2> QED
      BY <1>1, <1>3, <2>1 DEF TypeOK
  <1>5. /\ Viva(k) /\ conexiones[k].enviadoAceptar
        /\ enviados[k] \in Seq(Opcode) /\ enviados[k] \o tarea.resto = Secuencia
    BY <1>1, <1>2 DEF AparicionEntera, Aceptada, TypeOK
  <1>6. /\ m \in Opcode /\ enviados'[k] \in Seq(Opcode)
        /\ enviados'[k] \o Tail(tarea.resto) = Secuencia
        /\ Tail(tarea.resto) = << >> => enviados'[k] = Secuencia
    <2>1. enviados'[k] = Append(enviados[k], m)
      BY <1>1, <1>2, <1>3 DEF TypeOK
    <2>2. /\ m \in Opcode /\ Append(enviados[k], m) \in Seq(Opcode)
          /\ Append(enviados[k], m) \o Tail(tarea.resto) = enviados[k] \o tarea.resto
          /\ Tail(tarea.resto) = << >> =>
                Append(enviados[k], m) = enviados[k] \o tarea.resto
      BY <1>2, <1>5, PasaUno
    <2> QED
      BY <1>5, <2>1, <2>2, Zenon
  <1>7. /\ conexiones' \in [Claves -> Conexion]
        /\ \A j \in Claves :
              /\ conexiones'[j].enviadoAceptar = conexiones[j].enviadoAceptar
              /\ Viva(j) => Viva(j)'
    BY <1>1, <1>2, <1>3, OtroMensaje
  <1>8. \A j \in Claves \ {k} : enviados'[j] = enviados[j]
    BY <1>3
  <1>9. enviados' \in [Claves -> Seq(Opcode)]
    BY <1>1, <1>2, <1>3, <1>6, <1>8 DEF TypeOK
  <1>10. /\ Monitor(jugs', pico') /\ pico <= pico'
         /\ \A j \in jugs' : j.clave = k \/ j \in jugs
    <2>1. CASE m = "CREAR_JUGADOR"
      <3>1. clienteEntra(k, conexiones[k].idConexion)
        BY <2>1 DEF Aparecer
      <3>2. conexiones[k].idConexion \in Nat
        BY <1>2 DEF Conexion
      <3> QED
        BY <1>1, <1>2, <3>1, <3>2, AlEntrar
    <2>2. CASE m # "CREAR_JUGADOR"
      <3>1. UNCHANGED <<jugs, pico>>
        BY <2>2 DEF Aparecer, monitor
      <3> QED
        BY <1>1, <3>1 DEF Monitor
    <2> QED
      BY <2>1, <2>2
  <1>11. TypeOK'
    BY <1>1, <1>3, <1>4, <1>7, <1>9, <1>10 DEF TypeOK, Monitor
  <1>12. AparicionEntera'
    <2>1. ASSUME NEW j \in Claves \ {k}
          PROVE  enviados'[j] = IF conexiones'[j].enviadoAceptar THEN Secuencia ELSE << >>
      <3>1. tarea.clave # j /\ enviados'[j] = enviados[j]
        BY <1>8
      <3>2. enviados[j] = IF conexiones[j].enviadoAceptar THEN Secuencia ELSE << >>
        BY <1>1, <3>1 DEF AparicionEntera
      <3>3. conexiones'[j].enviadoAceptar = conexiones[j].enviadoAceptar
        BY <1>7
      <3> QED
        BY <3>1, <3>2, <3>3
    <2>2. conexiones'[k].idConexion # 0 /\ conexiones'[k].enviadoAceptar
      BY <1>2, <1>5, <1>7 DEF Viva
    <2> QED
      BY <1>2, <1>4, <1>6, <2>1, <2>2 DEF AparicionEntera, Ocupado, Viva
  <1>13. Aceptada'
    BY <1>2, <1>4, <1>5, <1>7 DEF Aceptada
  <1>14. ListaFiel'
    <2>1. \A j \in jugs' : Viva(j.clave)'
      BY <1>1, <1>2, <1>5, <1>7, <1>10 DEF ListaFiel, TypeOK, Jugador
    <2> QED
      BY <1>10, <2>1 DEF ListaFiel, Monitor, SinRepetir
  <1>15. VistaCoherente'
    BY <1>1, <1>3, <1>10 DEF VistaCoherente, TypeOK, Monitor
  <1> QED
    BY <1>11, <1>12, <1>13, <1>14, <1>15 DEF InvMundo

\* The clients only make the socket longer.
LEMMA PasoLlega ==
    ASSUME InvMundo, NEW k \in Claves, NEW tipo \in Tipo, Llega(k, tipo)
    PROVE  InvMundo'
  <1> DEFINE d == [clave |-> k, tipo |-> tipo, n |-> llegadas + 1]
  <1>1. /\ llegadas' = llegadas + 1 /\ cola' = Append(cola, d)
        /\ UNCHANGED <<conexiones, siguienteId, tarea, jugs, pico, vista, enviados, pongs>>
    BY DEF Llega, monitor
  <1>2. d \in Datagrama
    BY DEF InvMundo, TypeOK, Datagrama
  <1> HIDE DEF d
  <1>3. cola' \in Seq(Datagrama) /\ llegadas' \in Nat
    BY <1>1, <1>2, AppendProperties DEF InvMundo, TypeOK
  <1>4. TypeOK'
    BY <1>1, <1>3 DEF InvMundo, TypeOK
  <1> QED
    BY <1>1, <1>4 DEF InvMundo, AparicionEntera, Aceptada, ListaFiel, VistaCoherente, Ocupado, Viva

\* The window reads the number of players, later the peak.
LEMMA PasoRefrescar == InvMundo /\ Refrescar => InvMundo'
  <1> SUFFICES ASSUME InvMundo, Refrescar PROVE InvMundo'
    OBVIOUS
  <1>1. /\ UNCHANGED <<conexiones, siguienteId, cola, llegadas, tarea, jugs, pico, enviados, pongs>>
        /\ Monitor(jugs, pico) /\ Cardinality(jugs) \in Nat
    BY MonitorInvariante, FS_CardinalityType DEF Refrescar, monitor, Monitor
  <1>2. vista' \in [num : Nat, pico : Nat, lee : {"num", "pico"}] /\ VistaCoherente'
    <2>1. CASE LeerNum
      BY <1>1, <2>1 DEF LeerNum, InvMundo, TypeOK, VistaCoherente, Monitor
    <2>2. CASE LeerPico
      BY <1>1, <2>2 DEF LeerPico, InvMundo, TypeOK, VistaCoherente, Monitor
    <2> QED
      BY <2>1, <2>2 DEF Refrescar
  <1>3. TypeOK'
    BY <1>1, <1>2 DEF InvMundo, TypeOK
  <1> QED
    BY <1>1, <1>2, <1>3 DEF InvMundo, AparicionEntera, Aceptada, ListaFiel, Ocupado, Viva

LEMMA MundoPaso == InvMundo /\ [Next]_vars => InvMundo'
  <1> SUFFICES ASSUME InvMundo, [Next]_vars PROVE InvMundo'
    OBVIOUS
  <1>1. CASE UNCHANGED vars
    BY <1>1 DEF vars, monitor, InvMundo, TypeOK, AparicionEntera, Aceptada, ListaFiel,
                VistaCoherente, Ocupado, Viva
  <1>2. CASE Next
    BY <1>2, PasoRecibir, PasoAparecer, PasoLlega, PasoRefrescar DEF Next, Hilo
  <1> QED
    BY <1>1, <1>2

LEMMA MundoInvariante == Spec => []InvMundo
  BY MundoInit, MundoPaso, PTL DEF Spec

-----------------------------------------------------------------------------
\* Every variable keeps its type, for any endpoints, configuration and
\* datagrams: ids and counts are numbers, an appearance is made of the known
\* opcodes, and the players are finitely many.
THEOREM TipoMundo == Spec => []TypeOK
  <1>1. InvMundo => TypeOK
    BY DEF InvMundo
  <1> QED
    BY <1>1, MundoInvariante, PTL

\* Whatever arrives while the thread sleeps between two messages, a connection
\* got nothing of its appearance, or all of it in order, or the part that the
\* thread is sending: a repeated PASSDOOR, a FIN or a new SYN never cuts or
\* mixes it.
THEOREM AparicionSiempreEntera == Spec => []AparicionEntera
  <1>1. InvMundo => AparicionEntera
    BY DEF InvMundo
  <1> QED
    BY <1>1, MundoInvariante, PTL

\* The list of players and the connections agree at every moment: who is
\* listed is connected, nobody is listed twice, and the peak bounds the list.
THEOREM ListaSiempreFiel == Spec => []ListaFiel
  <1>1. InvMundo => ListaFiel
    BY DEF InvMundo
  <1> QED
    BY <1>1, MundoInvariante, PTL

\* Between the two locks under which the window reads the monitor any number
\* of players may come and go, and it still never shows more than the peak.
THEOREM VistaSiempreCoherente == Spec => []VistaCoherente
  <1>1. InvMundo => VistaCoherente
    BY DEF InvMundo
  <1> QED
    BY <1>1, MundoInvariante, PTL

-----------------------------------------------------------------------------
(* The refinement: ServidorMundo implements ServicioMundo.                 *)

LEMMA SimulaMundoInit == Init => Servicio!Init
  BY DEF Init, Servicio!Init, SinConexion

\* Between two appearances every connection has nothing of its own, or all.
LEMMA TodosQuietos ==
    ASSUME InvMundo, ~ Ocupado
    PROVE  \A j \in Claves : Servicio!Quieto(j)
  <1>1. \A j \in Claves : enviados[j] = IF conexiones[j].enviadoAceptar THEN Secuencia ELSE << >>
    BY DEF InvMundo, AparicionEntera
  <1> QED
    BY <1>1 DEF Servicio!Quieto

\* A step that touches nothing that the service shows.
LEMMA Calla ==
    ASSUME UNCHANGED <<siguienteId, enviados, jugs, pico>>,
           \A j \in Claves : conexiones'[j].idConexion = conexiones[j].idConexion
    PROVE  UNCHANGED Servicio!vars
  BY DEF Servicio!vars

LEMMA Avanza ==
    ASSUME NEW k \in Claves, Servicio!Abrir(k) \/ Servicio!Cerrar(k) \/ Servicio!Decir(k)
    PROVE  [Servicio!Next]_Servicio!vars
  BY DEF Servicio!Next

\* A datagram taken from the socket opens a session, closes one, or is nothing
\* to the service.
LEMMA SimulaRecibir ==
    ASSUME InvMundo, ~ Ocupado, cola # << >>, Recibir(Head(cola))
    PROVE  [Servicio!Next]_Servicio!vars
  <1> DEFINE d == Head(cola)
  <1>1. TypeOK /\ Monitor(jugs, pico) /\ \A j \in Claves : Servicio!Quieto(j)
    BY MonitorInvariante, TodosQuietos DEF InvMundo
  <1>2. PICK k \in Claves : d.clave = k
    <2>1. Head(cola) \in Datagrama
      BY <1>1, HeadTailProperties DEF TypeOK
    <2> QED
      BY <2>1 DEF Datagrama
  <1> HIDE DEF d
  <1>3. conexiones \in [Claves -> Conexion] /\ siguienteId \in Nat \ {0}
    BY <1>1 DEF TypeOK
  <1>4. CASE RecibirSyn(d)
    <2> DEFINE c == [SinConexion EXCEPT !.idConexion = siguienteId, !.fase = "SynRespondido"]
    <2>1. /\ conexiones' = [conexiones EXCEPT ![k] = c]
          /\ siguienteId' = siguienteId + 1
          /\ enviados' = [enviados EXCEPT ![k] = << >>]
          /\ UNCHANGED <<jugs, pico>>
      BY <1>2, <1>4 DEF RecibirSyn, monitor
    <2>2. c.idConexion = siguienteId
      BY DEF SinConexion
    <2> HIDE DEF c
    <2>3. siguienteId' - 1 = (siguienteId - 1) + 1 /\ siguienteId' - 1 = siguienteId
      BY <1>3, <2>1
    <2>4. [j \in Claves |-> conexiones'[j].idConexion] =
             [[j \in Claves |-> conexiones[j].idConexion] EXCEPT ![k] = siguienteId' - 1]
      BY <1>2, <1>3, <2>1, <2>2, <2>3
    <2>5. Servicio!Abrir(k)
      BY <1>1, <2>1, <2>3, <2>4 DEF Servicio!Abrir
    <2> QED
      BY <1>2, <2>5, Avanza
  <1>5. CASE RecibirFin(d)
    <2>1. /\ conexiones' = [conexiones EXCEPT ![k] = SinConexion]
          /\ clienteSale(k)
          /\ enviados' = [enviados EXCEPT ![k] = << >>]
          /\ UNCHANGED siguienteId
      BY <1>2, <1>5 DEF RecibirFin
    <2>2. pico' = pico /\ jugs' = {j \in jugs : j.clave # k}
      BY <1>1, <1>2, <2>1, AlSalir
    <2>3. [j \in Claves |-> conexiones'[j].idConexion] =
             [[j \in Claves |-> conexiones[j].idConexion] EXCEPT ![k] = 0]
      BY <1>2, <1>3, <2>1 DEF SinConexion
    <2>4. Servicio!Cerrar(k)
      BY <1>1, <2>1, <2>2, <2>3 DEF Servicio!Cerrar
    <2> QED
      BY <1>2, <2>4, Avanza
  <1>6. CASE RecibirAck(d)
    <2>1. /\ conexiones' = IF Viva(k) THEN [conexiones EXCEPT ![k].fase = "Establecida"]
                           ELSE conexiones
          /\ UNCHANGED <<siguienteId, enviados, jugs, pico>>
      BY <1>2, <1>6 DEF RecibirAck, monitor
    <2>2. \A j \in Claves : conexiones'[j].idConexion = conexiones[j].idConexion
      BY <1>2, <1>3, <2>1 DEF Conexion
    <2> QED
      BY <2>1, <2>2, Calla
  <1>7. CASE Ping(d)
    <2>1. /\ conexiones' = [conexiones EXCEPT ![k].idMensajeTx = @ + 1]
          /\ UNCHANGED <<siguienteId, enviados, jugs, pico>>
      BY <1>2, <1>7 DEF Ping, monitor
    <2>2. \A j \in Claves : conexiones'[j].idConexion = conexiones[j].idConexion
      BY <1>2, <1>3, <2>1 DEF Conexion
    <2> QED
      BY <2>1, <2>2, Calla
  <1>8. CASE PassDoor(d)
    <2>1. /\ conexiones' = [conexiones EXCEPT ![k].enviadoAceptar = TRUE]
          /\ UNCHANGED <<siguienteId, enviados, jugs, pico>>
      BY <1>2, <1>8 DEF PassDoor, monitor
    <2>2. \A j \in Claves : conexiones'[j].idConexion = conexiones[j].idConexion
      BY <1>2, <1>3, <2>1 DEF Conexion
    <2> QED
      BY <2>1, <2>2, Calla
  <1>9. CASE Ignorar(d)
    BY <1>9, Calla DEF Ignorar, monitor
  <1> QED
    BY <1>4, <1>5, <1>6, <1>7, <1>8, <1>9 DEF Recibir, d

\* A piece that is not the last is the next message of the whole.
LEMMA Siguiente ==
    ASSUME NEW s \in Seq(Opcode), NEW r \in Seq(Opcode), r # << >>
    PROVE  /\ Len(s) < Len(s \o r)
           /\ (s \o r)[Len(s) + 1] = Head(r)
  <1>1. Len(s) \in Nat /\ Len(r) \in Nat /\ Len(r) > 0 /\ Head(r) = r[1]
    BY HeadTailProperties, LenProperties, EmptySeq
  <1>2. Len(s \o r) = Len(s) + Len(r)
        /\ \A i \in 1 .. Len(s) + Len(r) :
              (s \o r)[i] = IF i <= Len(s) THEN s[i] ELSE r[i - Len(s)]
    BY ConcatProperties
  <1>3. Len(s) + 1 \in 1 .. Len(s) + Len(r) /\ (Len(s) + 1) - Len(s) = 1 /\ ~ Len(s) + 1 <= Len(s)
    BY <1>1
  <1> QED
    BY <1>1, <1>2, <1>3

\* The list with one player in the place of the one with its endpoint, and the
\* peak as the most that were listed.
ListaCon(J, k, id) == {j \in J : j.clave # k} \cup {[clave |-> k, id |-> id]}
PicoDe(J, p) == IF Cardinality(J) > p THEN Cardinality(J) ELSE p

\* The two branches of clienteEntra come to the same: the new entry takes the
\* place of the old, and the peak is the most that were ever listed.
LEMMA EntraEs ==
    ASSUME Monitor(jugs, pico), NEW k \in Claves, NEW id \in Nat, clienteEntra(k, id)
    PROVE  jugs' = ListaCon(jugs, k, id) /\ pico' = PicoDe(jugs', pico)
  <1> DEFINE nuevo == [clave |-> k, id |-> id]
  <1>1. Cardinality(jugs') \in Nat /\ Cardinality(jugs') <= pico' /\ pico \in Nat
    BY AlEntrar, FS_CardinalityType DEF Monitor
  <1>2. CASE \E j \in jugs : j.clave = k
    <2>1. PICK j \in jugs : j.clave = k /\ jugs' = (jugs \ {j}) \cup {nuevo}
      BY <1>2 DEF clienteEntra
    <2>2. pico' = pico
      BY <1>2 DEF clienteEntra
    <2>3. jugs \ {j} = {i \in jugs : i.clave # k}
      BY <2>1 DEF Monitor, SinRepetir
    <2>4. ~ Cardinality(jugs') > pico
      BY <1>1, <2>2
    <2> QED
      BY <2>1, <2>2, <2>3, <2>4 DEF ListaCon, PicoDe
  <1>3. CASE ~ \E j \in jugs : j.clave = k
    <2>1. {i \in jugs : i.clave # k} = jugs
      BY <1>3
    <2> QED
      BY <1>3, <2>1 DEF clienteEntra, ListaCon, PicoDe
  <1> QED
    BY <1>2, <1>3

\* The service counts the players as the server does.
LEMMA MismaCuenta == \A J : Servicio!Cardinality(J) = Cardinality(J)
  BY DEF Servicio!Cardinality, Cardinality

\* A message of the appearance in hand is the next one the session has to hear.
LEMMA SimulaAparecer ==
    ASSUME InvMundo, Aparecer
    PROVE  [Servicio!Next]_Servicio!vars
  <1>1. /\ TypeOK /\ AparicionEntera /\ Monitor(jugs, pico) /\ Ocupado
    BY MonitorInvariante DEF InvMundo, Aparecer
  <1>0. PICK k \in Claves : tarea.clave = k
    BY <1>1 DEF TypeOK
  <1>m. PICK m \in Opcode : m = Head(tarea.resto)
    BY <1>1, HeadTailProperties DEF TypeOK, Ocupado
  <1>s. PICK s \in Seq(Opcode) : s = enviados[k]
    BY <1>1 DEF TypeOK
  <1>2. /\ conexiones \in [Claves -> Conexion]
        /\ tarea.resto \in Seq(Opcode) /\ tarea.resto # << >>
    BY <1>1 DEF TypeOK, Ocupado
  <1>3. Viva(k) /\ s \o tarea.resto = Secuencia
    BY <1>0, <1>1, <1>s DEF AparicionEntera
  <1>4. Len(s) < Len(Secuencia) /\ Secuencia[Len(s) + 1] = m
    <2>1. Len(s) < Len(s \o tarea.resto) /\ (s \o tarea.resto)[Len(s) + 1] = m
      BY <1>2, <1>m, Siguiente
    <2> QED
      BY <1>3, <2>1
  <1>5. \A j \in Claves \ {k} : Servicio!Quieto(j)
    <2>1. \A j \in Claves \ {k} :
             enviados[j] = IF conexiones[j].enviadoAceptar THEN Secuencia ELSE << >>
      BY <1>0, <1>1 DEF AparicionEntera
    <2> QED
      BY <2>1 DEF Servicio!Quieto
  <1>6. /\ conexiones' = [conexiones EXCEPT ![k].idMensajeTx = @ + 1]
        /\ enviados' = [enviados EXCEPT ![k] = Append(@, m)]
        /\ UNCHANGED siguienteId
    BY <1>0, <1>m DEF Aparecer
  <1>7. /\ conexiones[k].idConexion \in Nat /\ conexiones[k].idConexion # 0
        /\ \A j \in Claves : conexiones'[j].idConexion = conexiones[j].idConexion
    BY <1>2, <1>3, <1>6 DEF Conexion, Viva
  <1>8. /\ jugs' = IF m = "CREAR_JUGADOR"
                   THEN ListaCon(jugs, k, conexiones[k].idConexion) ELSE jugs
        /\ pico' = PicoDe(jugs', pico)
    <2>1. CASE m = "CREAR_JUGADOR"
      <3>1. clienteEntra(k, conexiones[k].idConexion)
        BY <1>0, <1>m, <2>1 DEF Aparecer
      <3> QED
        BY <1>1, <1>7, <2>1, <3>1, EntraEs
    <2>2. CASE m # "CREAR_JUGADOR"
      <3>1. UNCHANGED <<jugs, pico>>
        BY <1>m, <2>2 DEF Aparecer, monitor
      <3>2. Cardinality(jugs) \in Nat /\ Cardinality(jugs) <= pico /\ pico \in Nat
        BY <1>1, FS_CardinalityType DEF Monitor
      <3>3. PicoDe(jugs, pico) = pico
        BY <3>2 DEF PicoDe
      <3> QED
        BY <2>2, <3>1, <3>3
    <2> QED
      BY <2>1, <2>2
  <1>9. [j \in Claves |-> conexiones'[j].idConexion] = [j \in Claves |-> conexiones[j].idConexion]
    BY <1>7
  <1>10. [j \in Claves |-> conexiones[j].idConexion][k] = conexiones[k].idConexion
    OBVIOUS
  <1>11. UNCHANGED <<[j \in Claves |-> conexiones[j].idConexion], siguienteId - 1>>
    BY <1>6, <1>9
  <1>12. Servicio!Decir(k)
    <2> DEFINE lista == IF m = "CREAR_JUGADOR"
                        THEN {j \in jugs : j.clave # k}
                             \cup {[clave |-> k,
                                   id |-> [j \in Claves |-> conexiones[j].idConexion][k]]}
                        ELSE jugs
    <2>1. jugs' = lista
      BY <1>8, <1>10 DEF ListaCon
    <2>2. pico' = IF Cardinality(jugs') > pico THEN Cardinality(jugs') ELSE pico
      BY <1>8 DEF PicoDe
    <2>3. Secuencia[Len(enviados[k]) + 1] = m /\ Len(enviados[k]) < Len(Secuencia)
      BY <1>4, <1>s
    <2> QED
      BY <1>5, <1>6, <1>7, <1>10, <1>11, <2>1, <2>2, <2>3, MismaCuenta DEF Servicio!Decir
  <1> QED
    BY <1>12, Avanza

\* Whatever the clients repeat, and however long a datagram waits in the socket
\* behind the Sleeps, the world server does nothing that ServicioMundo does not
\* allow: one appearance at a time, whole and in order, and a list of players
\* that changes only with CREAR_JUGADOR and FIN.
THEOREM MundoImplementaServicio == Spec => ImplementaServicio
  <1>1. InvMundo /\ [Next]_vars => [Servicio!Next]_Servicio!vars
    <2> SUFFICES ASSUME InvMundo, [Next]_vars
                 PROVE  [Servicio!Next]_Servicio!vars
      OBVIOUS
    <2>1. CASE UNCHANGED vars
      BY <2>1 DEF vars, monitor, Servicio!vars
    <2>2. CASE Next
      <3>1. CASE Hilo
        BY <3>1, SimulaRecibir, SimulaAparecer DEF Hilo
      <3>2. CASE Refrescar
        BY <3>2, Calla DEF Refrescar, monitor
      <3>3. ASSUME NEW k \in Claves, NEW tipo \in Tipo, Llega(k, tipo)
            PROVE  [Servicio!Next]_Servicio!vars
        BY <3>3, Calla DEF Llega, monitor
      <3> QED
        BY <2>2, <3>1, <3>2, <3>3 DEF Next
    <2> QED
      BY <2>1, <2>2
  <1> QED
    BY MundoInit, MundoPaso, SimulaMundoInit, <1>1, PTL
       DEF Spec, ImplementaServicio, Servicio!Spec
==============================================================================
