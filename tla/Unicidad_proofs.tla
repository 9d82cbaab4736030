--------------------------- MODULE Unicidad_proofs ---------------------------
(***************************************************************************)
(* What holds of the connections of the login server and of what they were *)
(* told, for every value of the constants: each answer once, CUENTA with   *)
(* every character, message ids without holes, one session per account.    *)
(*                                                                         *)
(* The properties speak of messages already sent, perhaps by a connection  *)
(* that is no more; what guards them lives in the connections.  InvUnicas  *)
(* ties the two together: every id was given to one connection only, and   *)
(* the flag of an answer is up in the connection that sent it.             *)
(*                                                                         *)
(* And, on top of that invariant, that ServidorLogin implements            *)
(* ServicioLogin.                                                          *)
(***************************************************************************)
EXTENDS ServidorLogin_proofs

\* Ids are given once: those of the live connections differ, and everything
\* sent so far was sent under an id already given.
IdsDados ==
    /\ \A k \in Claves : conexiones[k].idConexion < siguienteId
    /\ \A j, k \in Claves :
          Viva(k) /\ conexiones[j].idConexion = conexiones[k].idConexion => j = k
    /\ \A m \in red : 0 < m.id /\ m.id < siguienteId

\* Only a live connection has records in hand.
EnCurso == \A k \in Claves : pendientes[k] # <<>> => Viva(k)

\* The flag of every governed answer is up in the connection that sent it.
Anotadas ==
    \A k \in Claves : \A m \in red :
        m.id = conexiones[k].idConexion => Bandera(conexiones[k], Clase(m))

InvUnicas == TypeOK /\ IdsDados /\ EnCurso /\ Anotadas /\ RespuestasUnicas

-----------------------------------------------------------------------------
LEMMA UnicasInit == Init => InvUnicas
  <1> SUFFICES ASSUME Init PROVE InvUnicas
    OBVIOUS
  <1>1. TypeOK
    BY TipoInit
  <1>2. IdsDados
    BY DEF Init, IdsDados, SinConexion, Viva
  <1>3. EnCurso
    BY DEF Init, EnCurso
  <1>4. Anotadas /\ RespuestasUnicas
    BY DEF Init, Anotadas, RespuestasUnicas
  <1> QED
    BY <1>1, <1>2, <1>3, <1>4 DEF InvUnicas

\* A reception sends nothing.  SYN takes a fresh id, under which nothing was
\* sent; FIN removes one; ACK and data keep the flags.
LEMMA UnicasRecibir ==
    ASSUME InvUnicas, NEW k \in Claves, Recibir(k)
    PROVE  InvUnicas'
  <1>1. TypeOK'
    BY TipoRecibir DEF InvUnicas
  <1>2. /\ TypeOK /\ IdsDados /\ EnCurso /\ Anotadas /\ RespuestasUnicas
        /\ \A j \in Claves : pendientes[j] = <<>>
        /\ red' = red
    BY DEF InvUnicas, Recibir, RecibirSyn, RecibirAck, RecibirFin, RecibirDatos, Ociosa
  <1>3. RespuestasUnicas'
    BY <1>2 DEF RespuestasUnicas
  <1>4. CASE \E u \in Usuarios : RecibirSyn(k, u)
    <2> PICK u \in Usuarios : RecibirSyn(k, u)
      BY <1>4
    <2>1. /\ siguienteId \in Nat \ {0} /\ siguienteId' = siguienteId + 1
          /\ conexiones'[k].idConexion = siguienteId
          /\ \A j \in Claves \ {k} : conexiones'[j] = conexiones[j]
          /\ pendientes' = pendientes
      BY <1>2 DEF RecibirSyn, TypeOK, SinConexion
    <2>2. \A j \in Claves : conexiones[j].idConexion \in Nat
      BY <1>2 DEF TypeOK, Conexion
    <2>3. IdsDados'
      <3>1. \A j \in Claves : conexiones'[j].idConexion < siguienteId'
        BY <1>2, <2>1, <2>2 DEF IdsDados
      <3>2. ASSUME NEW i \in Claves, NEW j \in Claves, Viva(j)',
                   conexiones'[i].idConexion = conexiones'[j].idConexion
            PROVE  i = j
        <4>1. \A h \in Claves \ {k} : conexiones'[h].idConexion < siguienteId
          BY <1>2, <2>1 DEF IdsDados
        <4>2. CASE i # k /\ j # k
          BY <1>2, <2>1, <3>2, <4>2 DEF IdsDados, Viva
        <4>3. CASE i = k \/ j = k
          BY <2>1, <2>2, <3>2, <4>1, <4>3
        <4> QED
          BY <4>2, <4>3
      <3>3. \A m \in red' : 0 < m.id /\ m.id < siguienteId'
        <4>1. \A m \in red : m.id \in Nat /\ 0 < m.id /\ m.id < siguienteId
          BY <1>2 DEF IdsDados, TypeOK, Mensaje
        <4> QED
          BY <1>2, <2>1, <4>1
      <3> QED
        BY <3>1, <3>2, <3>3 DEF IdsDados
    <2>4. EnCurso'
      BY <1>2, <2>1 DEF EnCurso
    <2>5. Anotadas'
      <3>1. \A m \in red : m.id # conexiones'[k].idConexion
        BY <1>2, <2>1 DEF IdsDados, TypeOK, Mensaje
      <3> QED
        BY <1>2, <2>1, <3>1 DEF Anotadas
    <2> QED
      BY <1>1, <1>3, <2>3, <2>4, <2>5 DEF InvUnicas
  <1>5. CASE RecibirFin(k)
    <2>1. /\ siguienteId' = siguienteId /\ pendientes' = pendientes
          /\ conexiones'[k].idConexion = 0
          /\ \A j \in Claves \ {k} : conexiones'[j] = conexiones[j]
      BY <1>2, <1>5 DEF RecibirFin, TypeOK, SinConexion
    <2>2. IdsDados'
      <3>1. 0 < siguienteId
        BY <1>2 DEF TypeOK
      <3> QED
        BY <1>2, <2>1, <3>1 DEF IdsDados, Viva
    <2>3. EnCurso'
      BY <1>2, <2>1 DEF EnCurso
    <2>4. Anotadas'
      <3>1. \A m \in red : m.id # 0
        BY <1>2 DEF IdsDados, TypeOK, Mensaje
      <3> QED
        BY <1>2, <2>1, <3>1 DEF Anotadas
    <2> QED
      BY <1>1, <1>3, <2>2, <2>3, <2>4 DEF InvUnicas
  <1>6. CASE RecibirAck(k) \/ \E d \in Datagramas : RecibirDatos(k, d)
    <2>1. /\ siguienteId' = siguienteId
          /\ conexiones'[k].idConexion = conexiones[k].idConexion
          /\ \A x : Bandera(conexiones[k], x) => Bandera(conexiones'[k], x)
          /\ \A j \in Claves \ {k} : conexiones'[j] = conexiones[j]
          /\ \A j \in Claves : pendientes'[j] # <<>> => Viva(j)
      <3>1. CASE RecibirAck(k)
        BY <1>2, <3>1 DEF RecibirAck, TypeOK, Conexion, Tocada, Bandera
      <3>2. CASE \E d \in Datagramas : RecibirDatos(k, d)
        BY <1>2, <3>2 DEF RecibirDatos, TypeOK, Conexion, Tocada, Bandera
      <3> QED
        BY <1>6, <3>1, <3>2
    <2>2. \A j \in Claves : conexiones'[j].idConexion = conexiones[j].idConexion
      BY <2>1
    <2>3. IdsDados'
      BY <1>2, <2>1, <2>2 DEF IdsDados, Viva
    <2>4. EnCurso'
      BY <2>1, <2>2 DEF EnCurso, Viva
    <2>5. Anotadas'
      BY <1>2, <2>1, <2>2 DEF Anotadas
    <2> QED
      BY <1>1, <1>3, <2>3, <2>4, <2>5 DEF InvUnicas
  <1> QED
    BY <1>4, <1>5, <1>6 DEF Recibir

\* A record: the answers it sends are those the flags of its connection allow.
LEMMA UnicasAtender ==
    ASSUME InvUnicas, NEW k \in Claves, Atender(k)
    PROVE  InvUnicas'
  <1>1. TypeOK /\ IdsDados /\ EnCurso /\ Anotadas /\ RespuestasUnicas
    BY DEF InvUnicas
  <1>2. TypeOK' /\ pendientes[k] # <<>>
    BY <1>1, TipoAtender, AtenderContesta
  <1>3. PICK c \in Conexion, t \in Nat \ {0}, ms \in Seq(Aplicacion) : Contesta(k, c, t, ms)
    BY <1>1, AtenderContesta DEF Contestacion
  <1> DEFINE id == conexiones[k].idConexion
             nuevos == Numerados(c, t, ms)
  <1>4. /\ Viva(k) /\ id \in Nat /\ 0 < id /\ id < siguienteId
        /\ siguienteId' = siguienteId /\ red' = red \cup nuevos
        /\ conexiones'[k].idConexion = id
        /\ \A x : Bandera(c, x) => Bandera(conexiones'[k], x)
        /\ \A j \in Claves \ {k} : conexiones'[j] = conexiones[j]
    <2>1. Viva(k) /\ id \in Nat /\ 0 < id /\ id < siguienteId
      BY <1>1, <1>2 DEF EnCurso, IdsDados, Viva, TypeOK, Conexion
    <2>2. conexiones'[k] = [c EXCEPT !.idMensajeTx = c.idMensajeTx + t * Len(ms)]
      BY <1>1, <1>3 DEF Contesta, Responder, TypeOK
    <2>3. conexiones'[k].idConexion = id /\ \A x : Bandera(c, x) => Bandera(conexiones'[k], x)
      BY <1>3, <2>2 DEF Contesta, Sigue, Bandera, Conexion
    <2> QED
      BY <1>1, <1>3, <2>1, <2>3 DEF Contesta, Responder, TypeOK
  <1>5. \A x : Bandera(conexiones[k], x) => Bandera(conexiones'[k], x)
    BY <1>3, <1>4 DEF Contesta, Sigue, Bandera
  <1>6. ASSUME NEW m \in nuevos
        PROVE  \E i \in 1 .. Len(ms) :
                  /\ m = [id |-> c.idConexion, n |-> c.idMensajeTx + 1 + (i - 1) * t,
                          trozos |-> t, op |-> ms[i].op, codigo |-> ms[i].codigo,
                          fichas |-> ms[i].fichas]
                  /\ m.id = id /\ Clase(m) = Clase(ms[i])
    BY <1>3 DEF Numerados, Contesta, Sigue, Clase
  <1>7. \A m \in nuevos : m.id = id /\ Bandera(conexiones'[k], Clase(m))
    <2> SUFFICES ASSUME NEW m \in nuevos PROVE m.id = id /\ Bandera(conexiones'[k], Clase(m))
      OBVIOUS
    <2>1. PICK i \in 1 .. Len(ms) : m.id = id /\ Clase(m) = Clase(ms[i])
      BY <1>6
    <2>2. Clase(m) # "otra" => Bandera(c, Clase(m))
      BY <1>3, <2>1 DEF Contesta, ConBandera
    <2>3. Clase(m) = "otra" => Bandera(c, Clase(m))
      BY DEF Bandera
    <2> QED
      BY <1>4, <2>1, <2>2, <2>3
  <1>8. IdsDados'
    <2>1. \A j \in Claves : conexiones'[j].idConexion = conexiones[j].idConexion
      BY <1>4
    <2>2. \A m \in red' : 0 < m.id /\ m.id < siguienteId'
      BY <1>1, <1>4, <1>7 DEF IdsDados
    <2> QED
      BY <1>1, <1>4, <2>1, <2>2 DEF IdsDados, Viva
  <1>9. EnCurso'
    <2>1. \A j \in Claves \ {k} : pendientes'[j] = pendientes[j]
      BY <1>1, <1>3 DEF Contesta, Responder, TypeOK
    <2> QED
      BY <1>1, <1>4, <2>1 DEF EnCurso, Viva
  <1>10. Anotadas'
    <2> SUFFICES ASSUME NEW j \in Claves, NEW m \in red', m.id = conexiones'[j].idConexion
                 PROVE  Bandera(conexiones'[j], Clase(m))
      BY DEF Anotadas
    <2>1. CASE m \in nuevos
      <3>1. j = k
        BY <1>1, <1>4, <1>7, <2>1 DEF IdsDados
      <3> QED
        BY <1>7, <2>1, <3>1
    <2>2. CASE m \in red
      BY <1>1, <1>4, <1>5, <2>2 DEF Anotadas
    <2> QED
      BY <1>4, <2>1, <2>2
  <1>11. RespuestasUnicas'
    <2>1. ASSUME NEW m1 \in nuevos, NEW m2 \in red, m1.id = m2.id,
                 Clase(m1) = Clase(m2), Clase(m1) # "otra"
          PROVE  FALSE
      <3>1. PICK i \in 1 .. Len(ms) : Clase(m1) = Clase(ms[i])
        BY <1>6
      <3>2. ~ Bandera(conexiones[k], Clase(m1))
        BY <1>3, <2>1, <3>1 DEF Contesta, ConBandera
      <3>3. Bandera(conexiones[k], Clase(m2))
        BY <1>1, <1>7, <2>1 DEF Anotadas
      <3> QED
        BY <2>1, <3>2, <3>3
    <2>2. ASSUME NEW m1 \in nuevos, NEW m2 \in nuevos,
                 Clase(m1) = Clase(m2), Clase(m1) # "otra"
          PROVE  m1 = m2
      <3> DEFINE M(i) == [id |-> c.idConexion, n |-> c.idMensajeTx + 1 + (i - 1) * t,
                          trozos |-> t, op |-> ms[i].op, codigo |-> ms[i].codigo,
                          fichas |-> ms[i].fichas]
      <3>1. PICK i \in 1 .. Len(ms) : m1 = M(i) /\ Clase(m1) = Clase(ms[i])
        BY <1>6
      <3>2. PICK j \in 1 .. Len(ms) : m2 = M(j) /\ Clase(m2) = Clase(ms[j])
        BY <1>6
      <3>3. i = j
        BY <1>3, <2>2, <3>1, <3>2 DEF Contesta, ConBandera
      <3> QED
        BY <3>1, <3>2, <3>3
    <2>3. red' = red \cup nuevos
      BY <1>4
    <2> HIDE DEF nuevos
    <2>4. ASSUME NEW m1 \in red', NEW m2 \in red', m1.id = m2.id,
                 Clase(m1) = Clase(m2), Clase(m1) # "otra"
          PROVE  m1 = m2
      <3>1. CASE m1 \in red /\ m2 \in red
        BY <1>1, <2>4, <3>1 DEF RespuestasUnicas
      <3>2. CASE m1 \in nuevos /\ m2 \in nuevos
        BY <2>2, <2>4, <3>2
      <3>3. CASE m1 \in nuevos /\ m2 \in red
        BY <2>1, <2>4, <3>3
      <3>4. CASE m1 \in red /\ m2 \in nuevos
        BY <2>1, <2>4, <3>4
      <3> QED
        BY <2>3, <3>1, <3>2, <3>3, <3>4
    <2> QED
      BY <2>4 DEF RespuestasUnicas
  <1> QED
    BY <1>2, <1>8, <1>9, <1>10, <1>11 DEF InvUnicas

\* Neither the connections nor the messages change.
LEMMA UnicasEntorno == InvUnicas /\ Entorno => InvUnicas'
  <1> SUFFICES ASSUME InvUnicas, Entorno PROVE InvUnicas'
    OBVIOUS
  <1>1. TypeOK'
    BY TipoEntorno DEF InvUnicas
  <1>2. UNCHANGED <<conexiones, siguienteId, pendientes, red>>
    BY DEF Entorno, Tic, CaeBd, CambiarCuenta, BorrarPersonaje
  <1> QED
    BY <1>1, <1>2 DEF InvUnicas, IdsDados, EnCurso, Anotadas, RespuestasUnicas, Viva

LEMMA UnicasPaso == InvUnicas /\ [Next]_vars => InvUnicas'
  <1> SUFFICES ASSUME InvUnicas, [Next]_vars PROVE InvUnicas'
    OBVIOUS
  <1>1. CASE UNCHANGED vars
    BY <1>1 DEF vars, InvUnicas, TypeOK, IdsDados, EnCurso, Anotadas,
                RespuestasUnicas, Viva
  <1>2. CASE Next
    BY <1>2, UnicasEntorno, UnicasRecibir, UnicasAtender DEF Next
  <1> QED
    BY <1>1, <1>2

LEMMA UnicasInvariante == Spec => []InvUnicas
  BY UnicasInit, UnicasPaso, PTL DEF Spec

\* Whatever the clients repeat, reorder or interleave, and for any number of
\* endpoints, accounts and records, a connection hears at most one verdict,
\* one LOGINACCEPTED and one ENTERINGGAMEACCEPTED.
THEOREM RespuestasSonUnicas == Spec => []RespuestasUnicas
  <1>1. InvUnicas => RespuestasUnicas
    BY DEF InvUnicas
  <1> QED
    BY UnicasInvariante, <1>1, PTL

-----------------------------------------------------------------------------
(* The characters that CUENTA shows.                                       *)

\* An accepted LOGIN sends one message, under the id of its connection.
LEMMA EfectoDeAceptar ==
    ASSUME TypeOK, NEW k \in Claves, LoginAceptado(k), NEW m \in red' \ red
    PROVE  \E s \in cargarPersonajes(conexiones[k].cuenta.id) :
              m.id = conexiones[k].idConexion /\ m.op = "CUENTA" /\ m.fichas = Fichas(s)
  <1> DEFINE c == [conexiones[k] EXCEPT !.enviadoLogin = TRUE]
  <1>1. PICK s \in cargarPersonajes(conexiones[k].cuenta.id) :
           Responder(k, c, TrozosCuenta, <<AppFichas("CUENTA", 0, Fichas(s))>>)
    BY DEF LoginAceptado
  <1> DEFINE a == AppFichas("CUENTA", 0, Fichas(s))
             ms == <<a>>
  <1>2. Responder(k, c, TrozosCuenta, ms) /\ Len(ms) = 1 /\ ms[1] = a
    BY <1>1
  <1>3. a.op = "CUENTA" /\ a.fichas = Fichas(s)
    BY DEF AppFichas
  <1>4. c.idConexion = conexiones[k].idConexion
    BY DEF TypeOK, Conexion
  <1> HIDE DEF a, ms, c
  <1>5. PICK i \in 1 .. Len(ms) : /\ m.id = c.idConexion /\ m.op = ms[i].op
                                  /\ m.fichas = ms[i].fichas
    BY <1>2, NuevasDeResponder
  <1> QED
    BY <1>2, <1>3, <1>4, <1>5

\* Whoever created the characters, from however many connections and with
\* whatever names, the CUENTA of an account with at most three and none deleted
\* has one card for each in its slot and no other; the card shows the stored nick,
\* but for an empty name or one over 31 characters, which it shows as the client
\* sent it.
THEOREM CuentaSiempreCompleta == Spec => CuentaCompleta
  <1>1. InvUnicas /\ InvTablas /\ NicksGuardados /\ [Next]_vars => [CuentaCompletaPaso]_vars
    <2> SUFFICES ASSUME InvUnicas, InvTablas, NicksGuardados, Next PROVE CuentaCompletaPaso
      OBVIOUS
    <2>1. TypeOK /\ IdsDados /\ EnCurso /\ Ranuras
      BY DEF InvUnicas, InvTablas
    <2> DEFINE Visto(p) == IF p.datos \in Nicks \cup {SinBloque} THEN p.nick ELSE p.datos
    <2> SUFFICES ASSUME NEW k \in Claves, NEW m \in red' \ red,
                        m.op = "CUENTA", m.id = conexiones[k].idConexion, bdViva,
                        Cardinality(Vivos(conexiones[k].cuenta.id)) <= 3,
                        Intacta(conexiones[k].cuenta.id)
                 PROVE  m.fichas = {[slot |-> p.slot, nick |-> Visto(p)] :
                                       p \in Vivos(conexiones[k].cuenta.id)}
      BY DEF CuentaCompletaPaso, Nuevos, Intacta
    <2>2. PICK j \in Claves : Atender(j)
      <3>1. ~ Entorno
        BY DEF Entorno, Tic, CaeBd, CambiarCuenta, BorrarPersonaje
      <3>2. \A j \in Claves : ~ Recibir(j)
        BY DEF Recibir, RecibirSyn, RecibirAck, RecibirFin, RecibirDatos
      <3> QED
        BY <3>1, <3>2 DEF Next
    <2>3. LoginAceptado(j)
      <3>1. ASSUME NEW guardado \in {SinCuenta, Guardado, Fallo}, CrearPersonaje(j, guardado)
            PROVE  FALSE
        <4>1. PICK x \in Mensaje : red' = red \cup {x} /\ x.op = "CHARCREATED"
          BY <2>1, <3>1, EfectoDeCrear
        <4> QED
          BY <4>1
      <3> QED
        BY <2>1, <2>2, <3>1, AtenderEscribe
    <2>4. PICK s \in cargarPersonajes(conexiones[j].cuenta.id) :
             m.id = conexiones[j].idConexion /\ m.fichas = Fichas(s)
      BY <2>1, <2>3, EfectoDeAceptar
    <2>5. j = k
      <3>1. Viva(j)
        BY <2>1, <2>2, AtenderContesta DEF EnCurso
      <3> QED
        BY <2>1, <2>4, <3>1 DEF IdsDados, Viva
    <2>6. conexiones[k].cuenta.id \in Nat
      BY <2>1 DEF TypeOK, Conexion, Cuenta
    <2>7. Fichas(s) = {[slot |-> p.slot, nick |-> Rotulo(p)] :
                          p \in Vivos(conexiones[k].cuenta.id)}
      BY <2>1, <2>4, <2>5, <2>6, FichasCompletas
    <2>8. \A p \in Vivos(conexiones[k].cuenta.id) : Rotulo(p) = Visto(p)
      BY <2>1, RotuloEsNick DEF TypeOK, Vivos, NicksGuardados
    <2> HIDE DEF Visto
    <2> QED
      BY <2>4, <2>5, <2>7, <2>8
  <1> QED
    BY UnicasInvariante, TablasInvariante, NicksGuardadosInvariante, <1>1, PTL
       DEF Spec, CuentaCompleta

-----------------------------------------------------------------------------
(* The ids of the messages.  What a connection sent takes the ids from     *)
(* IdInicial + 1 to its idMensajeTx; a message of t fragments takes t.     *)

LEMMA DivisionEntera ==
    ASSUME NEW t \in Nat \ {0}, NEW d \in Nat
    PROVE  \E q \in Nat : q * t <= d /\ d < q * t + t
  <1> DEFINE q == d \div t
  <1>1. q \in Nat /\ d = (q * t) + (d % t) /\ d % t \in 0 .. t - 1
    OBVIOUS
  <1> QED
    BY <1>1

LEMMA ProductoMonotono ==
    ASSUME NEW t \in Nat, NEW i \in Nat, NEW j \in Nat, i <= j
    PROVE  i * t <= j * t
  OBVIOUS

\* Each of the t * n ids falls in one of n groups of t.
LEMMA GrupoDe ==
    ASSUME NEW t \in Nat \ {0}, NEW n \in Nat, NEW x \in 1 .. t * n
    PROVE  \E i \in 1 .. n : x \in (i - 1) * t + 1 .. i * t
  <1>1. t * n \in Nat /\ x - 1 \in Nat /\ x <= t * n
    OBVIOUS
  <1>2. PICK q \in Nat : q * t <= x - 1 /\ x - 1 < q * t + t
    BY <1>1, DivisionEntera
  <1>3. q < n
    <2> SUFFICES ASSUME n <= q PROVE FALSE
      OBVIOUS
    <2>1. n * t <= q * t /\ n * t = t * n
      BY ProductoMonotono
    <2> QED
      BY <1>1, <1>2, <2>1
  <1> DEFINE i == q + 1
  <1>4. i \in 1 .. n /\ i - 1 = q
    BY <1>3
  <1>5. i * t = q * t + t /\ q * t \in Nat
    OBVIOUS
  <1>6. x \in (i - 1) * t + 1 .. i * t
    <2> HIDE DEF i
    <2> QED
      BY <1>1, <1>2, <1>4, <1>5
  <1> QED
    BY <1>4, <1>6

\* The ids of the messages of one answer: from the next one on, without
\* holes, and none twice.
LEMMA IdsDeNumerados ==
    ASSUME NEW c \in Conexion, NEW t \in Nat \ {0}, NEW ms \in Seq(Aplicacion)
    PROVE  /\ UNION {IdsDe(m) : m \in Numerados(c, t, ms)}
                 = c.idMensajeTx + 1 .. c.idMensajeTx + t * Len(ms)
           /\ \A m1, m2 \in Numerados(c, t, ms) :
                 m1 # m2 => IdsDe(m1) \cap IdsDe(m2) = {}
           /\ \A m \in Numerados(c, t, ms) : m.id = c.idConexion
  <1> DEFINE T == c.idMensajeTx
             n == Len(ms)
             M(i) == [id |-> c.idConexion, n |-> c.idMensajeTx + 1 + (i - 1) * t,
                      trozos |-> t, op |-> ms[i].op, codigo |-> ms[i].codigo,
                      fichas |-> ms[i].fichas]
             N == Numerados(c, t, ms)
  <1>1. T \in Nat /\ n \in Nat
    BY LenProperties DEF Conexion
  <1>2. N = {M(i) : i \in 1 .. n}
    BY DEF Numerados
  <1>3. ASSUME NEW i \in 1 .. n
        PROVE  /\ i * t \in Nat /\ (i - 1) * t \in Nat /\ (i - 1) * t + t = i * t
               /\ i * t <= t * n
    <2>1. i \in Nat /\ i - 1 \in Nat /\ i <= n
      BY <1>1
    <2>2. i * t \in Nat /\ (i - 1) * t \in Nat /\ (i - 1) * t + t = i * t
      BY <2>1
    <2>3. i * t <= n * t /\ n * t = t * n
      BY <1>1, <2>1, ProductoMonotono
    <2> QED
      BY <2>2, <2>3
  <1>4. ASSUME NEW i \in 1 .. n PROVE IdsDe(M(i)) = T + (i - 1) * t + 1 .. T + i * t
    <2>1. M(i).n = T + 1 + (i - 1) * t /\ M(i).trozos = t
      OBVIOUS
    <2> HIDE DEF M
    <2> QED
      BY <1>1, <1>3, <2>1 DEF IdsDe
  <1>5. \A m \in N : m.id = c.idConexion
    BY <1>2
  <1> HIDE DEF T, n, M, N
  <1>6. ASSUME NEW i \in 1 .. n, NEW j \in 1 .. n, i < j
        PROVE  IdsDe(M(i)) \cap IdsDe(M(j)) = {}
    <2>1. i \in Nat /\ j - 1 \in Nat /\ i <= j - 1
      BY <1>1, <1>6
    <2> DEFINE a == i * t
               b == (j - 1) * t
    <2>2. a <= b
      BY <2>1, ProductoMonotono
    <2>3. a \in Nat /\ b \in Nat /\ (i - 1) * t \in Nat /\ j * t \in Nat
      BY <1>3
    <2>4. IdsDe(M(i)) = T + (i - 1) * t + 1 .. T + a /\ IdsDe(M(j)) = T + b + 1 .. T + j * t
      BY <1>4
    <2> HIDE DEF a, b
    <2> QED
      BY <1>1, <2>2, <2>3, <2>4
  <1>7. ASSUME NEW m1 \in N, NEW m2 \in N, m1 # m2
        PROVE  IdsDe(m1) \cap IdsDe(m2) = {}
    <2>1. PICK i \in 1 .. n : m1 = M(i)
      BY <1>2
    <2>2. PICK j \in 1 .. n : m2 = M(j)
      BY <1>2
    <2>3. i < j \/ j < i
      BY <1>1, <1>7, <2>1, <2>2
    <2> QED
      BY <1>6, <2>1, <2>2, <2>3
  <1>8. ASSUME NEW m \in N, NEW x \in IdsDe(m) PROVE x \in T + 1 .. T + t * n
    <2>1. PICK i \in 1 .. n : m = M(i)
      BY <1>2
    <2>2. x \in T + (i - 1) * t + 1 .. T + i * t
      BY <1>4, <1>8, <2>1
    <2>3. t * n \in Nat
      BY <1>1
    <2> QED
      BY <1>1, <1>3, <2>2, <2>3
  <1>9. ASSUME NEW x \in T + 1 .. T + t * n PROVE \E m \in N : x \in IdsDe(m)
    <2>1. t * n \in Nat
      BY <1>1
    <2>2. x - T \in 1 .. t * n
      BY <1>1, <2>1
    <2>3. PICK i \in 1 .. n : x - T \in (i - 1) * t + 1 .. i * t
      BY <1>1, <2>2, GrupoDe
    <2>4. x \in IdsDe(M(i))
      BY <1>1, <1>3, <1>4, <2>3
    <2> QED
      BY <1>2, <2>4
  <1>10. UNION {IdsDe(m) : m \in N} = T + 1 .. T + t * n
    BY <1>8, <1>9
  <1> QED
    BY <1>5, <1>7, <1>10 DEF T, n, N

\* The ids taken under connection id i.
Tomados(i) == UNION {IdsDe(m) : m \in {x \in red : x.id = i}}

\* The second part of NumeracionContinua, with the order that it needs.
Continua(k) ==
    /\ IdInicial <= conexiones[k].idMensajeTx
    /\ Tomados(conexiones[k].idConexion) = IdInicial + 1 .. conexiones[k].idMensajeTx

SinSolape ==
    \A m1, m2 \in red : m1.id = m2.id /\ m1 # m2 => IdsDe(m1) \cap IdsDe(m2) = {}

Numeracion == SinSolape /\ \A k \in Claves : Viva(k) => Continua(k)

LEMMA NumeracionInit == Init => Numeracion
  BY DEF Init, Numeracion, SinSolape, SinConexion, Viva

\* A step that sends nothing: each connection that is alive after it kept its
\* id and its counter, or is new and sent nothing.
LEMMA NumeracionIgual ==
    ASSUME Numeracion, red' = red,
           \A k \in Claves : conexiones'[k].idConexion # 0 =>
              \/ /\ Viva(k) /\ conexiones'[k].idConexion = conexiones[k].idConexion
                 /\ conexiones'[k].idMensajeTx = conexiones[k].idMensajeTx
              \/ /\ \A m \in red : m.id # conexiones'[k].idConexion
                 /\ conexiones'[k].idMensajeTx = IdInicial
    PROVE  Numeracion'
  <1>0. IdInicial \in Nat
    BY LoginAssumption
  <1>1. SinSolape'
    BY DEF Numeracion, SinSolape
  <1>2. \A i : Tomados(i)' = Tomados(i)
    BY DEF Tomados
  <1>3. ASSUME NEW k \in Claves, conexiones'[k].idConexion # 0
        PROVE  /\ IdInicial <= conexiones'[k].idMensajeTx
               /\ Tomados(conexiones'[k].idConexion)
                     = IdInicial + 1 .. conexiones'[k].idMensajeTx
    <2>1. CASE /\ Viva(k) /\ conexiones'[k].idConexion = conexiones[k].idConexion
               /\ conexiones'[k].idMensajeTx = conexiones[k].idMensajeTx
      BY <2>1 DEF Numeracion, Continua
    <2>2. CASE /\ \A m \in red : m.id # conexiones'[k].idConexion
               /\ conexiones'[k].idMensajeTx = IdInicial
      <3>1. Tomados(conexiones'[k].idConexion) = {}
        BY <2>2 DEF Tomados
      <3>2. IdInicial <= IdInicial /\ IdInicial + 1 .. IdInicial = {}
        BY <1>0
      <3> QED
        BY <2>2, <3>1, <3>2
    <2> QED
      BY <1>3, <2>1, <2>2
  <1>4. ASSUME NEW k \in Claves, Viva(k)' PROVE Continua(k)'
    <2>1. conexiones'[k].idConexion # 0
      BY <1>4 DEF Viva
    <2>2. Tomados(conexiones[k].idConexion)' = Tomados(conexiones'[k].idConexion)
      BY DEF Tomados
    <2> QED
      BY <1>3, <2>1, <2>2 DEF Continua
  <1> QED
    BY <1>1, <1>4 DEF Numeracion

LEMMA NumeracionRecibir ==
    ASSUME InvUnicas, Numeracion, NEW k \in Claves, Recibir(k)
    PROVE  Numeracion'
  <1>1. TypeOK /\ IdsDados /\ red' = red
    BY DEF InvUnicas, Recibir, RecibirSyn, RecibirAck, RecibirFin, RecibirDatos
  <1>2. \A j \in Claves \ {k} : conexiones'[j] = conexiones[j]
    BY <1>1 DEF Recibir, RecibirSyn, RecibirAck, RecibirFin, RecibirDatos, TypeOK
  <1>3. CASE \E u \in Usuarios : RecibirSyn(k, u)
    <2>1. conexiones'[k].idConexion = siguienteId /\ conexiones'[k].idMensajeTx = IdInicial
      BY <1>1, <1>3 DEF RecibirSyn, SinConexion, TypeOK
    <2>2. \A m \in red : m.id # siguienteId
      BY <1>1 DEF IdsDados, TypeOK, Mensaje
    <2> QED
      BY <1>1, <1>2, <2>1, <2>2, NumeracionIgual DEF Viva
  <1>4. CASE RecibirFin(k)
    <2>1. conexiones'[k].idConexion = 0
      BY <1>1, <1>4 DEF RecibirFin, SinConexion, TypeOK
    <2> QED
      BY <1>1, <1>2, <2>1, NumeracionIgual DEF Viva
  <1>5. CASE RecibirAck(k) \/ \E d \in Datagramas : RecibirDatos(k, d)
    <2>1. /\ conexiones'[k].idConexion = conexiones[k].idConexion
          /\ conexiones'[k].idMensajeTx = conexiones[k].idMensajeTx
      <3>1. /\ Tocada(k).idConexion = conexiones[k].idConexion
            /\ Tocada(k).idMensajeTx = conexiones[k].idMensajeTx
            /\ Tocada(k) \in Conexion
        BY <1>1 DEF Tocada, TypeOK, Conexion
      <3>2. CASE RecibirAck(k)
        <4>1. conexiones'[k] = [Tocada(k) EXCEPT !.fase = "Establecida"]
          BY <1>1, <3>2 DEF RecibirAck, TypeOK
        <4> QED
          BY <3>1, <4>1 DEF Conexion
      <3>3. CASE \E d \in Datagramas : RecibirDatos(k, d)
        BY <1>1, <3>1, <3>3 DEF RecibirDatos, TypeOK
      <3> QED
        BY <1>5, <3>2, <3>3
    <2> QED
      BY <1>1, <1>2, <2>1, NumeracionIgual DEF Viva
  <1> QED
    BY <1>3, <1>4, <1>5 DEF Recibir

\* A record: its messages take the ids that follow those already taken.
LEMMA NumeracionAtender ==
    ASSUME InvUnicas, Numeracion, NEW k \in Claves, Atender(k)
    PROVE  Numeracion'
  <1>0. IdInicial \in Nat
    BY LoginAssumption
  <1>1. TypeOK /\ IdsDados /\ EnCurso
    BY DEF InvUnicas
  <1>2. pendientes[k] # <<>> /\ Contestacion(k)
    BY <1>1, AtenderContesta
  <1>3. PICK c \in Conexion, t \in Nat \ {0}, ms \in Seq(Aplicacion) : Contesta(k, c, t, ms)
    BY <1>2 DEF Contestacion
  <1> DEFINE id == conexiones[k].idConexion
             T == conexiones[k].idMensajeTx
             N == Numerados(c, t, ms)
             n == Len(ms)
  <1>4. Viva(k) /\ Continua(k)
    BY <1>1, <1>2 DEF EnCurso, Numeracion
  <1>5. c.idConexion = id /\ c.idMensajeTx = T /\ T \in Nat /\ n \in Nat /\ t * n \in Nat
    <2>1. n \in Nat
      BY LenProperties
    <2>2. t * n \in Nat
      BY <2>1
    <2> QED
      BY <1>1, <1>3, <2>1, <2>2 DEF Contesta, Sigue, TypeOK, Conexion
  <1>6. /\ red' = red \cup N
        /\ conexiones'[k].idConexion = id /\ conexiones'[k].idMensajeTx = T + t * n
        /\ \A j \in Claves \ {k} : conexiones'[j] = conexiones[j]
    <2>1. conexiones' = [conexiones EXCEPT
              ![k] = [c EXCEPT !.idMensajeTx = c.idMensajeTx + t * n]]
      BY <1>3 DEF Contesta, Responder
    <2>2. conexiones'[k] = [c EXCEPT !.idMensajeTx = c.idMensajeTx + t * n]
      BY <1>1, <2>1 DEF TypeOK
    <2>3. conexiones'[k].idConexion = id /\ conexiones'[k].idMensajeTx = T + t * n
      BY <1>5, <2>2 DEF Conexion
    <2> QED
      BY <1>1, <1>3, <2>1, <2>3 DEF Contesta, Responder, TypeOK
  <1>7. /\ UNION {IdsDe(m) : m \in N} = T + 1 .. T + t * n
        /\ \A m1, m2 \in N : m1 # m2 => IdsDe(m1) \cap IdsDe(m2) = {}
        /\ \A m \in N : m.id = id
    <2>1. /\ UNION {IdsDe(m) : m \in Numerados(c, t, ms)}
                = c.idMensajeTx + 1 .. c.idMensajeTx + t * Len(ms)
          /\ \A m1, m2 \in Numerados(c, t, ms) :
                m1 # m2 => IdsDe(m1) \cap IdsDe(m2) = {}
          /\ \A m \in Numerados(c, t, ms) : m.id = c.idConexion
      BY IdsDeNumerados
    <2> QED
      BY <1>5, <2>1
  <1>8. UNION {IdsDe(m) : m \in {x \in red : x.id = id}} = IdInicial + 1 .. T /\ IdInicial <= T
    BY <1>4 DEF Continua, Tomados
  <1> HIDE DEF id, N, n, T
  <1>9. ASSUME NEW m1 \in red, NEW m2 \in N, m1.id = m2.id
        PROVE  IdsDe(m1) \cap IdsDe(m2) = {}
    <2>1. IdsDe(m1) \subseteq IdInicial + 1 .. T
      BY <1>7, <1>8, <1>9
    <2>2. IdsDe(m2) \subseteq T + 1 .. T + t * n
      BY <1>7
    <2> QED
      BY <1>5, <2>1, <2>2, <1>0
  <1>10. SinSolape'
    <2> SUFFICES ASSUME NEW m1 \in red', NEW m2 \in red', m1.id = m2.id, m1 # m2
                 PROVE  IdsDe(m1) \cap IdsDe(m2) = {}
      BY DEF SinSolape
    <2>1. CASE m1 \in red /\ m2 \in red
      BY <2>1 DEF Numeracion, SinSolape
    <2>2. CASE m1 \in N /\ m2 \in N
      BY <1>7, <2>2
    <2>3. CASE m1 \in red /\ m2 \in N
      BY <1>9, <2>3
    <2>4. CASE m1 \in N /\ m2 \in red
      BY <1>9, <2>4
    <2> QED
      BY <1>6, <2>1, <2>2, <2>3, <2>4
  <1>11. Continua(k)'
    <2>1. {x \in red' : x.id = id} = {x \in red : x.id = id} \cup N
      BY <1>6, <1>7
    <2>2. UNION {IdsDe(m) : m \in {x \in red' : x.id = id}}
             = (IdInicial + 1 .. T) \cup (T + 1 .. T + t * n)
      BY <1>7, <1>8, <2>1
    <2>3. (IdInicial + 1 .. T) \cup (T + 1 .. T + t * n) = IdInicial + 1 .. T + t * n
      BY <1>0, <1>5, <1>8
    <2>4. IdInicial <= T + t * n
      BY <1>0, <1>5, <1>8
    <2>5. Tomados(conexiones[k].idConexion)'
             = UNION {IdsDe(m) : m \in {x \in red' : x.id = id}}
      BY <1>6 DEF Tomados
    <2> QED
      BY <1>6, <2>2, <2>3, <2>4, <2>5 DEF Continua
  <1>12. ASSUME NEW j \in Claves, j # k, Viva(j)' PROVE Continua(j)'
    <2>1. Viva(j) /\ Continua(j) /\ conexiones'[j] = conexiones[j]
      BY <1>6, <1>12 DEF Viva, Numeracion
    <2>2. conexiones[j].idConexion # id
      BY <1>1, <1>12, <2>1 DEF IdsDados, id
    <2>3. {x \in red' : x.id = conexiones[j].idConexion}
             = {x \in red : x.id = conexiones[j].idConexion}
      BY <1>6, <1>7, <2>2
    <2>4. Tomados(conexiones[j].idConexion)' = Tomados(conexiones[j].idConexion)
      BY <2>1, <2>3 DEF Tomados
    <2> QED
      BY <2>1, <2>4 DEF Continua
  <1> QED
    BY <1>10, <1>11, <1>12 DEF Numeracion

\* On every connection the ids of the messages, fragments included, are taken
\* once each and without holes, for any IdInicial, any number of messages in
\* an answer and any number of fragments in a message.
THEOREM NumeracionSiempreContinua == Spec => []NumeracionContinua
  <1>1. InvUnicas /\ Numeracion /\ [Next]_vars => Numeracion'
    <2> SUFFICES ASSUME InvUnicas, Numeracion, [Next]_vars PROVE Numeracion'
      OBVIOUS
    <2>1. CASE UNCHANGED vars \/ Entorno
      <3>1. red' = red /\ conexiones' = conexiones
        BY <2>1 DEF vars, Entorno, Tic, CaeBd, CambiarCuenta, BorrarPersonaje
      <3> QED
        BY <3>1, NumeracionIgual DEF Viva
    <2> QED
      BY <2>1, NumeracionRecibir, NumeracionAtender DEF Next
  <1>2. Numeracion => NumeracionContinua
    BY DEF Numeracion, SinSolape, Continua, Tomados, NumeracionContinua
  <1> QED
    BY NumeracionInit, UnicasInvariante, <1>1, <1>2, PTL DEF Spec

-----------------------------------------------------------------------------
(* One session per account.                                                *)

\* The clock never wraps around, and no connection was active in the future:
\* the subtraction of Caducada is exact.
Reloj ==
    /\ ahora < Palabra
    /\ \A k \in Claves : conexiones[k].ultimaActividad <= ahora

\* An account that was found has the id of a row.
Identificadas ==
    /\ \A u \in Usuarios : cuentas[u] \in FilasCuenta[u]
    /\ \A k \in Claves : conexiones[k].cuenta.encontrada => conexiones[k].cuenta.id # 0

Sesiones == Reloj /\ Identificadas /\ SesionUnica

\* A connection is expired when it was silent for CADUCIDAD_USO.
LEMMA CaducadaExacta ==
    ASSUME NEW a \in Nat, NEW u \in Nat, u <= a, a < Palabra
    PROVE  (a - u) % Palabra = a - u
  <1>1. Palabra \in Nat /\ 1 < Palabra
    BY LoginAssumption
  <1>2. ASSUME NEW d \in 0 .. Palabra - 1 PROVE d % Palabra = d
    BY <1>1, <1>2
  <1>3. a - u \in 0 .. Palabra - 1
    BY <1>1
  <1> QED
    BY <1>2, <1>3

\* An account is accepted only if it was found and nobody else uses it.
LEMMA AceptadaLibre ==
    ASSUME NEW k \in Claves, EstadoDe(k) = "Ok"
    PROVE  conexiones[k].cuenta.encontrada /\ ~ cuentaYaConectada(k)
  BY DEF EstadoDe, evaluarEstado

LEMMA SesionesInit == Init => Sesiones
  <1> SUFFICES ASSUME Init PROVE Sesiones
    OBVIOUS
  <1>1. Reloj
    <2>1. ahora = 1 /\ \A k \in Claves : conexiones[k].ultimaActividad = 0
      BY DEF Init, SinConexion
    <2>2. 1 < Palabra
      BY LoginAssumption
    <2> QED
      BY <2>1, <2>2 DEF Reloj
  <1>2. Identificadas
    BY DEF Init, Identificadas, SinConexion, CuentaVacia
  <1>3. SesionUnica
    BY DEF Init, SesionUnica, Autenticada
  <1> QED
    BY <1>1, <1>2, <1>3 DEF Sesiones

\* A step after which a connection is authenticated only if it was, with the
\* same account, and after which whoever fell silent still counts as such.
LEMMA SesionUnicaSigue ==
    ASSUME SesionUnica,
           \A k \in Claves : Autenticada(k)' =>
              /\ Autenticada(k) /\ conexiones'[k].cuenta.id = conexiones[k].cuenta.id
              /\ CalloDemasiado(k) => CalloDemasiado(k)'
    PROVE  SesionUnica'
  <1> SUFFICES ASSUME NEW j \in Claves, NEW k \in Claves, Ip[j] # Ip[k],
                      Autenticada(j)', Autenticada(k)',
                      conexiones'[j].cuenta.id = conexiones'[k].cuenta.id
               PROVE  CalloDemasiado(j)' \/ CalloDemasiado(k)'
    BY DEF SesionUnica
  <1>1. Autenticada(j) /\ Autenticada(k) /\ conexiones[j].cuenta.id = conexiones[k].cuenta.id
    OBVIOUS
  <1>2. CalloDemasiado(j) \/ CalloDemasiado(k)
    BY <1>1 DEF SesionUnica
  <1> QED
    BY <1>2

\* A reception authenticates nobody.  A datagram that breaks a long silence
\* hides it from Caducada, and AnotarSilencio keeps it.
LEMMA SesionesRecibir ==
    ASSUME InvUnicas, Sesiones, NEW k \in Claves, Recibir(k)
    PROVE  Sesiones'
  <1>1. TypeOK /\ IdsDados /\ Reloj /\ Identificadas /\ SesionUnica
    BY DEF InvUnicas, Sesiones
  <1>2. /\ red' = red /\ ahora' = ahora /\ cuentas' = cuentas /\ AnotarSilencio(k)
        /\ \A j \in Claves \ {k} : conexiones'[j] = conexiones[j]
    BY <1>1 DEF Recibir, RecibirSyn, RecibirAck, RecibirFin, RecibirDatos, TypeOK, bd
  <1>3. \/ /\ conexiones'[k].idConexion = siguienteId /\ conexiones'[k].ultimaActividad = ahora
           /\ conexiones'[k].cuenta.encontrada => conexiones'[k].cuenta.id # 0
        \/ conexiones'[k] = SinConexion
        \/ /\ conexiones'[k].idConexion = conexiones[k].idConexion
           /\ conexiones'[k].cuenta = conexiones[k].cuenta
           /\ conexiones'[k].ultimaActividad = IF Viva(k) THEN ahora
                                               ELSE conexiones[k].ultimaActividad
    <2>1. CASE \E u \in Usuarios : RecibirSyn(k, u)
      <3> PICK u \in Usuarios : RecibirSyn(k, u)
        BY <2>1
      <3>1. buscarCuenta(u).encontrada => buscarCuenta(u).id # 0
        BY <1>1, IdsDeCuentaAssumption DEF Identificadas, buscarCuenta, CuentaVacia
      <3>2. /\ conexiones'[k].idConexion = siguienteId
            /\ conexiones'[k].ultimaActividad = ahora
            /\ conexiones'[k].cuenta = buscarCuenta(u)
        BY <1>1 DEF RecibirSyn, SinConexion, TypeOK
      <3> QED
        BY <3>1, <3>2
    <2>2. CASE RecibirFin(k)
      BY <1>1, <2>2 DEF RecibirFin, TypeOK
    <2>3. CASE RecibirAck(k) \/ \E d \in Datagramas : RecibirDatos(k, d)
      BY <1>1, <2>3 DEF RecibirAck, RecibirDatos, Tocada, TypeOK, Conexion
    <2> QED
      BY <2>1, <2>2, <2>3 DEF Recibir
  <1>4. Reloj'
    <2>1. ahora \in Nat /\ ahora <= ahora
      BY <1>1 DEF TypeOK
    <2>2. conexiones'[k].ultimaActividad <= ahora
      BY <1>1, <1>3, <2>1 DEF Reloj, SinConexion
    <2> QED
      BY <1>1, <1>2, <2>2 DEF Reloj
  <1>5. Identificadas'
    BY <1>1, <1>2, <1>3 DEF Identificadas, SinConexion, CuentaVacia
  <1>6. ASSUME NEW j \in Claves, Autenticada(j)'
        PROVE  /\ Autenticada(j) /\ conexiones'[j].cuenta.id = conexiones[j].cuenta.id
               /\ CalloDemasiado(j) => CalloDemasiado(j)'
    <2>1. conexiones'[j].idConexion # 0
          /\ \E m \in red : m.id = conexiones'[j].idConexion /\ m.op = "CUENTA"
      BY <1>2, <1>6 DEF Autenticada, Viva
    <2>2. inactivas \subseteq inactivas'
      BY <1>2 DEF AnotarSilencio
    <2>3. CASE j # k
      BY <1>2, <2>1, <2>2, <2>3 DEF Autenticada, Viva, CalloDemasiado, Caducada
    <2>4. CASE j = k
      <3>1. conexiones'[k].idConexion # siguienteId
        BY <1>1, <2>1, <2>4 DEF IdsDados, TypeOK, Mensaje
      <3>2. conexiones'[k] # SinConexion
        BY <2>1, <2>4 DEF SinConexion
      <3>3. /\ conexiones'[k].idConexion = conexiones[k].idConexion
            /\ conexiones'[k].cuenta = conexiones[k].cuenta
        BY <1>3, <3>1, <3>2
      <3>4. Viva(k)
        BY <2>1, <2>4, <3>3 DEF Viva
      <3>5. CalloDemasiado(k) => conexiones[k].idConexion \in inactivas'
        BY <1>2, <2>2, <3>4 DEF CalloDemasiado, AnotarSilencio
      <3> QED
        BY <2>1, <2>4, <3>3, <3>4, <3>5 DEF Autenticada, CalloDemasiado
    <2> QED
      BY <2>3, <2>4
  <1>7. SesionUnica'
    BY <1>1, <1>6, SesionUnicaSigue
  <1> QED
    BY <1>4, <1>5, <1>7 DEF Sesiones

\* A record: only the LOGIN that cuentaYaConectada let through authenticates.
LEMMA SesionesAtender ==
    ASSUME InvUnicas, Sesiones, NEW k \in Claves, Atender(k)
    PROVE  Sesiones'
  <1>1. TypeOK /\ IdsDados /\ EnCurso /\ Anotadas /\ Reloj /\ Identificadas /\ SesionUnica
    BY DEF InvUnicas, Sesiones
  <1>2. pendientes[k] # <<>> /\ Contestacion(k)
    BY <1>1, AtenderContesta
  <1>3. PICK c \in Conexion, t \in Nat \ {0}, ms \in Seq(Aplicacion) : Contesta(k, c, t, ms)
    BY <1>2 DEF Contestacion
  <1>4. /\ ahora' = ahora /\ cuentas' = cuentas /\ inactivas' = inactivas
        /\ \A j \in Claves : /\ conexiones'[j].idConexion = conexiones[j].idConexion
                             /\ conexiones'[j].cuenta = conexiones[j].cuenta
                             /\ conexiones'[j].ultimaActividad = conexiones[j].ultimaActividad
    <2>1. conexiones' = [conexiones EXCEPT
              ![k] = [c EXCEPT !.idMensajeTx = c.idMensajeTx + t * Len(ms)]]
      BY <1>3 DEF Contesta, Responder
    <2>2. /\ c.idConexion = conexiones[k].idConexion /\ c.cuenta = conexiones[k].cuenta
          /\ c.ultimaActividad = conexiones[k].ultimaActividad
      BY <1>3 DEF Contesta, Sigue
    <2>3. conexiones'[k] = [c EXCEPT !.idMensajeTx = c.idMensajeTx + t * Len(ms)]
      BY <1>1, <2>1 DEF TypeOK
    <2>4. /\ conexiones'[k].idConexion = c.idConexion /\ conexiones'[k].cuenta = c.cuenta
          /\ conexiones'[k].ultimaActividad = c.ultimaActividad
      BY <2>3 DEF Conexion
    <2>5. \A j \in Claves \ {k} : conexiones'[j] = conexiones[j]
      BY <1>1, <2>1 DEF TypeOK
    <2> QED
      BY <1>3, <2>2, <2>4, <2>5 DEF Contesta, Responder
  <1>5. Reloj' /\ Identificadas'
    BY <1>1, <1>4 DEF Reloj, Identificadas
  <1>6. \A j \in Claves : CalloDemasiado(j)' = CalloDemasiado(j) /\ Viva(j)' = Viva(j)
    BY <1>4 DEF CalloDemasiado, Caducada, Viva
  <1>7. CASE \A m \in red' \ red : m.op # "CUENTA"
    <2>1. \A j \in Claves : Autenticada(j)' => Autenticada(j)
      BY <1>4, <1>6, <1>7 DEF Autenticada
    <2>2. SesionUnica'
      BY <1>1, <1>4, <1>6, <2>1, SesionUnicaSigue
    <2> QED
      BY <1>5, <2>2 DEF Sesiones
  <1>8. CASE LoginAceptado(k)
    <2>1. Viva(k) /\ conexiones[k].cuenta.id # 0 /\ ~ cuentaYaConectada(k)
      BY <1>1, <1>2, <1>8, AceptadaLibre DEF LoginAceptado, EnCurso, Identificadas
    <2>2. ASSUME NEW j \in Claves, j # k, Autenticada(j)' PROVE Autenticada(j)
      <3>1. PICK m \in red' : m.id = conexiones[j].idConexion /\ m.op = "CUENTA"
        BY <1>4, <2>2 DEF Autenticada
      <3>2. Viva(j)
        BY <1>6, <2>2 DEF Autenticada
      <3>3. conexiones[j].idConexion # conexiones[k].idConexion
        BY <1>1, <2>1, <2>2 DEF IdsDados
      <3>4. m \in red
        BY <1>1, <1>8, <3>1, <3>3, EfectoDeAceptar
      <3> QED
        BY <3>1, <3>2, <3>4 DEF Autenticada
    <2>3. ASSUME NEW j \in Claves, Ip[j] # Ip[k], Autenticada(j)',
                 conexiones[j].cuenta.id = conexiones[k].cuenta.id
          PROVE  CalloDemasiado(j)
      <3>1. j # k /\ Autenticada(j)
        BY <2>2, <2>3
      <3>2. Viva(j) /\ conexiones[j].enviadoLogin
        <4>1. PICK m \in red : m.id = conexiones[j].idConexion /\ m.op = "CUENTA"
          BY <3>1 DEF Autenticada
        <4>2. Clase(m) = "veredicto"
          BY <4>1 DEF Clase
        <4>3. Bandera(conexiones[j], "veredicto")
          BY <1>1, <4>1, <4>2 DEF Anotadas
        <4> QED
          BY <3>1, <4>3 DEF Bandera, Autenticada
      <3>3. Caducada(conexiones[j])
        BY <2>1, <2>3, <3>1, <3>2 DEF cuentaYaConectada
      <3> QED
        BY <3>3 DEF CalloDemasiado
    <2>4. SesionUnica'
      <3> SUFFICES ASSUME NEW i \in Claves, NEW j \in Claves, Ip[i] # Ip[j],
                          Autenticada(i)', Autenticada(j)',
                          conexiones[i].cuenta.id = conexiones[j].cuenta.id
                   PROVE  CalloDemasiado(i) \/ CalloDemasiado(j)
        BY <1>4, <1>6 DEF SesionUnica
      <3>1. CASE j = k
        BY <2>3, <3>1
      <3>2. CASE i = k
        BY <2>3, <3>2
      <3>3. CASE i # k /\ j # k
        BY <1>1, <2>2, <3>3 DEF SesionUnica
      <3> QED
        BY <3>1, <3>2, <3>3
    <2> QED
      BY <1>5, <2>4 DEF Sesiones
  <1>9. ASSUME NEW guardado \in {SinCuenta, Guardado, Fallo}, CrearPersonaje(k, guardado)
        PROVE  \A m \in red' \ red : m.op # "CUENTA"
    <2>1. PICK x \in Mensaje : red' = red \cup {x} /\ x.op = "CHARCREATED"
      BY <1>1, <1>9, EfectoDeCrear
    <2> QED
      BY <2>1
  <1> QED
    BY <1>1, <1>7, <1>8, <1>9, AtenderEscribe

\* The passing of time only adds silence; the tables do not matter here.
LEMMA SesionesEntorno ==
    ASSUME InvUnicas, Sesiones, Entorno \/ UNCHANGED vars
    PROVE  Sesiones'
  <1>1. TypeOK /\ Reloj /\ Identificadas /\ SesionUnica
    BY DEF InvUnicas, Sesiones
  <1>2. UNCHANGED <<conexiones, red, inactivas>>
    BY DEF Entorno, Tic, CaeBd, CambiarCuenta, BorrarPersonaje, vars
  <1>3. \A k \in Claves : Autenticada(k)' = Autenticada(k)
    BY <1>2 DEF Autenticada, Viva
  <1>4. CASE Tic
    <2>1. ahora \in Nat /\ ahora' = ahora + 1 /\ ahora' < Palabra /\ cuentas' = cuentas
      <3>1. MaxReloj \in Nat /\ Palabra \in Nat /\ MaxReloj < Palabra
        BY LoginAssumption
      <3>2. ahora \in Nat /\ ahora < MaxReloj /\ ahora' = ahora + 1 /\ cuentas' = cuentas
        BY <1>1, <1>4 DEF Tic, TypeOK, bd
      <3> QED
        BY <3>1, <3>2
    <2>2. Identificadas'
      BY <1>1, <1>2, <2>1 DEF Identificadas
    <2>3. ASSUME NEW k \in Claves
          PROVE  /\ conexiones[k].ultimaActividad <= ahora + 1
                 /\ CalloDemasiado(k) => CalloDemasiado(k)'
      <3> DEFINE u == conexiones[k].ultimaActividad
      <3>1. u \in Nat /\ u <= ahora /\ ahora < Palabra
        BY <1>1 DEF TypeOK, Conexion, Reloj
      <3>2. (ahora - u) % Palabra = ahora - u /\ ((ahora + 1) - u) % Palabra = (ahora + 1) - u
        <4>1. ahora + 1 \in Nat /\ u <= ahora + 1 /\ ahora + 1 < Palabra
          BY <2>1, <3>1
        <4> HIDE DEF u
        <4>2. (ahora - u) % Palabra = ahora - u
          BY <2>1, <3>1, CaducadaExacta
        <4>3. ((ahora + 1) - u) % Palabra = (ahora + 1) - u
          BY <3>1, <4>1, CaducadaExacta
        <4> QED
          BY <4>2, <4>3
      <3>3. CaducidadUso \in Nat
        BY LoginAssumption
      <3>4. (ahora - u) % Palabra >= CaducidadUso
               => (ahora' - u) % Palabra >= CaducidadUso
        BY <2>1, <3>1, <3>2, <3>3
      <3>5. u <= ahora + 1
        BY <2>1, <3>1
      <3> QED
        BY <1>2, <3>4, <3>5 DEF CalloDemasiado, Caducada
    <2>4. Reloj'
      BY <1>2, <2>1, <2>3 DEF Reloj
    <2>5. SesionUnica'
      BY <1>1, <1>2, <1>3, <2>3, SesionUnicaSigue
    <2> QED
      BY <2>2, <2>4, <2>5 DEF Sesiones
  <1>5. CASE ahora' = ahora
    <2>1. Reloj'
      BY <1>1, <1>2, <1>5 DEF Reloj
    <2>2. Identificadas'
      <3>1. \A u \in Usuarios : cuentas'[u] \in FilasCuenta[u]
        BY <1>1 DEF Identificadas, TypeOK, Entorno, Tic, CaeBd, CambiarCuenta,
                    BorrarPersonaje, vars, bd
      <3> QED
        BY <1>1, <1>2, <3>1 DEF Identificadas
    <2>3. \A k \in Claves : CalloDemasiado(k)' = CalloDemasiado(k)
      BY <1>2, <1>5 DEF CalloDemasiado, Caducada
    <2>4. SesionUnica'
      BY <1>1, <1>2, <1>3, <2>3, SesionUnicaSigue
    <2> QED
      BY <2>1, <2>2, <2>4 DEF Sesiones
  <1>6. Tic \/ ahora' = ahora
    BY DEF Entorno, CaeBd, CambiarCuenta, BorrarPersonaje, vars
  <1> QED
    BY <1>4, <1>5, <1>6

\* For any number of endpoints, addresses and accounts, and any CADUCIDAD_USO:
\* two addresses hold authenticated sessions of one account only if one of
\* them was silent for CADUCIDAD_USO.
THEOREM UnaSesionPorCuenta == Spec => []SesionUnica
  <1>1. InvUnicas /\ Sesiones /\ [Next]_vars => Sesiones'
    BY SesionesEntorno, SesionesRecibir, SesionesAtender DEF Next
  <1>2. Sesiones => SesionUnica
    BY DEF Sesiones
  <1> QED
    BY SesionesInit, UnicasInvariante, <1>1, <1>2, PTL DEF Spec

-----------------------------------------------------------------------------
(* The service.  The simulation of a step rests on what the flag           *)
(* enviadoLogin stands for: a verdict sent on that very connection.        *)

Veredicto(id) == \E m \in red : m.id = id /\ Clase(m) = "veredicto"

\* enviadoLogin goes up with the verdict, good or bad.
Juzgadas ==
    \A k \in Claves :
        conexiones[k].enviadoLogin => Veredicto(conexiones[k].idConexion)

InvServicio == InvUnicas /\ Juzgadas

-----------------------------------------------------------------------------
\* What Responder leaves in the connection and in the network.
LEMMA EfectoDeResponder ==
    ASSUME TypeOK, NEW k \in Claves, NEW c \in Conexion, NEW t \in Nat,
           NEW ms, Responder(k, c, t, ms)
    PROVE  /\ conexiones'[k].enviadoLogin = c.enviadoLogin
           /\ \A m \in red' \ red : \E i \in 1 .. Len(ms) :
                 m.op = ms[i].op /\ m.codigo = ms[i].codigo
           /\ \A i \in 1 .. Len(ms) : \E m \in red' :
                 m.id = c.idConexion /\ m.op = ms[i].op /\ m.codigo = ms[i].codigo
  <1>1. conexiones' = [conexiones EXCEPT
            ![k] = [c EXCEPT !.idMensajeTx = c.idMensajeTx + t * Len(ms)]]
        /\ red' = red \cup Numerados(c, t, ms)
    BY DEF Responder
  <1>2. conexiones'[k].enviadoLogin = c.enviadoLogin
    BY <1>1 DEF TypeOK, Conexion
  <1>3. ASSUME NEW m \in red' \ red
        PROVE  \E i \in 1 .. Len(ms) : m.op = ms[i].op /\ m.codigo = ms[i].codigo
    <2>1. m \in Numerados(c, t, ms)
      BY <1>1
    <2>2. PICK i \in 1 .. Len(ms) :
             m = [id |-> c.idConexion, n |-> c.idMensajeTx + 1 + (i - 1) * t,
                  trozos |-> t, op |-> ms[i].op, codigo |-> ms[i].codigo,
                  fichas |-> ms[i].fichas]
      BY <2>1, Zenon DEF Numerados
    <2>3. m.op = ms[i].op /\ m.codigo = ms[i].codigo
      BY <2>2
    <2> QED
      BY <2>3
  <1>4. ASSUME NEW i \in 1 .. Len(ms)
        PROVE  \E m \in red' :
                  m.id = c.idConexion /\ m.op = ms[i].op /\ m.codigo = ms[i].codigo
    <2> DEFINE m == [id |-> c.idConexion, n |-> c.idMensajeTx + 1 + (i - 1) * t,
                     trozos |-> t, op |-> ms[i].op, codigo |-> ms[i].codigo,
                     fichas |-> ms[i].fichas]
    <2>1. m \in Numerados(c, t, ms)
      BY DEF Numerados
    <2>2. m \in red' /\ m.id = c.idConexion /\ m.op = ms[i].op /\ m.codigo = ms[i].codigo
      BY <1>1, <2>1
    <2> QED
      BY <2>2
  <1> QED
    BY <1>2, <1>3, <1>4

\* An acceptance goes out only on a connection that had its LOGIN judged, and
\* enviadoLogin goes up only together with a verdict.
LEMMA AtenderJuzga ==
    ASSUME TypeOK, NEW k \in Claves, Atender(k)
    PROVE  /\ \A m \in red' \ red :
                 Clase(m) = "aceptacion" => conexiones[k].enviadoLogin
           /\ conexiones'[k].enviadoLogin =>
                 \/ conexiones[k].enviadoLogin
                 \/ \E m \in red' :
                       m.id = conexiones[k].idConexion /\ Clase(m) = "veredicto"
  <1> DEFINE con == conexiones[k]
             Meta == /\ \A m \in red' \ red :
                           Clase(m) = "aceptacion" => con.enviadoLogin
                     /\ conexiones'[k].enviadoLogin =>
                           \/ con.enviadoLogin
                           \/ \E m \in red' :
                                 m.id = con.idConexion /\ Clase(m) = "veredicto"
  <1>1. con \in Conexion
    BY DEF TypeOK
  <1>2. \A m : Clase(m) = "aceptacion" => m.op = "LOGINACCEPTED"
    BY DEF Clase
  <1>3. ASSUME NEW ms, NEW t \in Nat, Responder(k, con, t, ms),
               \A i \in 1 .. Len(ms) : ms[i].op # "LOGINACCEPTED"
        PROVE  Meta
    <2>1. conexiones'[k].enviadoLogin = con.enviadoLogin
      BY <1>1, <1>3, EfectoDeResponder
    <2>2. ASSUME NEW m \in red' \ red
          PROVE  Clase(m) # "aceptacion"
      <3>1. PICK i \in 1 .. Len(ms) : m.op = ms[i].op
        BY <1>1, <1>3, EfectoDeResponder
      <3> QED
        BY <1>2, <1>3, <3>1
    <2> QED
      BY <2>1, <2>2
  <1>4. ASSUME NEW c \in Conexion, c.idConexion = con.idConexion, NEW t \in Nat,
               NEW ms, Responder(k, c, t, ms), Len(ms) = 1,
               ms[1].op \in {"CUENTA", "LOGINRECHAZADO"}
        PROVE  Meta
    <2>1. /\ \A x \in red' \ red : \E i \in 1 .. Len(ms) : x.op = ms[i].op
          /\ \A i \in 1 .. Len(ms) : \E x \in red' : x.id = c.idConexion /\ x.op = ms[i].op
      BY <1>4, EfectoDeResponder
    <2>2. /\ \A x \in red' \ red : x.op # "LOGINACCEPTED"
          /\ \E x \in red' : x.id = con.idConexion /\ x.op \in {"CUENTA", "LOGINRECHAZADO"}
      BY <1>4, <2>1
    <2> QED
      BY <1>2, <2>2 DEF Clase
  <1>5. ASSUME NEW c \in Conexion, NEW ms, NEW t \in Nat, Responder(k, c, t, ms),
               con.enviadoLogin
        PROVE  Meta
    BY <1>5
  <1>6. CASE LoginAceptado(k)
    <2> DEFINE c == [con EXCEPT !.enviadoLogin = TRUE]
    <2>1. c \in Conexion /\ c.idConexion = con.idConexion
      BY <1>1 DEF Conexion
    <2>2. PICK f : Responder(k, c, TrozosCuenta, <<AppFichas("CUENTA", 0, f)>>)
      BY <1>6 DEF LoginAceptado
    <2> DEFINE ms == <<AppFichas("CUENTA", 0, f)>>
    <2>3. Len(ms) = 1 /\ ms[1].op = "CUENTA"
      BY DEF AppFichas
    <2>4. TrozosCuenta \in Nat
      BY DEF TrozosCuenta, numFrag
    <2> HIDE DEF c, ms
    <2> QED
      BY <1>4, <2>1, <2>2, <2>3, <2>4 DEF ms
  <1>7. CASE LoginRechazado(k)
    <2> DEFINE c == [con EXCEPT !.enviadoLogin = TRUE]
               ms == <<App("LOGINRECHAZADO", estadoARechazo(EstadoDe(k)))>>
    <2>1. c \in Conexion /\ c.idConexion = con.idConexion
      BY <1>1 DEF Conexion
    <2>2. Responder(k, c, 1, ms) /\ Len(ms) = 1 /\ ms[1].op = "LOGINRECHAZADO"
      BY <1>7 DEF LoginRechazado, App
    <2> HIDE DEF c, ms
    <2> QED
      BY <1>4, <2>1, <2>2
  <1>8. CASE NickRepetido(k)
    BY <1>3, <1>8 DEF NickRepetido, App
  <1>9. CASE \E guardado \in {SinCuenta, Guardado, Fallo} : CrearPersonaje(k, guardado)
    <2>1. PICK guardado, f : Responder(k, con, TrozosCreado,
                                <<AppFichas("CHARCREATED", guardado, f)>>)
      BY <1>9 DEF CrearPersonaje
    <2> QED
      BY <1>3, <2>1 DEF AppFichas, TrozosCreado, numFrag
  <1>10. CASE Latido(k) \/ Seleccionar(k)
    BY <1>10 DEF Latido, Seleccionar, Toma, Rama
  <1>11. CASE PideServidores(k)
    BY <1>3, <1>11 DEF PideServidores, App
  <1>12. CASE Jugar(k)
    <2> DEFINE c == [con EXCEPT !.enviadoEntrar = TRUE]
               ms == <<App("ENTERINGGAMEACCEPTED", Actual(k).pj)>>
    <2>1. c \in Conexion /\ c.enviadoLogin = con.enviadoLogin
      BY <1>1 DEF Conexion
    <2>2. Responder(k, c, 1, ms) /\ \A i \in 1 .. Len(ms) : ms[i].op # "LOGINACCEPTED"
      BY <1>12 DEF Jugar, App
    <2> HIDE DEF c, ms
    <2> QED
      BY <1>2, <2>1, <2>2, EfectoDeResponder
  <1>13. CASE Saltar(k)
    BY <1>3, <1>13 DEF Saltar
  <1> QED
    BY <1>6, <1>7, <1>8, <1>9, <1>10, <1>11, <1>12, <1>13 DEF Atender

-----------------------------------------------------------------------------
(* The strengthened invariant.                                             *)

LEMMA ServicioInit == Init => InvServicio
  <1> SUFFICES ASSUME Init PROVE InvServicio
    OBVIOUS
  <1>1. \A k \in Claves : ~ conexiones[k].enviadoLogin
    BY DEF Init, SinConexion
  <1> QED
    BY <1>1, UnicasInit DEF InvServicio, Juzgadas

LEMMA ServicioRecibir ==
    ASSUME InvServicio, NEW k \in Claves, Recibir(k)
    PROVE  InvServicio'
  <1>1. InvUnicas'
    BY UnicasRecibir DEF InvServicio
  <1>2. conexiones \in [Claves -> Conexion]
    BY DEF InvServicio, InvUnicas, TypeOK
  <1>3. /\ red' = red
        /\ \E c : /\ conexiones' = [conexiones EXCEPT ![k] = c]
                  /\ c.enviadoLogin => /\ conexiones[k].enviadoLogin
                                       /\ c.idConexion = conexiones[k].idConexion
    <2>1. CASE \E u \in Usuarios : RecibirSyn(k, u)
      <3> PICK u \in Usuarios : RecibirSyn(k, u)
        BY <2>1
      <3> DEFINE c == [SinConexion EXCEPT !.idConexion = siguienteId,
                           !.fase = "SynRespondido", !.cuenta = buscarCuenta(u),
                           !.ultimaActividad = ahora, !.idMensajeTx = IdInicial]
      <3>1. ~ c.enviadoLogin
        BY DEF SinConexion
      <3>2. red' = red /\ conexiones' = [conexiones EXCEPT ![k] = c]
        BY DEF RecibirSyn
      <3> QED
        BY <3>1, <3>2
    <2>2. CASE RecibirFin(k)
      <3>1. ~ SinConexion.enviadoLogin
        BY DEF SinConexion
      <3>2. red' = red /\ conexiones' = [conexiones EXCEPT ![k] = SinConexion]
        BY <2>2 DEF RecibirFin
      <3> QED
        BY <3>1, <3>2
    <2>3. CASE RecibirAck(k)
      <3> DEFINE c == [Tocada(k) EXCEPT !.fase = "Establecida"]
      <3>1. /\ c.enviadoLogin = conexiones[k].enviadoLogin
            /\ c.idConexion = conexiones[k].idConexion
        BY <1>2 DEF Tocada, Conexion
      <3>2. red' = red /\ conexiones' = [conexiones EXCEPT ![k] = c]
        BY <2>3 DEF RecibirAck
      <3> QED
        BY <3>1, <3>2
    <2>4. CASE \E d \in Datagramas : RecibirDatos(k, d)
      <3> DEFINE c == Tocada(k)
      <3>1. /\ c.enviadoLogin = conexiones[k].enviadoLogin
            /\ c.idConexion = conexiones[k].idConexion
        BY <1>2 DEF Tocada, Conexion
      <3>2. red' = red /\ conexiones' = [conexiones EXCEPT ![k] = c]
        BY <2>4 DEF RecibirDatos
      <3> QED
        BY <3>1, <3>2
    <2> QED
      BY <2>1, <2>2, <2>3, <2>4 DEF Recibir
  <1>4. ASSUME NEW j \in Claves, conexiones'[j].enviadoLogin
        PROVE  \E m \in red' : m.id = conexiones'[j].idConexion /\ Clase(m) = "veredicto"
    <2>1. conexiones[j].enviadoLogin /\ conexiones'[j].idConexion = conexiones[j].idConexion
      <3> PICK c : /\ conexiones' = [conexiones EXCEPT ![k] = c]
                   /\ c.enviadoLogin => /\ conexiones[k].enviadoLogin
                                        /\ c.idConexion = conexiones[k].idConexion
        BY <1>3
      <3>1. CASE j = k
        BY <1>2, <1>4, <3>1
      <3>2. CASE j # k
        BY <1>2, <1>4, <3>2
      <3> QED
        BY <3>1, <3>2
    <2> QED
      BY <1>3, <2>1 DEF InvServicio, Juzgadas, Veredicto
  <1> QED
    BY <1>1, <1>4 DEF InvServicio, Juzgadas, Veredicto

LEMMA ServicioAtender ==
    ASSUME InvServicio, NEW k \in Claves, Atender(k)
    PROVE  InvServicio'
  <1>1. InvUnicas' /\ TypeOK
    BY UnicasAtender DEF InvServicio, InvUnicas
  <1>2. PICK c \in Conexion, t \in Nat \ {0}, ms \in Seq(Aplicacion) : Contesta(k, c, t, ms)
    BY <1>1, AtenderContesta DEF Contestacion
  <1>3. /\ conexiones'[k].idConexion = conexiones[k].idConexion
        /\ red \subseteq red'
        /\ \A j \in Claves \ {k} : conexiones'[j] = conexiones[j]
    BY <1>1, <1>2 DEF Contesta, Responder, Sigue, TypeOK, Conexion
  <1>4. ASSUME NEW j \in Claves, conexiones'[j].enviadoLogin
        PROVE  \E m \in red' : m.id = conexiones'[j].idConexion /\ Clase(m) = "veredicto"
    BY <1>1, <1>3, <1>4, AtenderJuzga DEF InvServicio, Juzgadas, Veredicto
  <1> QED
    BY <1>1, <1>4 DEF InvServicio, Juzgadas, Veredicto

LEMMA ServicioPaso == InvServicio /\ [Next]_vars => InvServicio'
  <1> SUFFICES ASSUME InvServicio, [Next]_vars PROVE InvServicio'
    OBVIOUS
  <1>1. CASE UNCHANGED vars
    BY <1>1 DEF vars, InvServicio, InvUnicas, TypeOK, IdsDados, EnCurso, Anotadas,
                RespuestasUnicas, Viva, Juzgadas, Veredicto
  <1>2. CASE Entorno
    <2>1. UNCHANGED <<conexiones, red>>
      BY <1>2 DEF Entorno, Tic, CaeBd, CambiarCuenta, BorrarPersonaje
    <2> QED
      BY <1>2, <2>1, UnicasEntorno DEF InvServicio, Juzgadas, Veredicto
  <1> QED
    BY <1>1, <1>2, ServicioRecibir, ServicioAtender DEF Next

-----------------------------------------------------------------------------
(* The simulation.                                                         *)

LEMMA SimulaInit == Init => Servicio!Init
  BY DEF Init, Servicio!Init, SinConexion, Dadas, ConClase

\* SYN opens, FIN closes; the rest of the transport does nothing to see.
LEMMA SimulaRecibir ==
    ASSUME InvServicio, NEW k \in Claves, Recibir(k)
    PROVE  [Servicio!Next]_Servicio!vars
  <1>1. /\ conexiones \in [Claves -> Conexion] /\ siguienteId \in Nat \ {0}
        /\ conexiones' \in [Claves -> Conexion]
    BY UnicasRecibir DEF InvServicio, InvUnicas, TypeOK
  <1>2. red' = red /\ UNCHANGED Dadas
    BY DEF Recibir, RecibirSyn, RecibirAck, RecibirFin, RecibirDatos, Dadas, ConClase
  <1>3. CASE \E u \in Usuarios : RecibirSyn(k, u)
    <2>1. /\ siguienteId' = siguienteId + 1
          /\ conexiones'[k].idConexion = siguienteId
          /\ \A j \in Claves \ {k} : conexiones'[j] = conexiones[j]
      BY <1>1, <1>3 DEF RecibirSyn, SinConexion
    <2>3. siguienteId' - 1 = (siguienteId - 1) + 1 /\ siguienteId' - 1 = siguienteId
      BY <1>1, <2>1
    <2>2. [j \in Claves |-> conexiones'[j].idConexion] =
            [[j \in Claves |-> conexiones[j].idConexion] EXCEPT ![k] = siguienteId' - 1]
      BY <2>1, <2>3
    <2>4. Servicio!Abrir(k)
      BY <1>2, <2>2, <2>3 DEF Servicio!Abrir
    <2> QED
      BY <2>4 DEF Servicio!Next
  <1>4. CASE RecibirFin(k)
    <2>1. /\ siguienteId' = siguienteId /\ conexiones'[k].idConexion = 0
          /\ \A j \in Claves \ {k} : conexiones'[j] = conexiones[j]
      BY <1>1, <1>4 DEF RecibirFin, SinConexion
    <2>2. [j \in Claves |-> conexiones'[j].idConexion] =
            [[j \in Claves |-> conexiones[j].idConexion] EXCEPT ![k] = 0]
      BY <1>1, <2>1
    <2>3. Servicio!Cerrar(k)
      BY <1>2, <2>1, <2>2 DEF Servicio!Cerrar
    <2> QED
      BY <2>3 DEF Servicio!Next
  <1>5. CASE RecibirAck(k) \/ \E d \in Datagramas : RecibirDatos(k, d)
    <2>1. /\ siguienteId' = siguienteId
          /\ \A j \in Claves : conexiones'[j].idConexion = conexiones[j].idConexion
      <3>1. siguienteId' = siguienteId
        BY <1>5 DEF RecibirAck, RecibirDatos
      <3>2. \E c : conexiones' = [conexiones EXCEPT ![k] = c]
                   /\ c.idConexion = conexiones[k].idConexion
        <4>1. CASE RecibirAck(k)
          <5> DEFINE c == [Tocada(k) EXCEPT !.fase = "Establecida"]
          <5>1. c.idConexion = conexiones[k].idConexion
            BY <1>1 DEF Tocada, Conexion
          <5>2. conexiones' = [conexiones EXCEPT ![k] = c]
            BY <4>1 DEF RecibirAck
          <5> QED
            BY <5>1, <5>2
        <4>2. CASE \E d \in Datagramas : RecibirDatos(k, d)
          BY <1>1, <4>2 DEF RecibirDatos, Tocada, Conexion
        <4> QED
          BY <1>5, <4>1, <4>2
      <3> QED
        BY <1>1, <3>1, <3>2
    <2> QED
      BY <1>1, <1>2, <2>1 DEF Servicio!vars
  <1> QED
    BY <1>3, <1>4, <1>5 DEF Recibir

\* A record answers what the session had not been answered.
LEMMA SimulaAtender ==
    ASSUME InvServicio, NEW k \in Claves, Atender(k)
    PROVE  [Servicio!Next]_Servicio!vars
  <1> DEFINE id == conexiones[k].idConexion
             D(m) == [sesion |-> m.id, n |-> m.n, clase |-> Clase(m)]
  <1>1. TypeOK /\ IdsDados /\ EnCurso /\ Anotadas /\ Juzgadas
        /\ RespuestasUnicas' /\ TypeOK'
    BY UnicasAtender DEF InvServicio, InvUnicas
  <1>2. PICK c \in Conexion, t \in Nat \ {0}, ms \in Seq(Aplicacion) : Contesta(k, c, t, ms)
    BY <1>1, AtenderContesta DEF Contestacion
  <1>3. /\ red' = red \cup Numerados(c, t, ms) /\ siguienteId' = siguienteId
        /\ \A j \in Claves : conexiones'[j].idConexion = conexiones[j].idConexion
        /\ id # 0
    BY <1>1, <1>2, AtenderContesta
       DEF Contesta, Responder, Sigue, TypeOK, Conexion, EnCurso, Viva
  <1>4. \A m \in Numerados(c, t, ms) : m.id = id
        /\ (Clase(m) # "otra" => ~ Bandera(conexiones[k], Clase(m)))
    BY <1>2 DEF Numerados, Contesta, Sigue, ConBandera, Clase
  <1>5. Dadas \subseteq Dadas'
    BY <1>3 DEF Dadas, ConClase
  <1>6. ASSUME NEW d \in Dadas' \ Dadas
        PROVE  \E m \in red' \ red : d = D(m) /\ Clase(m) # "otra" /\ m \in Numerados(c, t, ms)
    BY <1>3 DEF Dadas, ConClase
  <1>7. ASSUME NEW d \in Dadas' \ Dadas
        PROVE  /\ d.sesion = id
               /\ \A x \in Dadas : ~ (x.sesion = id /\ x.clase = d.clase)
               /\ d.clase = "aceptacion" =>
                     \E x \in Dadas : x.sesion = id /\ x.clase = "veredicto"
               /\ \A e \in Dadas' \ Dadas : e.clase = d.clase => e = d
    <2>1. PICK m \in red' \ red :
              d = D(m) /\ Clase(m) # "otra" /\ m \in Numerados(c, t, ms)
      BY <1>6
    <2>2. d.sesion = id /\ d.clase = Clase(m)
      BY <1>4, <2>1
    <2>3. ASSUME NEW x \in Dadas, x.sesion = id, x.clase = d.clase PROVE FALSE
      <3>1. PICK y \in red : x = D(y)
        BY <2>3 DEF Dadas, ConClase
      <3>2. Bandera(conexiones[k], Clase(m))
        BY <1>1, <2>2, <2>3, <3>1 DEF Anotadas
      <3> QED
        BY <1>4, <2>1, <3>2
    <2>4. ASSUME d.clase = "aceptacion"
          PROVE  \E x \in Dadas : x.sesion = id /\ x.clase = "veredicto"
      <3>1. conexiones[k].enviadoLogin
        BY <1>1, <2>1, <2>2, <2>4, AtenderJuzga
      <3>2. PICK y \in red : y.id = id /\ Clase(y) = "veredicto"
        BY <1>1, <3>1 DEF Juzgadas, Veredicto
      <3>3. D(y) \in Dadas
        BY <3>2 DEF Dadas, ConClase
      <3> QED
        BY <3>2, <3>3
    <2>5. ASSUME NEW e \in Dadas' \ Dadas, e.clase = d.clase PROVE e = d
      <3>1. PICK y \in red' \ red :
                e = D(y) /\ Clase(y) # "otra" /\ y \in Numerados(c, t, ms)
        BY <1>6
      <3>2. y.id = m.id /\ Clase(y) = Clase(m)
        BY <1>4, <2>1, <2>2, <2>5, <3>1
      <3>3. y = m
        BY <1>1, <2>1, <3>1, <3>2 DEF RespuestasUnicas
      <3> QED
        BY <2>1, <3>1, <3>3
    <2> QED
      BY <2>2, <2>3, <2>4, <2>5
  <1>8. Servicio!Contestar(k)
    <2>1. UNCHANGED <<[j \in Claves |-> conexiones[j].idConexion], siguienteId - 1>>
      BY <1>3
    <2>2. [j \in Claves |-> conexiones[j].idConexion][k] = id
      OBVIOUS
    <2> HIDE DEF id, D
    <2> QED
      BY <1>3, <1>5, <1>7, <2>1, <2>2 DEF Servicio!Contestar, Servicio!Dada
  <1> QED
    BY <1>8 DEF Servicio!Next

\* For any number of endpoints, accounts and records, and whatever order the
\* datagrams come in, the login server does nothing that ServicioLogin does
\* not allow: sessions are never reused, and a session hears one verdict, one
\* acceptance after it and one entry.
THEOREM ServidorImplementaServicio == Spec => ImplementaServicio
  <1>1. InvServicio /\ [Next]_vars => [Servicio!Next]_Servicio!vars
    <2> SUFFICES ASSUME InvServicio, [Next]_vars
                 PROVE  [Servicio!Next]_Servicio!vars
      OBVIOUS
    <2>1. CASE UNCHANGED vars
      BY <2>1 DEF vars, Servicio!vars, Dadas, ConClase
    <2>2. CASE Entorno
      <3>1. UNCHANGED <<conexiones, red, siguienteId>>
        BY <2>2 DEF Entorno, Tic, CaeBd, CambiarCuenta, BorrarPersonaje
      <3> QED
        BY <3>1 DEF Servicio!vars, Dadas, ConClase
    <2> QED
      BY <2>1, <2>2, SimulaRecibir, SimulaAtender DEF Next
  <1> QED
    BY ServicioInit, ServicioPaso, SimulaInit, <1>1, PTL
       DEF Spec, ImplementaServicio, Servicio!Spec
==============================================================================
