------------------------ MODULE ServidorLogin_proofs -------------------------
(***************************************************************************)
(* What holds of the login server and of its tables for every value of the *)
(* constants: type correctness, what each handler may send, and how the    *)
(* characters stored agree with what was announced of them.                *)
(*                                                                         *)
(* The message of a creation and the row it announces are written in one   *)
(* step, but rows are marked as deleted later and messages stay: InvTablas *)
(* relates every message of `red` to a row, whatever became of the row.    *)
(***************************************************************************)
EXTENDS ServidorLogin, SequenceTheorems, FiniteSetTheorems, TLAPS

\* An application message before it has ids.
Aplicacion == [op : OpServidor, codigo : Nat, fichas : SUBSET Ficha]

-----------------------------------------------------------------------------
(* Lemmas about the operators.                                             *)

\* The head of the records in hand is a record, the rest are records.
LEMMA RegistroActual ==
    ASSUME NEW k \in Claves, pendientes \in [Claves -> Seq(Registro)],
           pendientes[k] # <<>>
    PROVE  /\ Actual(k) \in Registro
           /\ Tail(pendientes[k]) \in Seq(Registro)
  BY HeadTailProperties DEF Actual

\* CuentaVacia is an account, SinConexion a connection.
LEMMA TiposVacios == CuentaVacia \in Cuenta /\ SinConexion \in Conexion
  BY HashesAssumption DEF CuentaVacia, Cuenta, SinConexion, Conexion, Fase

\* A message without characters is an application message.
LEMMA TipoApp ==
    ASSUME NEW op \in OpServidor, NEW codigo \in Nat
    PROVE  App(op, codigo) \in Aplicacion
  BY DEF App, Aplicacion

\* Messages numbered on a connection are messages.
LEMMA TipoNumerados ==
    ASSUME NEW c \in Conexion, NEW t \in Nat, NEW ms \in Seq(Aplicacion)
    PROVE  Numerados(c, t, ms) \subseteq Mensaje
  <1> SUFFICES ASSUME NEW i \in 1 .. Len(ms)
               PROVE  [id |-> c.idConexion, n |-> c.idMensajeTx + 1 + (i - 1) * t,
                       trozos |-> t, op |-> ms[i].op, codigo |-> ms[i].codigo,
                       fichas |-> ms[i].fichas] \in Mensaje
    BY DEF Numerados
  <1>1. ms[i] \in Aplicacion
    BY ElementOfSeq
  <1>2. i - 1 \in Nat
    BY LenProperties
  <1>3. (i - 1) * t \in Nat
    BY <1>2
  <1>4. c.idConexion \in Nat /\ c.idMensajeTx + 1 + (i - 1) * t \in Nat
    BY <1>3 DEF Conexion
  <1> QED
    BY <1>1, <1>4 DEF Aplicacion, Mensaje

\* The end of a handler keeps the types.
LEMMA TipoResponder ==
    ASSUME TypeOK, NEW k \in Claves, pendientes[k] # <<>>,
           NEW c \in Conexion, NEW t \in Nat, NEW ms \in Seq(Aplicacion),
           Responder(k, c, t, ms),
           personajes' \in SUBSET Personaje, IsFiniteSet(personajes')
    PROVE  TypeOK'
  <1>1. Len(ms) \in Nat /\ c.idMensajeTx + t * Len(ms) \in Nat
    <2>1. Len(ms) \in Nat
      BY LenProperties
    <2>2. t * Len(ms) \in Nat
      BY <2>1
    <2> QED
      BY <2>1, <2>2 DEF Conexion
  <1>2. conexiones' \in [Claves -> Conexion]
    BY <1>1 DEF TypeOK, Responder, Conexion
  <1>3. pendientes' \in [Claves -> Seq(Registro)]
    BY RegistroActual DEF TypeOK, Responder
  <1>4. red' \in SUBSET Mensaje
    BY TipoNumerados DEF TypeOK, Responder
  <1> QED
    BY <1>2, <1>3, <1>4 DEF TypeOK, Responder

\* The characters of an account are finitely many.
LEMMA TipoContar ==
    ASSUME TypeOK, NEW i \in Nat
    PROVE  /\ Vivos(i) \subseteq personajes /\ IsFiniteSet(Vivos(i))
           /\ contarPersonajes(i) \in Nat
           /\ contarReclusos(i) \in Nat
  <1>1. Vivos(i) \subseteq personajes
    BY DEF Vivos
  <1>2. IsFiniteSet(Vivos(i)) /\ Cardinality(Vivos(i)) \in Nat
    BY <1>1, FS_Subset, FS_CardinalityType DEF TypeOK
  <1>3. DEFINE R == {p \in personajes : p.servidor = i /\ ~ p.deleted}
  <1>4. IsFiniteSet(R) /\ Cardinality(R) \in Nat
    BY FS_Subset, FS_CardinalityType DEF TypeOK
  <1> QED
    BY <1>1, <1>2, <1>4 DEF contarPersonajes, contarReclusos

\* Parts of the assumption on the constants.
LEMMA NicksSonNombres == Nicks \subseteq Nombres \cup {""}
  BY LoginAssumption

LEMMA FilasSonCuentas == FilasCuenta \in [Usuarios -> SUBSET Cuenta]
  BY LoginAssumption

\* The card of CHARCREATED is well formed.
LEMMA TipoTarjeta ==
    ASSUME NEW i \in Nat, NEW n \in Nicks
    PROVE  [slot |-> i % 256, nick |-> n] \in Ficha
  <1>1. i % 256 \in Nat
    OBVIOUS
  <1>2. n \in Nombres \cup {""}
    BY NicksSonNombres
  <1> QED
    BY <1>1, <1>2 DEF Ficha

\* A card shows the nick, or a name that a client sent.
LEMMA TipoRotulo ==
    ASSUME NEW p \in Personaje
    PROVE  Rotulo(p) \in Nombres \cup {""} /\ Ranura(p) \in Nat
  BY NicksSonNombres DEF Personaje, Rotulo, Bloques, Ranura

\* What CUENTA shows of the characters read is well formed.
LEMMA TipoFichas ==
    ASSUME TypeOK, NEW i \in Nat, NEW s \in cargarPersonajes(i)
    PROVE  Fichas(s) \in SUBSET Ficha
  <1> DEFINE S == IF bdViva THEN Vivos(i) ELSE {}
             n == Cardinality(S)
  <1>1. S \subseteq Personaje /\ n \in Nat
    BY TipoContar, FS_EmptySet, FS_CardinalityType DEF TypeOK
  <1>2. s \in [1 .. n -> S]
    BY DEF cargarPersonajes
  <1>3. s \in Seq(Personaje)
    BY <1>1, <1>2
  <1>4. \A h \in 1 .. Len(s) : s[h] \in Personaje
    BY <1>3, ElementOfSeq
  <1>5. \A h \in 1 .. Len(s) :
           [slot |-> Ranura(s[h]), nick |-> Rotulo(s[h])] \in Ficha
    BY <1>4, TipoRotulo DEF Ficha
  <1>6. Len(s) \in Nat
    BY <1>3
  <1> QED
    BY <1>5, <1>6 DEF Fichas

\* What CREAR_PERSONAJE stores keeps `personajes` a finite set of characters.
LEMMA TipoInsertar ==
    ASSUME TypeOK, NEW p \in Personaje
    PROVE  personajes \cup {p} \in SUBSET Personaje /\ IsFiniteSet(personajes \cup {p})
  BY FS_AddElement DEF TypeOK

\* The codes of LOGINREJECTED are numbers.
LEMMA TipoRechazo == \A e : estadoARechazo(e) \in Nat
  BY DEF estadoARechazo

-----------------------------------------------------------------------------
(* What every handler does.                                                *)

\* The flag of Conexion that stands for the answers of class x.
Bandera(c, x) ==
    CASE x = "veredicto"  -> c.enviadoLogin
      [] x = "aceptacion" -> c.enviadoAceptar
      [] x = "entrada"    -> c.enviadoEntrar
      [] OTHER            -> TRUE

\* An answer that a flag governs is sent only with the flag down, once, and
\* leaves it up.
ConBandera(antes, c, ms) ==
    \A i \in 1 .. Len(ms) :
        Clase(ms[i]) # "otra" =>
            /\ ~ Bandera(antes, Clase(ms[i])) /\ Bandera(c, Clase(ms[i]))
            /\ \A j \in 1 .. Len(ms) : Clase(ms[j]) = Clase(ms[i]) => j = i

\* Connection c comes after `antes` in the same session: no flag goes down.
Sigue(antes, c) ==
    /\ c.idConexion = antes.idConexion /\ c.idMensajeTx = antes.idMensajeTx
    /\ c.cuenta = antes.cuenta /\ c.ultimaActividad = antes.ultimaActividad
    /\ antes.enviadoLogin => c.enviadoLogin
    /\ antes.enviadoAceptar => c.enviadoAceptar
    /\ antes.enviadoEntrar => c.enviadoEntrar

Contesta(k, c, t, ms) ==
    /\ Responder(k, c, t, ms)
    /\ Sigue(conexiones[k], c)
    /\ ConBandera(conexiones[k], c, ms)

Contestacion(k) ==
    \E c \in Conexion, t \in Nat \ {0}, ms \in Seq(Aplicacion) : Contesta(k, c, t, ms)

\* No message of ms, but perhaps the first, is governed by a flag.
SoloPrimera(ms) == Len(ms) > 0 /\ \A i \in 2 .. Len(ms) : Clase(ms[i]) = "otra"

\* Appending a message that no flag governs, or nothing.
LEMMA SoloPrimeraConcat ==
    ASSUME NEW ms \in Seq(Aplicacion), SoloPrimera(ms),
           NEW r \in Seq(Aplicacion), \A i \in 1 .. Len(r) : Clase(r[i]) = "otra"
    PROVE  /\ ms \o r \in Seq(Aplicacion) /\ SoloPrimera(ms \o r)
           /\ (ms \o r)[1] = ms[1]
  <1> DEFINE q == ms \o r
  <1>1. /\ q \in Seq(Aplicacion) /\ Len(q) = Len(ms) + Len(r)
        /\ \A i \in 1 .. Len(q) : q[i] = IF i <= Len(ms) THEN ms[i] ELSE r[i - Len(ms)]
    BY ConcatProperties
  <1>2. Len(ms) \in Nat /\ Len(r) \in Nat /\ Len(ms) > 0
    BY LenProperties DEF SoloPrimera
  <1> HIDE DEF q
  <1>3. q[1] = ms[1] /\ Len(q) > 0
    BY <1>1, <1>2
  <1>4. ASSUME NEW i \in 2 .. Len(q) PROVE Clase(q[i]) = "otra"
    <2>1. CASE i <= Len(ms)
      BY <1>1, <1>2, <2>1 DEF SoloPrimera
    <2>2. CASE i > Len(ms)
      BY <1>1, <1>2, <2>2
    <2> QED
      BY <1>1, <1>2, <2>1, <2>2
  <1> QED
    BY <1>1, <1>3, <1>4 DEF SoloPrimera, q

\* The messages of a concatenation.
LEMMA ConcatIndices ==
    ASSUME NEW p \in Seq(Aplicacion), NEW q \in Seq(Aplicacion)
    PROVE  /\ \A i \in 1 .. Len(p) : (p \o q)[i] = p[i]
           /\ \A i \in 1 .. Len(q) : (p \o q)[Len(p) + i] = q[i]
  <1>1. \A i \in 1 .. Len(p) + Len(q) :
            (p \o q)[i] = IF i <= Len(p) THEN p[i] ELSE q[i - Len(p)]
    BY ConcatProperties
  <1>2. Len(p) \in Nat /\ Len(q) \in Nat
    BY LenProperties
  <1>3. ASSUME NEW i \in 1 .. Len(p) PROVE (p \o q)[i] = p[i]
    BY <1>1, <1>2
  <1>4. ASSUME NEW i \in 1 .. Len(q) PROVE (p \o q)[Len(p) + i] = q[i]
    <2>1. Len(p) + i \in 1 .. Len(p) + Len(q) /\ ~ (Len(p) + i <= Len(p))
          /\ Len(p) + i - Len(p) = i
      BY <1>2
    <2> QED
      BY <1>1, <2>1
  <1> QED
    BY <1>3, <1>4

\* One governed message at the head of ms, its flag down before and up after.
LEMMA ConBanderaPrimera ==
    ASSUME NEW antes, NEW c, NEW ms \in Seq(Aplicacion), SoloPrimera(ms),
           ~ Bandera(antes, Clase(ms[1])), Bandera(c, Clase(ms[1]))
    PROVE  ConBandera(antes, c, ms)
  <1>1. \A i \in 1 .. Len(ms) : Clase(ms[i]) # "otra" => i = 1
    BY LenProperties DEF SoloPrimera
  <1> QED
    BY <1>1 DEF ConBandera

\* What each branch of procesarDatos knows of the connection and the record.
LEMMA GuardaDeRama ==
    ASSUME NEW c, NEW r
    PROVE  /\ Rama(c, r) = "LOGIN" => r.op = "LOGIN" /\ ~ c.enviadoLogin
           /\ Rama(c, r) = "CREAR_PERSONAJE" => r.op = "CREAR_PERSONAJE"
           /\ Rama(c, r) = "LATIDO" => ~ c.enviadoAceptar
           /\ Rama(c, r) = "JUGAR" => r.op = "JUGAR" /\ ~ c.enviadoEntrar
           /\ Rama(c, r) = "SELECCIONAR" => ~ c.enviadoEntrar
  BY DEF Rama

-----------------------------------------------------------------------------
(* Type correctness.                                                       *)

LEMMA TipoInit == Init => TypeOK
  <1> SUFFICES ASSUME Init PROVE TypeOK
    OBVIOUS
  <1>1. cuentas \in [Usuarios -> Cuenta]
    BY LoginAssumption DEF Init
  <1>2. conexiones \in [Claves -> Conexion]
    BY TiposVacios DEF Init
  <1>3. pendientes \in [Claves -> Seq(Registro)]
    BY DEF Init
  <1>4. IsFiniteSet(personajes)
    BY FS_EmptySet DEF Init
  <1>5. bdViva \in BOOLEAN
    BY DEF Init
  <1> QED
    BY <1>1, <1>2, <1>3, <1>4, <1>5 DEF Init, TypeOK

\* A reception: only the connection of the endpoint, the records in hand, the
\* next id and the history change.
LEMMA TipoRecibir ==
    ASSUME TypeOK, NEW k \in Claves, Recibir(k)
    PROVE  TypeOK'
  <1>1. inactivas' \in SUBSET Nat
    <2>1. AnotarSilencio(k)
      BY DEF Recibir, RecibirSyn, RecibirAck, RecibirFin, RecibirDatos
    <2> QED
      BY <2>1 DEF AnotarSilencio, TypeOK, Conexion
  <1>2. Tocada(k) \in Conexion
    BY DEF Tocada, TypeOK, Conexion
  <1>3. CASE \E u \in Usuarios : RecibirSyn(k, u)
    <2> PICK u \in Usuarios : RecibirSyn(k, u)
      BY <1>3
    <2> DEFINE c == [SinConexion EXCEPT !.idConexion = siguienteId,
                              !.fase = "SynRespondido",
                              !.cuenta = buscarCuenta(u),
                              !.ultimaActividad = ahora,
                              !.idMensajeTx = IdInicial]
    <2>1. buscarCuenta(u) \in Cuenta
      BY TiposVacios DEF buscarCuenta, TypeOK
    <2>2. c \in Conexion
      BY <2>1, LoginAssumption DEF SinConexion, Conexion, Fase, TypeOK
    <2>3. conexiones' \in [Claves -> Conexion]
      BY <2>2 DEF RecibirSyn, TypeOK
    <2>4. siguienteId' \in Nat \ {0}
      BY DEF RecibirSyn, TypeOK
    <2> QED
      BY <1>1, <2>3, <2>4 DEF RecibirSyn, TypeOK, bd
  <1>4. CASE RecibirAck(k)
    <2>1. [Tocada(k) EXCEPT !.fase = "Establecida"] \in Conexion
      BY <1>2 DEF Conexion, Fase
    <2>2. conexiones' \in [Claves -> Conexion]
      BY <1>4, <2>1 DEF RecibirAck, TypeOK
    <2> QED
      BY <1>1, <1>4, <2>2 DEF RecibirAck, TypeOK, bd
  <1>5. CASE RecibirFin(k)
    <2>1. conexiones' \in [Claves -> Conexion]
      BY <1>5, TiposVacios DEF RecibirFin, TypeOK
    <2> QED
      BY <1>1, <1>5, <2>1 DEF RecibirFin, TypeOK, bd
  <1>6. CASE \E d \in Datagramas : RecibirDatos(k, d)
    <2> PICK d \in Datagramas : RecibirDatos(k, d)
      BY <1>6
    <2>1. conexiones' \in [Claves -> Conexion]
      BY <1>2 DEF RecibirDatos, TypeOK
    <2> DEFINE ds == IF Viva(k) /\ k \notin ClavesNulas THEN d ELSE <<>>
    <2>2. pendientes' \in [Claves -> Seq(Registro)]
      <3>1. ds \in Seq(Registro)
        <4>1. d \in Seq(Registro)
          BY LoginAssumption, Zenon
        <4>2. <<>> \in Seq(Registro)
          OBVIOUS
        <4> QED
          BY <4>1, <4>2, Zenon
      <3>2. pendientes' = [pendientes EXCEPT ![k] = ds]
        BY DEF RecibirDatos
      <3> HIDE DEF ds
      <3> QED
        BY <3>1, <3>2 DEF TypeOK
    <2> QED
      BY <1>1, <2>1, <2>2 DEF RecibirDatos, TypeOK, bd
  <1> QED
    BY <1>3, <1>4, <1>5, <1>6 DEF Recibir

\* The creation block of a new character and its nick.
LEMMA NickPedidoTipo ==
    ASSUME TypeOK, NEW k \in Claves, Toma(k, "CREAR_PERSONAJE")
    PROVE  NickPedido(k) \in Nicks /\ Actual(k).datos \in Bloques
  <1>1. Actual(k) \in Registro /\ Actual(k).op = "CREAR_PERSONAJE"
    BY RegistroActual, GuardaDeRama DEF Toma, Actual, TypeOK
  <1>2. Actual(k).datos \in Bloques
    BY <1>1 DEF Registro
  <1>3. "Recluso" \in Nicks /\ Corto \in [Nombres -> Nicks]
    BY LoginAssumption
  <1> QED
    BY <1>2, <1>3 DEF NickPedido, NickDe, Bloques

\* The characters after a record.
LEMMA TipoPersonajes ==
    ASSUME TypeOK, NEW k \in Claves, Atender(k)
    PROVE  personajes' \in SUBSET Personaje /\ IsFiniteSet(personajes')
  <1>1. personajes \in SUBSET Personaje /\ IsFiniteSet(personajes)
    BY DEF TypeOK
  <1>2. ASSUME NEW guardado \in {SinCuenta, Guardado, Fallo}, CrearPersonaje(k, guardado)
        PROVE  personajes' \in SUBSET Personaje /\ IsFiniteSet(personajes')
    <2> DEFINE idCuenta == conexiones[k].cuenta.id
               slot == IF idCuenta # 0 THEN contarPersonajes(idCuenta) ELSE 0
               nuevo == [cuenta |-> idCuenta, slot |-> slot, nick |-> NickPedido(k),
                         servidor |-> 1, deleted |-> FALSE, datos |-> Actual(k).datos]
    <2>1. idCuenta \in Nat
      BY DEF TypeOK, Conexion, Cuenta
    <2>2. slot \in Nat
      BY <2>1, TipoContar
    <2>3. NickPedido(k) \in Nicks /\ Actual(k).datos \in Bloques
      BY <1>2, NickPedidoTipo DEF CrearPersonaje
    <2>4. nuevo \in Personaje
      BY <2>1, <2>2, <2>3 DEF Personaje
    <2>5. personajes' = IF guardado = Guardado THEN personajes \cup {nuevo} ELSE personajes
      BY <1>2 DEF CrearPersonaje
    <2> QED
      BY <1>1, <2>4, <2>5, TipoInsertar
  <1> QED
    BY <1>1, <1>2 DEF Atender, LoginAceptado, LoginRechazado, NickRepetido, Latido,
                      PideServidores, Jugar, Seleccionar, Saltar

\* A handler that changes no flag and sends nothing that a flag governs.
LEMMA ContestaSinBandera ==
    ASSUME TypeOK, NEW k \in Claves, NEW t \in Nat \ {0}, NEW ms \in Seq(Aplicacion),
           Responder(k, conexiones[k], t, ms),
           \A i \in 1 .. Len(ms) : Clase(ms[i]) = "otra"
    PROVE  Contestacion(k)
  <1>1. conexiones[k] \in Conexion
    BY DEF TypeOK
  <1> QED
    BY <1>1 DEF Contestacion, Contesta, Sigue, ConBandera

\* Every handler keeps the session of its connection and answers with what
\* the flags allow.
LEMMA AtenderContesta ==
    ASSUME TypeOK, NEW k \in Claves, Atender(k)
    PROVE  pendientes[k] # <<>> /\ Contestacion(k)
  <1> DEFINE c == conexiones[k]
  <1>1. pendientes[k] # <<>>
    BY DEF Atender, LoginAceptado, LoginRechazado, NickRepetido, CrearPersonaje,
           Latido, PideServidores, Jugar, Seleccionar, Saltar, Toma
  <1>2. c \in Conexion /\ c.cuenta.id \in Nat
    BY DEF TypeOK, Conexion, Cuenta
  <1>3. ASSUME LoginAceptado(k) PROVE Contestacion(k)
    <2> DEFINE c1 == [c EXCEPT !.enviadoLogin = TRUE]
               ms(s) == <<AppFichas("CUENTA", 0, Fichas(s))>>
    <2>1. PICK s \in cargarPersonajes(c.cuenta.id) : Responder(k, c1, TrozosCuenta, ms(s))
      BY <1>3 DEF LoginAceptado
    <2>2. AppFichas("CUENTA", 0, Fichas(s)) \in Aplicacion
      <3>1. Fichas(s) \in SUBSET Ficha
        BY <1>2, TipoFichas
      <3> QED
        BY <3>1 DEF AppFichas, Aplicacion, OpServidor
    <2>3. c1 \in Conexion /\ Sigue(c, c1)
      BY <1>2 DEF Conexion, Sigue
    <2>4. TrozosCuenta \in Nat \ {0}
      BY DEF TrozosCuenta, numFrag
    <2>5. ms(s) \in Seq(Aplicacion) /\ SoloPrimera(ms(s))
      BY <2>2 DEF SoloPrimera
    <2>6. ~ Bandera(c, Clase(ms(s)[1])) /\ Bandera(c1, Clase(ms(s)[1]))
      <3>1. Clase(ms(s)[1]) = "veredicto"
        BY DEF Clase, AppFichas
      <3>2. ~ c.enviadoLogin /\ c1.enviadoLogin
        BY <1>2, <1>3, GuardaDeRama DEF LoginAceptado, Toma, Conexion
      <3> QED
        BY <3>1, <3>2 DEF Bandera
    <2> HIDE DEF c1, ms
    <2>7. ConBandera(c, c1, ms(s))
      BY <2>5, <2>6, ConBanderaPrimera
    <2> QED
      BY <2>1, <2>3, <2>4, <2>5, <2>7 DEF Contestacion, Contesta
  <1>4. ASSUME LoginRechazado(k) PROVE Contestacion(k)
    <2> DEFINE c1 == [c EXCEPT !.enviadoLogin = TRUE]
               m == App("LOGINRECHAZADO", estadoARechazo(EstadoDe(k)))
               ms == <<m>>
    <2>1. Responder(k, c1, 1, ms)
      BY <1>4 DEF LoginRechazado
    <2>2. m \in Aplicacion
      BY TipoRechazo, TipoApp DEF OpServidor
    <2>3. c1 \in Conexion /\ Sigue(c, c1)
      BY <1>2 DEF Conexion, Sigue
    <2>4. Clase(m) = "veredicto"
      BY DEF Clase, App
    <2>5. ~ c.enviadoLogin /\ c1.enviadoLogin
      BY <1>2, <1>4, GuardaDeRama DEF LoginRechazado, Toma, Conexion
    <2> HIDE DEF c1, m
    <2>6. ms \in Seq(Aplicacion) /\ SoloPrimera(ms) /\ ms[1] = m
      BY <2>2 DEF SoloPrimera
    <2> HIDE DEF ms
    <2>7. ConBandera(c, c1, ms)
      BY <2>4, <2>5, <2>6, ConBanderaPrimera DEF Bandera
    <2> QED
      BY <2>1, <2>3, <2>6, <2>7 DEF Contestacion, Contesta
  <1>5. 1 \in Nat \ {0}
    OBVIOUS
  <1>6. ASSUME NickRepetido(k) PROVE Contestacion(k)
    <2> DEFINE m == App("CHARERROR", 0)
    <2>1. m \in Aplicacion /\ Clase(m) = "otra"
      BY TipoApp DEF OpServidor, App, Clase
    <2> DEFINE ms == <<m>>
    <2>2. Responder(k, c, 1, ms)
      BY <1>6 DEF NickRepetido
    <2> HIDE DEF m
    <2>3. ms \in Seq(Aplicacion) /\ \A i \in 1 .. Len(ms) : Clase(ms[i]) = "otra"
      BY <2>1
    <2> HIDE DEF ms
    <2> QED
      BY <1>5, <2>2, <2>3, ContestaSinBandera
  <1>7. ASSUME NEW guardado \in {SinCuenta, Guardado, Fallo}, CrearPersonaje(k, guardado)
        PROVE  Contestacion(k)
    <2> DEFINE idCuenta == c.cuenta.id
               slot == IF idCuenta # 0 THEN contarPersonajes(idCuenta) ELSE 0
               ficha == [slot |-> slot % 256, nick |-> NickPedido(k)]
               m == AppFichas("CHARCREATED", guardado, {ficha})
    <2>1. slot \in Nat
      BY <1>2, TipoContar
    <2>2. NickPedido(k) \in Nicks
      BY <1>7, NickPedidoTipo DEF CrearPersonaje
    <2>3. m \in Aplicacion
      <3>1. ficha \in Ficha
        BY <2>1, <2>2, TipoTarjeta
      <3> QED
        BY <3>1 DEF AppFichas, Aplicacion, OpServidor, SinCuenta, Guardado, Fallo
    <2>4. Clase(m) = "otra"
      BY DEF Clase, AppFichas
    <2> DEFINE ms == <<m>>
    <2>5. Responder(k, c, TrozosCreado, ms)
      BY <1>7 DEF CrearPersonaje
    <2>6. TrozosCreado \in Nat \ {0}
      BY DEF TrozosCreado, numFrag
    <2> HIDE DEF m
    <2>7. ms \in Seq(Aplicacion) /\ \A i \in 1 .. Len(ms) : Clase(ms[i]) = "otra"
      BY <2>3, <2>4
    <2> HIDE DEF ms
    <2> QED
      BY <2>5, <2>6, <2>7, ContestaSinBandera
  <1>8. ASSUME Latido(k) PROVE Contestacion(k)
    <2> DEFINE c1 == [c EXCEPT !.enviadoAceptar = TRUE]
               a0 == App("LOGINACCEPTED", 0)
               m1 == <<a0>>
               m2 == IF ListaRica THEN <<App("LOGINACCEPTED", 1)>> ELSE <<>>
               m3 == IF ClassInfo /\ bdViva THEN <<App("CLASSINFO", 0)>> ELSE <<>>
               s == App("SERVERADDED", listarServidores)
               m4 == <<s>>
    <2>1. Responder(k, c1, 1, m1 \o m2 \o m3 \o m4)
      BY <1>8 DEF Latido
    <2>2. a0 \in Aplicacion /\ Clase(a0) = "aceptacion"
      BY TipoApp DEF OpServidor, App, Clase
    <2>3. m2 \in Seq(Aplicacion) /\ \A i \in 1 .. Len(m2) : Clase(m2[i]) = "otra"
      <3>1. App("LOGINACCEPTED", 1) \in Aplicacion /\ Clase(App("LOGINACCEPTED", 1)) = "otra"
        BY TipoApp DEF OpServidor, App, Clase
      <3> QED
        BY <3>1
    <2>4. m3 \in Seq(Aplicacion) /\ \A i \in 1 .. Len(m3) : Clase(m3[i]) = "otra"
      <3>1. App("CLASSINFO", 0) \in Aplicacion /\ Clase(App("CLASSINFO", 0)) = "otra"
        BY TipoApp DEF OpServidor, App, Clase
      <3> QED
        BY <3>1
    <2>5. m4 \in Seq(Aplicacion) /\ \A i \in 1 .. Len(m4) : Clase(m4[i]) = "otra"
      <3>1. s \in Aplicacion /\ Clase(s) = "otra"
        BY LoginAssumption, TipoApp DEF listarServidores, OpServidor, App, Clase
      <3> HIDE DEF s
      <3> QED
        BY <3>1
    <2>6. c1 \in Conexion /\ Sigue(c, c1)
      BY <1>2 DEF Conexion, Sigue
    <2>7. ~ c.enviadoAceptar /\ c1.enviadoAceptar
      BY <1>2, <1>8, GuardaDeRama DEF Latido, Toma, Conexion
    <2> HIDE DEF a0, m2, m3, m4, c1
    <2>8. m1 \in Seq(Aplicacion) /\ SoloPrimera(m1) /\ m1[1] = a0
      BY <2>2 DEF SoloPrimera
    <2> DEFINE m12 == m1 \o m2
               m123 == m12 \o m3
               ms == m123 \o m4
    <2> HIDE DEF m1
    <2>9. m12 \in Seq(Aplicacion) /\ SoloPrimera(m12) /\ m12[1] = a0
      BY <2>3, <2>8, SoloPrimeraConcat
    <2>10. m123 \in Seq(Aplicacion) /\ SoloPrimera(m123) /\ m123[1] = a0
      <3> HIDE DEF m12
      <3> QED
        BY <2>4, <2>9, SoloPrimeraConcat
    <2>11. ms \in Seq(Aplicacion) /\ SoloPrimera(ms) /\ ms[1] = a0
      <3> HIDE DEF m123
      <3> QED
        BY <2>5, <2>10, SoloPrimeraConcat
    <2>12. Responder(k, c1, 1, ms)
      BY <2>1
    <2> HIDE DEF ms
    <2>13. ConBandera(c, c1, ms)
      BY <2>2, <2>7, <2>11, ConBanderaPrimera DEF Bandera
    <2> QED
      BY <2>6, <2>11, <2>12, <2>13 DEF Contestacion, Contesta
  <1>9. ASSUME PideServidores(k) PROVE Contestacion(k)
    <2> DEFINE p == App("SERVERADDED", listarServidores)
               reclusos == IF listarServidores = 0 THEN 0 ELSE contarReclusos(1)
               q == App("AVAILABLESERVERS", reclusos)
    <2>1. listarServidores \in Nat /\ reclusos \in Nat
      BY LoginAssumption, TipoContar DEF listarServidores
    <2>2. p \in Aplicacion /\ q \in Aplicacion /\ Clase(p) = "otra" /\ Clase(q) = "otra"
      BY <2>1, TipoApp DEF OpServidor, App, Clase
    <2> DEFINE ms == <<p, q>>
    <2>3. Responder(k, c, 1, ms)
      BY <1>9 DEF PideServidores
    <2> HIDE DEF reclusos, p, q
    <2>4. ms \in Seq(Aplicacion) /\ \A i \in 1 .. Len(ms) : Clase(ms[i]) = "otra"
      BY <2>2
    <2> HIDE DEF ms
    <2> QED
      BY <1>5, <2>3, <2>4, ContestaSinBandera
  <1>10. ASSUME Jugar(k) PROVE Contestacion(k)
    <2> DEFINE c1 == [c EXCEPT !.enviadoEntrar = TRUE]
               m == App("ENTERINGGAMEACCEPTED", Actual(k).pj)
               ms == <<m>>
    <2>1. Responder(k, c1, 1, ms)
      BY <1>10 DEF Jugar
    <2>2. m \in Aplicacion
      <3>1. Actual(k) \in Registro /\ Actual(k).op = "JUGAR"
        BY <1>1, <1>10, RegistroActual, GuardaDeRama DEF Jugar, Toma, Actual, TypeOK
      <3>2. Actual(k) \in [op : {"JUGAR"}, pj : 0 .. 255]
        BY <3>1 DEF Registro
      <3> HIDE DEF Actual
      <3>3. Actual(k).pj \in Nat
        BY <3>2
      <3> QED
        BY <3>3, TipoApp DEF OpServidor
    <2>3. c1 \in Conexion /\ Sigue(c, c1)
      BY <1>2 DEF Conexion, Sigue
    <2>4. Clase(m) = "entrada"
      BY DEF Clase, App
    <2>5. ~ c.enviadoEntrar /\ c1.enviadoEntrar
      BY <1>2, <1>10, GuardaDeRama DEF Jugar, Toma, Conexion
    <2> HIDE DEF c1, m
    <2>6. ms \in Seq(Aplicacion) /\ SoloPrimera(ms) /\ ms[1] = m
      BY <2>2 DEF SoloPrimera
    <2> HIDE DEF ms
    <2>7. ConBandera(c, c1, ms)
      BY <2>4, <2>5, <2>6, ConBanderaPrimera DEF Bandera
    <2> QED
      BY <2>1, <2>3, <2>6, <2>7 DEF Contestacion, Contesta
  <1>11. ASSUME Seleccionar(k) PROVE Contestacion(k)
    <2> DEFINE c1 == [c EXCEPT !.enviadoEntrar = TRUE, !.enviadoAceptar = TRUE]
               a == App("LOGINACCEPTED", 0)
               s == App("AVAILABLESERVERS", 0)
               e == App("ENTERINGGAMEACCEPTED", 0)
    <2>1. Responder(k, c1, 1, (IF c.enviadoAceptar THEN <<>> ELSE <<a, s>>) \o <<e>>)
      BY <1>11 DEF Seleccionar
    <2>2. a \in Aplicacion /\ s \in Aplicacion /\ e \in Aplicacion
      BY TipoApp DEF OpServidor
    <2>3. Clase(a) = "aceptacion" /\ Clase(s) = "otra" /\ Clase(e) = "entrada"
      BY DEF Clase, App
    <2>4. c1 \in Conexion /\ Sigue(c, c1) /\ c1.enviadoEntrar /\ c1.enviadoAceptar
      BY <1>2 DEF Conexion, Sigue
    <2>5. ~ c.enviadoEntrar
      BY <1>11, GuardaDeRama DEF Seleccionar, Toma
    <2> HIDE DEF c1, a, s, e
    <2>6. CASE c.enviadoAceptar
      <3> DEFINE ms == <<e>>
      <3>1. Responder(k, c1, 1, ms)
        <4>1. <<>> \o <<e>> = <<e>>
          OBVIOUS
        <4> QED
          BY <2>1, <2>6, <4>1
      <3>2. ms \in Seq(Aplicacion) /\ SoloPrimera(ms) /\ ms[1] = e
        BY <2>2 DEF SoloPrimera
      <3> HIDE DEF ms
      <3>3. ConBandera(c, c1, ms)
        BY <2>3, <2>4, <2>5, <3>2, ConBanderaPrimera DEF Bandera
      <3> QED
        BY <2>4, <3>1, <3>2, <3>3 DEF Contestacion, Contesta
    <2>7. CASE ~ c.enviadoAceptar
      <3> DEFINE dos == <<a, s>>
                 una == <<e>>
                 ms == dos \o una
      <3>1. Responder(k, c1, 1, ms)
        BY <2>1, <2>7
      <3>2. ms \in Seq(Aplicacion) /\ Len(ms) = 3 /\ ms[1] = a /\ ms[2] = s /\ ms[3] = e
        <4>1. dos \in Seq(Aplicacion) /\ Len(dos) = 2 /\ dos[1] = a /\ dos[2] = s
          BY <2>2
        <4>2. una \in Seq(Aplicacion) /\ Len(una) = 1 /\ una[1] = e
          BY <2>2
        <4> HIDE DEF dos, una
        <4>3. ms \in Seq(Aplicacion) /\ Len(ms) = Len(dos) + Len(una)
          BY <4>1, <4>2, ConcatProperties
        <4>4. 1 \in 1 .. Len(dos) /\ 2 \in 1 .. Len(dos) /\ 1 \in 1 .. Len(una)
          BY <4>1, <4>2
        <4>5. ms[1] = dos[1] /\ ms[2] = dos[2]
          BY <4>1, <4>2, <4>4, ConcatIndices
        <4>6. ms[Len(dos) + 1] = una[1]
          BY <4>1, <4>2, <4>4, ConcatIndices
        <4> HIDE DEF ms
        <4> QED
          BY <4>1, <4>2, <4>3, <4>4, <4>5, <4>6
      <3> HIDE DEF ms
      <3>3. ~ Bandera(c, "aceptacion") /\ ~ Bandera(c, "entrada")
        BY <2>5, <2>7 DEF Bandera
      <3>4. Bandera(c1, "aceptacion") /\ Bandera(c1, "entrada")
        BY <2>4 DEF Bandera
      <3>5. ConBandera(c, c1, ms)
        BY <2>3, <3>2, <3>3, <3>4 DEF ConBandera
      <3> QED
        BY <2>4, <3>1, <3>2, <3>5 DEF Contestacion, Contesta
    <2> QED
      BY <2>6, <2>7
  <1>12. ASSUME Saltar(k) PROVE Contestacion(k)
    <2> DEFINE ms == <<>>
    <2>1. Responder(k, c, 1, ms)
      BY <1>12 DEF Saltar
    <2>2. ms \in Seq(Aplicacion) /\ \A i \in 1 .. Len(ms) : Clase(ms[i]) = "otra"
      OBVIOUS
    <2> HIDE DEF ms
    <2> QED
      BY <1>5, <2>1, <2>2, ContestaSinBandera
  <1> QED
    BY <1>1, <1>3, <1>4, <1>6, <1>7, <1>8, <1>9, <1>10, <1>11, <1>12 DEF Atender

\* A record handled keeps the types.
LEMMA TipoAtender ==
    ASSUME TypeOK, NEW k \in Claves, Atender(k)
    PROVE  TypeOK'
  BY AtenderContesta, TipoPersonajes, TipoResponder DEF Contestacion, Contesta

\* The clock, the loss of MySQL and its other users.
LEMMA TipoEntorno == TypeOK /\ Entorno => TypeOK'
  <1> SUFFICES ASSUME TypeOK, Entorno PROVE TypeOK'
    OBVIOUS
  <1>1. CASE Tic
    BY <1>1 DEF Tic, TypeOK, bd
  <1>2. CASE CaeBd
    BY <1>2 DEF CaeBd, TypeOK
  <1>3. CASE \E u \in Usuarios : \E fila \in FilasCuenta[u] : CambiarCuenta(u, fila)
    <2>1. cuentas' \in [Usuarios -> Cuenta]
      BY <1>3, FilasSonCuentas DEF CambiarCuenta, TypeOK
    <2> QED
      BY <1>3, <2>1 DEF CambiarCuenta, TypeOK
  <1>4. CASE \E p \in personajes : BorrarPersonaje(p)
    <2> PICK p \in personajes : BorrarPersonaje(p)
      BY <1>4
    <2> DEFINE q == [p EXCEPT !.deleted = TRUE]
    <2>1. personajes' = (personajes \ {p}) \cup {q}
      BY DEF BorrarPersonaje
    <2>2. q \in Personaje
      BY DEF TypeOK, Personaje
    <2>3. personajes' \in SUBSET Personaje /\ IsFiniteSet(personajes')
      BY <2>1, <2>2, FS_RemoveElement, FS_AddElement DEF TypeOK
    <2> QED
      BY <2>3 DEF BorrarPersonaje, TypeOK
  <1> QED
    BY <1>1, <1>2, <1>3, <1>4 DEF Entorno

\* Every variable keeps its type, whatever the clients send and however the
\* tables change: the ids, counts and clocks are numbers, a message is one of
\* the known opcodes, and the characters stay finitely many.
THEOREM TipoCorrecto == Spec => []TypeOK
  <1>1. TypeOK /\ [Next]_vars => TypeOK'
    <2> SUFFICES ASSUME TypeOK, [Next]_vars PROVE TypeOK'
      OBVIOUS
    <2>1. CASE UNCHANGED vars
      BY <2>1 DEF vars, TypeOK
    <2>2. CASE Next
      BY <2>2, TipoEntorno, TipoRecibir, TipoAtender DEF Next
    <2> QED
      BY <2>1, <2>2
  <1> QED
    BY TipoInit, <1>1, PTL DEF Spec

-----------------------------------------------------------------------------
(* Who writes the tables, and what is announced of it.                     *)

\* The messages of ms neither authenticate nor announce a character.
Neutra(ms) ==
    /\ ms \in Seq(Aplicacion)
    /\ \A i \in 1 .. Len(ms) : ms[i].op \notin {"CUENTA", "CHARCREATED"}

LEMMA NeutraConcat ==
    ASSUME NEW p, NEW q, Neutra(p), Neutra(q)
    PROVE  Neutra(p \o q)
  <1> DEFINE r == p \o q
  <1>1. p \in Seq(Aplicacion) /\ q \in Seq(Aplicacion)
    BY DEF Neutra
  <1>2. /\ r \in Seq(Aplicacion) /\ Len(r) = Len(p) + Len(q)
        /\ \A i \in 1 .. Len(p) + Len(q) : r[i] = IF i <= Len(p) THEN p[i] ELSE q[i - Len(p)]
    BY <1>1, ConcatProperties
  <1>3. Len(p) \in Nat /\ Len(q) \in Nat
    BY <1>1, LenProperties
  <1> HIDE DEF r
  <1>4. ASSUME NEW i \in 1 .. Len(r) PROVE r[i].op \notin {"CUENTA", "CHARCREATED"}
    <2>1. CASE i <= Len(p)
      BY <1>2, <1>3, <2>1 DEF Neutra
    <2>2. CASE i > Len(p)
      <3>1. r[i] = q[i - Len(p)] /\ i - Len(p) \in 1 .. Len(q)
        BY <1>2, <1>3, <2>2
      <3> QED
        BY <3>1 DEF Neutra
    <2> QED
      BY <1>2, <1>3, <2>1, <2>2
  <1> QED
    BY <1>2, <1>4 DEF Neutra, r

LEMMA NeutraUna ==
    ASSUME NEW op \in OpServidor \ {"CUENTA", "CHARCREATED"}, NEW n \in Nat
    PROVE  Neutra(<<App(op, n)>>)
  <1> DEFINE a == App(op, n)
  <1>1. a \in Aplicacion /\ a.op = op
    BY TipoApp DEF App
  <1> HIDE DEF a
  <1> QED
    BY <1>1 DEF Neutra, a

LEMMA NeutraVacia == Neutra(<<>>)
  BY DEF Neutra

LEMMA DosSeguidas ==
    ASSUME NEW a, NEW b
    PROVE  <<a>> \o <<b>> = <<a, b>>
  <1> DEFINE S == {a, b}
             p == <<a>>
             q == <<b>>
             r == <<a, b>>
  <1>1. p \in Seq(S) /\ q \in Seq(S) /\ r \in Seq(S)
    OBVIOUS
  <1>2. Len(p) = 1 /\ Len(q) = 1 /\ Len(r) = 2 /\ p[1] = a /\ q[1] = b /\ r[1] = a /\ r[2] = b
    OBVIOUS
  <1> HIDE DEF S, p, q, r
  <1>3. /\ p \o q \in Seq(S) /\ Len(p \o q) = Len(p) + Len(q)
        /\ \A i \in 1 .. Len(p) + Len(q) :
              (p \o q)[i] = IF i <= Len(p) THEN p[i] ELSE q[i - Len(p)]
    BY <1>1, ConcatProperties
  <1>4. Len(p \o q) = Len(r) /\ \A i \in 1 .. Len(p \o q) : (p \o q)[i] = r[i]
    BY <1>2, <1>3
  <1>5. p \o q = r
    BY <1>1, <1>3, <1>4, SeqEqual
  <1> QED
    BY <1>5 DEF p, q, r

\* A new message has the opcode, the number and the characters of some message
\* that the handler asked for, and the id of its connection.
LEMMA NuevasDeResponder ==
    ASSUME NEW k, NEW c, NEW t, NEW ms, Responder(k, c, t, ms), NEW m \in red' \ red
    PROVE  \E i \in 1 .. Len(ms) :
              /\ m.id = c.idConexion /\ m.op = ms[i].op
              /\ m.codigo = ms[i].codigo /\ m.fichas = ms[i].fichas
  <1>1. m \in Numerados(c, t, ms)
    BY DEF Responder
  <1>2. PICK i \in 1 .. Len(ms) :
           m = [id |-> c.idConexion, n |-> c.idMensajeTx + 1 + (i - 1) * t,
                trozos |-> t, op |-> ms[i].op, codigo |-> ms[i].codigo,
                fichas |-> ms[i].fichas]
    BY <1>1, Zenon DEF Numerados
  <1> QED
    BY <1>2

\* Only the LOGIN that is accepted sends CUENTA, and only CREAR_PERSONAJE
\* writes `characters` or announces a character.
LEMMA AtenderEscribe ==
    ASSUME TypeOK, NEW k \in Claves, Atender(k)
    PROVE  \/ LoginAceptado(k)
           \/ \E guardado \in {SinCuenta, Guardado, Fallo} : CrearPersonaje(k, guardado)
           \/ /\ personajes' = personajes /\ bdViva' = bdViva
              /\ \A m \in red' \ red : m.op \notin {"CUENTA", "CHARCREATED"}
  <1> DEFINE Meta == /\ personajes' = personajes /\ bdViva' = bdViva
                     /\ \A m \in red' \ red : m.op \notin {"CUENTA", "CHARCREATED"}
  <1>1. ASSUME NEW c, NEW t, NEW ms, Neutra(ms), Responder(k, c, t, ms),
               personajes' = personajes
        PROVE  Meta
    <2>1. bdViva' = bdViva
      BY <1>1 DEF Responder
    <2>2. ASSUME NEW m \in red' \ red PROVE m.op \notin {"CUENTA", "CHARCREATED"}
      <3>1. PICK i \in 1 .. Len(ms) : m.op = ms[i].op
        BY <1>1, NuevasDeResponder
      <3> QED
        BY <1>1, <3>1 DEF Neutra
    <2> QED
      BY <1>1, <2>1, <2>2
  <1>2. CASE LoginRechazado(k)
    <2> DEFINE n == estadoARechazo(EstadoDe(k))
               ms == <<App("LOGINRECHAZADO", n)>>
               c == [conexiones[k] EXCEPT !.enviadoLogin = TRUE]
    <2>1. Responder(k, c, 1, ms) /\ personajes' = personajes
      BY <1>2 DEF LoginRechazado
    <2>2. n \in Nat
      BY TipoRechazo
    <2> HIDE DEF n, c
    <2>3. Neutra(ms)
      BY <2>2, NeutraUna DEF OpServidor
    <2> HIDE DEF ms
    <2> QED
      BY <1>1, <2>1, <2>3
  <1>3. CASE NickRepetido(k)
    <2> DEFINE ms == <<App("CHARERROR", 0)>>
    <2>1. Responder(k, conexiones[k], 1, ms) /\ personajes' = personajes
      BY <1>3 DEF NickRepetido
    <2>2. Neutra(ms)
      BY NeutraUna DEF OpServidor
    <2> HIDE DEF ms
    <2> QED
      BY <1>1, <2>1, <2>2
  <1>4. CASE Latido(k)
    <2> DEFINE m1 == <<App("LOGINACCEPTED", 0)>>
               m2 == IF ListaRica THEN <<App("LOGINACCEPTED", 1)>> ELSE <<>>
               m3 == IF ClassInfo /\ bdViva THEN <<App("CLASSINFO", 0)>> ELSE <<>>
               m4 == <<App("SERVERADDED", listarServidores)>>
               ms == m1 \o m2 \o m3 \o m4
               c == [conexiones[k] EXCEPT !.enviadoAceptar = TRUE]
    <2>1. Responder(k, c, 1, ms) /\ personajes' = personajes
      BY <1>4 DEF Latido
    <2>2. Neutra(m1)
      BY NeutraUna DEF OpServidor
    <2>3. Neutra(m2)
      BY NeutraUna, NeutraVacia DEF OpServidor
    <2>4. Neutra(m3)
      BY NeutraUna, NeutraVacia DEF OpServidor
    <2>5. Neutra(m4)
      BY LoginAssumption, NeutraUna DEF OpServidor, listarServidores
    <2> HIDE DEF m1, m2, m3, m4
    <2>6. Neutra(m1 \o m2)
      BY <2>2, <2>3, NeutraConcat
    <2>7. Neutra(m1 \o m2 \o m3)
      BY <2>4, <2>6, NeutraConcat
    <2>8. Neutra(ms)
      BY <2>5, <2>7, NeutraConcat
    <2> HIDE DEF ms, c
    <2> QED
      BY <1>1, <2>1, <2>8
  <1>5. CASE PideServidores(k)
    <2> DEFINE reclusos == IF listarServidores = 0 THEN 0 ELSE contarReclusos(1)
               m1 == <<App("SERVERADDED", listarServidores)>>
               m2 == <<App("AVAILABLESERVERS", reclusos)>>
               ms == <<App("SERVERADDED", listarServidores), App("AVAILABLESERVERS", reclusos)>>
    <2>1. Responder(k, conexiones[k], 1, ms) /\ personajes' = personajes
      BY <1>5 DEF PideServidores
    <2>2. listarServidores \in Nat /\ reclusos \in Nat
      BY LoginAssumption, TipoContar DEF listarServidores
    <2> HIDE DEF reclusos
    <2>3. Neutra(m1) /\ Neutra(m2)
      BY <2>2, NeutraUna DEF OpServidor
    <2>4. Neutra(m1 \o m2)
      <3> HIDE DEF m1, m2
      <3> QED
        BY <2>3, NeutraConcat
    <2>5. ms = m1 \o m2
      BY DosSeguidas
    <2> HIDE DEF ms
    <2> QED
      BY <1>1, <2>1, <2>4, <2>5
  <1>6. CASE Jugar(k)
    <2> DEFINE a == App("ENTERINGGAMEACCEPTED", Actual(k).pj)
               ms == <<a>>
               c == [conexiones[k] EXCEPT !.enviadoEntrar = TRUE]
    <2>1. Responder(k, c, 1, ms) /\ personajes' = personajes
      BY <1>6 DEF Jugar
    <2>2. Len(ms) = 1 /\ ms[1].op = "ENTERINGGAMEACCEPTED"
      BY DEF App
    <2> HIDE DEF ms, c
    <2>3. \A m \in red' \ red : m.op = "ENTERINGGAMEACCEPTED"
      BY <2>1, <2>2, NuevasDeResponder
    <2> QED
      BY <2>1, <2>3 DEF Responder
  <1>7. CASE Seleccionar(k)
    <2> DEFINE m1 == <<App("LOGINACCEPTED", 0)>>
               m2 == <<App("AVAILABLESERVERS", 0)>>
               m3 == <<App("ENTERINGGAMEACCEPTED", 0)>>
               m == IF conexiones[k].enviadoAceptar THEN <<>>
                    ELSE <<App("LOGINACCEPTED", 0), App("AVAILABLESERVERS", 0)>>
               ms == m \o m3
               c == [conexiones[k] EXCEPT !.enviadoEntrar = TRUE, !.enviadoAceptar = TRUE]
    <2>1. Responder(k, c, 1, ms) /\ personajes' = personajes
      BY <1>7 DEF Seleccionar
    <2>2. Neutra(m1) /\ Neutra(m2) /\ Neutra(m3)
      BY NeutraUna DEF OpServidor
    <2>3. Neutra(m)
      <3>1. Neutra(m1 \o m2)
        <4> HIDE DEF m1, m2
        <4> QED
          BY <2>2, NeutraConcat
      <3>2. m1 \o m2 = <<App("LOGINACCEPTED", 0), App("AVAILABLESERVERS", 0)>>
        BY DosSeguidas
      <3> QED
        BY <3>1, <3>2, NeutraVacia
    <2> HIDE DEF m, m3, c
    <2>4. Neutra(ms)
      BY <2>2, <2>3, NeutraConcat
    <2> HIDE DEF ms
    <2> QED
      BY <1>1, <2>1, <2>4
  <1>8. CASE Saltar(k)
    BY <1>1, <1>8, NeutraVacia DEF Saltar
  <1> QED
    BY <1>2, <1>3, <1>4, <1>5, <1>6, <1>7, <1>8 DEF Atender

\* The ficha that stands for character p in a message.
FichaDe(p) == [slot |-> p.slot % 256, nick |-> p.nick]

\* CREAR_PERSONAJE sends one message; a character stored has a nick that none
\* had and takes as slot the number of characters of its account.
LEMMA EfectoDeCrear ==
    ASSUME TypeOK, NEW k \in Claves, NEW guardado \in {SinCuenta, Guardado, Fallo},
           CrearPersonaje(k, guardado)
    PROVE  \E nuevo \in Personaje, x \in Mensaje :
              /\ red' = red \cup {x}
              /\ x.op = "CHARCREATED" /\ x.codigo = guardado /\ x.fichas = {FichaDe(nuevo)}
              /\ personajes' = IF guardado = Guardado THEN personajes \cup {nuevo} ELSE personajes
              /\ guardado = Guardado =>
                    /\ bdViva /\ ~ nuevo.deleted
                    /\ \A p \in personajes : p.nick # nuevo.nick
                    /\ nuevo.slot = Cardinality(Vivos(nuevo.cuenta))
                    /\ nuevo.nick = NickDe(nuevo.datos)
              /\ guardado = Fallo => ~ bdViva \/ InsercionFalla
              /\ bdViva' = bdViva
  <1> DEFINE idCuenta == conexiones[k].cuenta.id
             slot == IF idCuenta # 0 THEN contarPersonajes(idCuenta) ELSE 0
             nuevo == [cuenta |-> idCuenta, slot |-> slot, nick |-> NickPedido(k),
                       servidor |-> 1, deleted |-> FALSE, datos |-> Actual(k).datos]
             a == AppFichas("CHARCREATED", guardado, {[slot |-> slot % 256, nick |-> nuevo.nick]})
             ms == <<a>>
             c == conexiones[k]
             x == [id |-> c.idConexion, n |-> c.idMensajeTx + 1 + (1 - 1) * TrozosCreado,
                   trozos |-> TrozosCreado, op |-> a.op, codigo |-> a.codigo,
                   fichas |-> a.fichas]
  <1>1. /\ ~ existeNick(nuevo.nick)
        /\ guardado \in IF idCuenta # 0 THEN ResultadosInsercion(nuevo.nick) ELSE {SinCuenta}
        /\ personajes' = IF guardado = Guardado THEN personajes \cup {nuevo} ELSE personajes
        /\ Responder(k, c, TrozosCreado, ms)
    BY DEF CrearPersonaje
  <1>2. idCuenta \in Nat /\ slot \in Nat /\ c \in Conexion
    BY TipoContar DEF TypeOK, Conexion, Cuenta
  <1>3. /\ nuevo \in Personaje /\ ~ nuevo.deleted /\ nuevo.slot = slot
        /\ nuevo.cuenta = idCuenta /\ nuevo.nick = NickDe(nuevo.datos)
    <2>1. NickPedido(k) \in Nicks /\ Actual(k).datos \in Bloques
      BY NickPedidoTipo DEF CrearPersonaje
    <2> QED
      BY <1>2, <2>1 DEF Personaje, NickPedido
  <1>4. a.op = "CHARCREATED" /\ a.codigo = guardado /\ a.fichas = {FichaDe(nuevo)}
    BY DEF AppFichas, FichaDe
  <1>5. red' = red \cup {x}
    <2>1. Len(ms) = 1 /\ ms[1] = a
      OBVIOUS
    <2> HIDE DEF a, ms, c
    <2>2. Numerados(c, TrozosCreado, ms) = {x}
      BY <2>1 DEF Numerados
    <2> QED
      BY <1>1, <2>2 DEF Responder
  <1>6. x \in Mensaje
    <2>1. FichaDe(nuevo) \in Ficha
      <3> HIDE DEF nuevo
      <3>1. nuevo.slot \in Nat /\ nuevo.nick \in Nicks
        BY <1>3 DEF Personaje
      <3> QED
        BY <3>1, TipoTarjeta DEF FichaDe
    <2>2. TrozosCreado \in Nat
      BY DEF TrozosCreado, numFrag
    <2>3. guardado \in Nat
      BY DEF SinCuenta, Guardado, Fallo
    <2> HIDE DEF a, nuevo
    <2> QED
      BY <1>2, <1>4, <2>1, <2>2, <2>3 DEF Mensaje, Conexion, OpServidor
  <1>7. guardado = Guardado =>
           /\ bdViva /\ \A p \in personajes : p.nick # nuevo.nick
           /\ slot = Cardinality(Vivos(idCuenta))
    <2> SUFFICES ASSUME guardado = Guardado
                 PROVE  /\ bdViva /\ \A p \in personajes : p.nick # nuevo.nick
                        /\ slot = Cardinality(Vivos(idCuenta))
      OBVIOUS
    <2> HIDE DEF nuevo
    <2>1. idCuenta # 0 /\ Guardado \in ResultadosInsercion(nuevo.nick)
      BY <1>1 DEF SinCuenta, Guardado
    <2>2. bdViva /\ \A p \in personajes : p.nick # nuevo.nick
      BY <2>1 DEF ResultadosInsercion, Guardado, Fallo
    <2> QED
      BY <2>1, <2>2 DEF contarPersonajes
  <1>8. guardado = Fallo => ~ bdViva \/ InsercionFalla
    <2> SUFFICES ASSUME guardado = Fallo, bdViva PROVE InsercionFalla
      OBVIOUS
    <2> HIDE DEF nuevo
    <2>1. Fallo \in ResultadosInsercion(nuevo.nick)
      BY <1>1 DEF SinCuenta, Fallo
    <2>2. \A p \in personajes : p.nick # nuevo.nick
      BY <1>1 DEF existeNick
    <2> QED
      BY <2>1, <2>2 DEF ResultadosInsercion, Guardado, Fallo
  <1>9. bdViva' = bdViva
    BY <1>1 DEF Responder
  <1>10. x.op = "CHARCREATED" /\ x.codigo = guardado /\ x.fichas = {FichaDe(nuevo)}
    BY <1>4
  <1> HIDE DEF nuevo, x, slot, idCuenta
  <1> QED
    BY <1>1, <1>3, <1>5, <1>6, <1>7, <1>8, <1>9, <1>10

-----------------------------------------------------------------------------
(* The characters and what was announced of them.                          *)

NicksUnicos == \A p, q \in personajes : p.nick = q.nick => p = q

\* Every character stored was announced.
Anunciados ==
    \A p \in personajes : \E m \in red : Creacion(m) /\ m.fichas = {FichaDe(p)}

\* Every announcement is of one character, which is still there.
Creaciones ==
    \A m \in red : Creacion(m) => \E p \in personajes : m.fichas = {FichaDe(p)}

\* No character was announced twice.
Distintas ==
    \A m1, m2 \in red :
        Creacion(m1) /\ Creacion(m2) /\ m1.fichas = m2.fichas => m1 = m2

\* An account that never lost a character.
Intacta(a) == \A q \in personajes : q.cuenta = a => ~ q.deleted

\* RanurasContiguas, also for an account without characters.
Ranuras ==
    \A a \in Nat : Intacta(a) =>
        {q.slot : q \in Vivos(a)} = 0 .. Cardinality(Vivos(a)) - 1

InvTablas ==
    /\ TypeOK /\ NicksUnicos /\ Anunciados /\ Creaciones /\ Distintas
    /\ Ranuras /\ InsercionPrevista

LEMMA TablasInit == Init => InvTablas
  <1> SUFFICES ASSUME Init PROVE InvTablas
    OBVIOUS
  <1>1. TypeOK /\ personajes = {} /\ red = {}
    BY TipoInit DEF Init
  <1>2. NicksUnicos /\ Anunciados /\ Creaciones /\ Distintas /\ InsercionPrevista
    BY <1>1 DEF NicksUnicos, Anunciados, Creaciones, Distintas, InsercionPrevista
  <1>3. Ranuras
    <2>1. ASSUME NEW a \in Nat PROVE Vivos(a) = {} /\ Cardinality(Vivos(a)) = 0
      BY <1>1, FS_EmptySet DEF Vivos
    <2> QED
      BY <2>1 DEF Ranuras
  <1> QED
    BY <1>1, <1>2, <1>3 DEF InvTablas

\* A step that writes neither `characters` nor an announcement.
LEMMA TablasIgual ==
    ASSUME InvTablas, TypeOK', personajes' = personajes,
           bdViva' => bdViva, red \subseteq red',
           \A m \in red' \ red : m.op # "CHARCREATED"
    PROVE  InvTablas'
  <1>1. \A a : Vivos(a)' = Vivos(a) /\ Intacta(a)' = Intacta(a)
    BY DEF Vivos, Intacta
  <1>2. Ranuras'
    BY <1>1 DEF InvTablas, Ranuras
  <1>3. \A m \in red' : m.op = "CHARCREATED" => m \in red
    OBVIOUS
  <1>4. NicksUnicos' /\ Anunciados'
    BY DEF InvTablas, NicksUnicos, Anunciados, Creacion
  <1>5. Creaciones' /\ Distintas'
    BY <1>3 DEF InvTablas, Creaciones, Distintas, Creacion
  <1>6. InsercionPrevista'
    BY <1>3 DEF InvTablas, InsercionPrevista
  <1> QED
    BY <1>2, <1>4, <1>5, <1>6 DEF InvTablas

\* One more character of an intact account takes the next slot.
LEMMA RanuraSiguiente ==
    ASSUME TypeOK, Ranuras, NEW nuevo \in Personaje, ~ nuevo.deleted,
           \A p \in personajes : p.nick # nuevo.nick,
           nuevo.slot = Cardinality(Vivos(nuevo.cuenta)),
           personajes' = personajes \cup {nuevo}
    PROVE  Ranuras'
  <1> SUFFICES ASSUME NEW a \in Nat, Intacta(a)'
               PROVE  {q.slot : q \in Vivos(a)'} = 0 .. Cardinality(Vivos(a)') - 1
    BY DEF Ranuras
  <1> DEFINE V == Vivos(a)
             n == Cardinality(V)
  <1>1. IsFiniteSet(V) /\ n \in Nat
    BY TipoContar, FS_CardinalityType
  <1>2. {q.slot : q \in V} = 0 .. n - 1
    BY DEF Ranuras, Intacta
  <1>3. CASE nuevo.cuenta # a
    <2>1. Vivos(a)' = V
      BY <1>3 DEF Vivos
    <2> QED
      BY <1>2, <2>1
  <1>4. CASE nuevo.cuenta = a
    <2>1. Vivos(a)' = V \cup {nuevo} /\ nuevo \notin V /\ nuevo.slot = n
      BY <1>4 DEF Vivos
    <2> HIDE DEF V
    <2>2. Cardinality(V \cup {nuevo}) = n + 1
      BY <1>1, <2>1, FS_AddElement
    <2>3. {q.slot : q \in V \cup {nuevo}} = {q.slot : q \in V} \cup {nuevo.slot}
      OBVIOUS
    <2>4. (0 .. n - 1) \cup {n} = 0 .. (n + 1) - 1
      BY <1>1
    <2> HIDE DEF n
    <2> QED
      BY <1>2, <2>1, <2>2, <2>3, <2>4
  <1> QED
    BY <1>3, <1>4

\* A CREAR_PERSONAJE that is answered with CHARCREATED.
LEMMA TablasCrear ==
    ASSUME InvTablas, TypeOK', NEW k \in Claves,
           NEW guardado \in {SinCuenta, Guardado, Fallo}, CrearPersonaje(k, guardado)
    PROVE  InvTablas'
  <1>1. /\ TypeOK /\ NicksUnicos /\ Anunciados /\ Creaciones /\ Distintas
        /\ Ranuras /\ InsercionPrevista
    BY DEF InvTablas
  <1>2. PICK nuevo \in Personaje, x \in Mensaje :
           /\ red' = red \cup {x}
           /\ x.op = "CHARCREATED" /\ x.codigo = guardado /\ x.fichas = {FichaDe(nuevo)}
           /\ personajes' = IF guardado = Guardado THEN personajes \cup {nuevo} ELSE personajes
           /\ guardado = Guardado =>
                 /\ bdViva /\ ~ nuevo.deleted
                 /\ \A p \in personajes : p.nick # nuevo.nick
                 /\ nuevo.slot = Cardinality(Vivos(nuevo.cuenta))
           /\ guardado = Fallo => ~ bdViva \/ InsercionFalla
           /\ bdViva' = bdViva
    BY <1>1, EfectoDeCrear
  <1>3. InsercionPrevista'
    BY <1>1, <1>2 DEF InsercionPrevista
  <1>4. CASE guardado # Guardado
    <2>1. personajes' = personajes /\ ~ Creacion(x)
      BY <1>2, <1>4 DEF Creacion
    <2>2. \A a : Vivos(a)' = Vivos(a) /\ Intacta(a)' = Intacta(a)
      BY <2>1 DEF Vivos, Intacta
    <2>3. Ranuras'
      BY <1>1, <2>2 DEF Ranuras
    <2>4. NicksUnicos' /\ Anunciados' /\ Creaciones' /\ Distintas'
      BY <1>1, <1>2, <2>1 DEF NicksUnicos, Anunciados, Creaciones, Distintas
    <2> QED
      BY <1>3, <2>3, <2>4 DEF InvTablas
  <1>5. CASE guardado = Guardado
    <2>1. /\ personajes' = personajes \cup {nuevo} /\ Creacion(x) /\ ~ nuevo.deleted
          /\ \A p \in personajes : p.nick # nuevo.nick
          /\ nuevo.slot = Cardinality(Vivos(nuevo.cuenta))
      BY <1>2, <1>5 DEF Creacion
    <2>2. Ranuras'
      BY <1>1, <2>1, RanuraSiguiente
    <2>3. NicksUnicos'
      BY <1>1, <2>1 DEF NicksUnicos
    <2>4. Anunciados' /\ Creaciones'
      BY <1>1, <1>2, <2>1 DEF Anunciados, Creaciones
    <2>5. \A m \in red : Creacion(m) => m.fichas # x.fichas
      <3> SUFFICES ASSUME NEW m \in red, Creacion(m), m.fichas = {FichaDe(nuevo)}
                   PROVE  FALSE
        BY <1>2
      <3>1. PICK p \in personajes : {FichaDe(p)} = {FichaDe(nuevo)}
        BY <1>1 DEF Creaciones
      <3>2. FichaDe(p).nick = FichaDe(nuevo).nick
        BY <3>1
      <3>3. p.nick = nuevo.nick
        BY <3>2 DEF FichaDe
      <3> QED
        BY <2>1, <3>3
    <2>6. Distintas'
      BY <1>1, <1>2, <2>5 DEF Distintas
    <2> QED
      BY <1>3, <2>2, <2>3, <2>4, <2>6 DEF InvTablas
  <1> QED
    BY <1>4, <1>5

\* A reception or a record.
LEMMA TablasServidor ==
    ASSUME InvTablas, NEW k \in Claves, Recibir(k) \/ Atender(k)
    PROVE  InvTablas'
  <1>1. TypeOK /\ TypeOK'
    BY TipoRecibir, TipoAtender DEF InvTablas
  <1>2. CASE Recibir(k)
    <2>1. UNCHANGED <<personajes, bdViva, red>>
      BY <1>2 DEF Recibir, RecibirSyn, RecibirAck, RecibirFin, RecibirDatos, bd
    <2> QED
      BY <1>1, <2>1, TablasIgual
  <1>3. CASE LoginAceptado(k)
    <2>1. PICK f : Responder(k, [conexiones[k] EXCEPT !.enviadoLogin = TRUE], TrozosCuenta,
                             <<AppFichas("CUENTA", 0, f)>>)
      BY <1>3 DEF LoginAceptado
    <2> DEFINE ms == <<AppFichas("CUENTA", 0, f)>>
               c == [conexiones[k] EXCEPT !.enviadoLogin = TRUE]
    <2>2. Responder(k, c, TrozosCuenta, ms) /\ Len(ms) = 1 /\ ms[1].op = "CUENTA"
      BY <2>1 DEF AppFichas
    <2> HIDE DEF ms, c
    <2>3. \A m \in red' \ red : m.op = "CUENTA"
      BY <2>2, NuevasDeResponder
    <2>4. personajes' = personajes /\ bdViva' = bdViva /\ red \subseteq red'
      BY <1>3, <2>2 DEF LoginAceptado, Responder
    <2> QED
      BY <1>1, <2>3, <2>4, TablasIgual
  <1>4. CASE \E guardado \in {SinCuenta, Guardado, Fallo} : CrearPersonaje(k, guardado)
    BY <1>1, <1>4, TablasCrear
  <1>5. CASE /\ Atender(k) /\ personajes' = personajes /\ bdViva' = bdViva
             /\ \A m \in red' \ red : m.op \notin {"CUENTA", "CHARCREATED"}
    <2>1. red \subseteq red'
      BY <1>1, <1>5, AtenderContesta DEF Contestacion, Contesta, Responder
    <2> QED
      BY <1>1, <1>5, <2>1, TablasIgual
  <1> QED
    BY <1>1, <1>2, <1>3, <1>4, <1>5, AtenderEscribe

\* A character marked as deleted keeps its nick and its slot, and its account
\* is intact no more.
LEMMA TablasBorrar ==
    ASSUME InvTablas, TypeOK', NEW p \in personajes, BorrarPersonaje(p)
    PROVE  InvTablas'
  <1> DEFINE q == [p EXCEPT !.deleted = TRUE]
  <1>1. /\ TypeOK /\ NicksUnicos /\ Anunciados /\ Creaciones /\ Distintas
        /\ Ranuras /\ InsercionPrevista
    BY DEF InvTablas
  <1>2. personajes' = (personajes \ {p}) \cup {q} /\ red' = red /\ bdViva' = bdViva
    BY DEF BorrarPersonaje
  <1>3. q.deleted /\ q.nick = p.nick /\ q.slot = p.slot /\ q.cuenta = p.cuenta
    BY <1>1 DEF TypeOK, Personaje
  <1>4. FichaDe(q) = FichaDe(p)
    BY <1>3 DEF FichaDe
  <1> HIDE DEF q
  <1>5. NicksUnicos'
    BY <1>1, <1>2, <1>3 DEF NicksUnicos
  <1>6. Anunciados'
    BY <1>1, <1>2, <1>4 DEF Anunciados
  <1>7. Creaciones'
    BY <1>1, <1>2, <1>4 DEF Creaciones
  <1>8. Distintas' /\ InsercionPrevista'
    BY <1>1, <1>2 DEF Distintas, InsercionPrevista
  <1>9. Ranuras'
    <2> SUFFICES ASSUME NEW a \in Nat, Intacta(a)'
                 PROVE  {r.slot : r \in Vivos(a)'} = 0 .. Cardinality(Vivos(a)') - 1
      BY DEF Ranuras
    <2>1. p.cuenta # a
      BY <1>2, <1>3 DEF Intacta
    <2>2. Vivos(a)' = Vivos(a) /\ Intacta(a)
      BY <1>2, <1>3, <2>1 DEF Vivos, Intacta
    <2> QED
      BY <1>1, <2>2 DEF Ranuras
  <1> QED
    BY <1>5, <1>6, <1>7, <1>8, <1>9 DEF InvTablas

LEMMA TablasPaso == InvTablas /\ [Next]_vars => InvTablas'
  <1> SUFFICES ASSUME InvTablas, [Next]_vars PROVE InvTablas'
    OBVIOUS
  <1>1. TypeOK /\ TypeOK'
    <2>1. TypeOK
      BY DEF InvTablas
    <2> QED
      BY <2>1, TipoEntorno, TipoRecibir, TipoAtender DEF Next, vars, TypeOK
  <1>2. CASE UNCHANGED vars
    BY <1>1, <1>2, TablasIgual DEF vars
  <1>3. CASE Entorno
    <2>1. CASE Tic \/ CaeBd \/ \E u \in Usuarios : \E f \in FilasCuenta[u] : CambiarCuenta(u, f)
      <3>1. personajes' = personajes /\ red' = red /\ (bdViva' => bdViva)
        BY <2>1 DEF Tic, CaeBd, CambiarCuenta, bd
      <3> QED
        BY <1>1, <3>1, TablasIgual
    <2> QED
      BY <1>1, <1>3, <2>1, TablasBorrar DEF Entorno
  <1> QED
    BY <1>2, <1>3, TablasServidor DEF Next

LEMMA TablasInvariante == Spec => []InvTablas
  BY TablasInit, TablasPaso, PTL DEF Spec

\* A character is stored under the nick of its creation block.
NicksGuardados == \A p \in personajes : p.nick = NickDe(p.datos)

LEMMA NicksGuardadosPaso ==
    TypeOK /\ NicksGuardados /\ [Next]_vars => NicksGuardados'
  <1> SUFFICES ASSUME TypeOK, NicksGuardados, [Next]_vars PROVE NicksGuardados'
    OBVIOUS
  <1>1. CASE personajes' = personajes
    BY <1>1 DEF NicksGuardados
  <1>2. CASE \E p \in personajes : BorrarPersonaje(p)
    <2> PICK p \in personajes : BorrarPersonaje(p)
      BY <1>2
    <2> DEFINE q == [p EXCEPT !.deleted = TRUE]
    <2>1. personajes' = (personajes \ {p}) \cup {q}
      BY DEF BorrarPersonaje
    <2>2. q.nick = p.nick /\ q.datos = p.datos
      BY DEF TypeOK, Personaje
    <2> HIDE DEF q
    <2> QED
      BY <2>1, <2>2 DEF NicksGuardados
  <1>3. ASSUME NEW k \in Claves, Atender(k) PROVE NicksGuardados'
    <2>1. CASE \E guardado \in {SinCuenta, Guardado, Fallo} : CrearPersonaje(k, guardado)
      <3> PICK guardado \in {SinCuenta, Guardado, Fallo} : CrearPersonaje(k, guardado)
        BY <2>1
      <3>1. PICK nuevo \in Personaje :
               /\ personajes' = IF guardado = Guardado THEN personajes \cup {nuevo} ELSE personajes
               /\ guardado = Guardado => nuevo.nick = NickDe(nuevo.datos)
        BY EfectoDeCrear
      <3> QED
        BY <3>1 DEF NicksGuardados
    <2>2. CASE LoginAceptado(k)
      BY <1>1, <2>2 DEF LoginAceptado
    <2> QED
      BY <1>1, <1>3, <2>1, <2>2, AtenderEscribe
  <1>4. CASE UNCHANGED vars
    BY <1>1, <1>4 DEF vars
  <1>5. CASE Entorno
    BY <1>1, <1>2, <1>5 DEF Entorno, Tic, CaeBd, CambiarCuenta, bd
  <1>6. ASSUME NEW k \in Claves, Recibir(k) PROVE NicksGuardados'
    BY <1>1, <1>6 DEF Recibir, RecibirSyn, RecibirAck, RecibirFin, RecibirDatos, bd
  <1> QED
    BY <1>3, <1>4, <1>5, <1>6 DEF Next

LEMMA NicksGuardadosInvariante == Spec => []NicksGuardados
  <1>1. Init => NicksGuardados
    BY DEF Init, NicksGuardados
  <1> QED
    BY <1>1, NicksGuardadosPaso, TipoCorrecto, PTL DEF Spec

\* The characters stored and the announcements of a successful INSERT match
\* one to one, for any number of clients that repeat CREAR_PERSONAJE and
\* whatever other programs delete: no nick is stored or announced twice.
THEOREM CadaPersonajeUnaVez == Spec => []CreadoUnaVez
  <1>1. InvTablas => CreadoUnaVez
    <2> SUFFICES ASSUME InvTablas PROVE CreadoUnaVez
      OBVIOUS
    <2>1. NicksUnicos /\ Anunciados /\ Creaciones /\ Distintas
      BY DEF InvTablas
    <2>2. ASSUME NEW p \in personajes
          PROVE  \E m \in red : Creacion(m) /\ m.fichas = {[slot |-> p.slot % 256, nick |-> p.nick]}
      BY <2>1 DEF Anunciados, FichaDe
    <2>3. ASSUME NEW m1 \in red, NEW m2 \in red, Creacion(m1), Creacion(m2)
          PROVE  /\ \E p \in personajes : \E f \in m1.fichas : p.nick = f.nick
                 /\ m1 # m2 => m1.fichas \cap m2.fichas = {}
      <3>1. PICK p \in personajes : m1.fichas = {FichaDe(p)}
        BY <2>1, <2>3 DEF Creaciones
      <3>2. PICK q \in personajes : m2.fichas = {FichaDe(q)}
        BY <2>1, <2>3 DEF Creaciones
      <3>3. FichaDe(p) \in m1.fichas /\ p.nick = FichaDe(p).nick
        BY <3>1 DEF FichaDe
      <3>4. m1 # m2 => m1.fichas # m2.fichas
        BY <2>1, <2>3 DEF Distintas
      <3> QED
        BY <3>1, <3>2, <3>3, <3>4
    <2> QED
      BY <2>1, <2>2, <2>3 DEF CreadoUnaVez, NicksUnicos
  <1> QED
    BY TablasInvariante, <1>1, PTL

\* While MySQL answers and no INSERT fails by itself, none is refused after
\* existeNick found the nick free, whoever else creates characters.
THEOREM InsercionSiemprePrevista == Spec => []InsercionPrevista
  <1>1. InvTablas => InsercionPrevista
    BY DEF InvTablas
  <1> QED
    BY TablasInvariante, <1>1, PTL

\* The slots of an account that lost no character are 0 .. n-1, for any
\* number of characters and of connections that create them.
THEOREM RanurasSiempreContiguas == Spec => []RanurasContiguas
  <1>1. InvTablas => RanurasContiguas
    <2> SUFFICES ASSUME InvTablas, NEW p \in personajes, Intacta(p.cuenta)
                 PROVE  {q.slot : q \in Vivos(p.cuenta)}
                           = 0 .. Cardinality(Vivos(p.cuenta)) - 1
      BY DEF RanurasContiguas, Intacta
    <2>1. p.cuenta \in Nat /\ Ranuras
      BY DEF InvTablas, TypeOK, Personaje
    <2> QED
      BY <2>1 DEF Ranuras
  <1> QED
    BY TablasInvariante, <1>1, PTL

\* Over a set of n characters whose slots are 0 .. n-1 no slot is repeated.
LEMMA SlotsDistintos ==
    ASSUME NEW S \in SUBSET Personaje, IsFiniteSet(S),
           {p.slot : p \in S} = 0 .. Cardinality(S) - 1
    PROVE  \A p, q \in S : p.slot = q.slot => p = q
  <1> DEFINE T == 0 .. Cardinality(S) - 1
             f == [p \in S |-> p.slot]
  <1>1. Cardinality(S) \in Nat
    BY FS_CardinalityType
  <1>2. IsFiniteSet(T) /\ Cardinality(T) = Cardinality(S)
    <2> DEFINE n == Cardinality(S)
               b == n - 1
    <2>1. n \in Nat /\ b \in Int /\ 0 \in Int /\ n = IF 0 > b THEN 0 ELSE b - 0 + 1
      BY <1>1
    <2>2. T = 0 .. b
      OBVIOUS
    <2> HIDE DEF T, b, n
    <2>3. IsFiniteSet(0 .. b) /\ Cardinality(0 .. b) = IF 0 > b THEN 0 ELSE b - 0 + 1
      BY <2>1, FS_Interval
    <2> QED
      BY <2>1, <2>2, <2>3 DEF n
  <1>3. f \in Surjection(S, T)
    <2>1. \A p \in S : p.slot \in T
      OBVIOUS
    <2>2. \A x \in T : \E p \in S : p.slot = x
      OBVIOUS
    <2> HIDE DEF T
    <2> QED
      BY <2>1, <2>2 DEF Surjection
  <1> HIDE DEF T
  <1>4. f \in Injection(S, T)
    BY <1>2, <1>3, FS_SurjSameCardinalityImpliesInj
  <1> QED
    BY <1>4 DEF Injection, IsInjective

\* The characters read are all those of the account, each at one place.
LEMMA LecturaCompleta ==
    ASSUME TypeOK, bdViva, NEW i \in Nat, NEW s \in cargarPersonajes(i)
    PROVE  /\ Len(s) = Cardinality(Vivos(i)) /\ s \in Seq(Vivos(i))
           /\ \A p \in Vivos(i) : \E h \in 1 .. Len(s) : s[h] = p
           /\ \A h, j \in 1 .. Len(s) : s[h] = s[j] => h = j
  <1> DEFINE S == Vivos(i)
             n == Cardinality(S)
  <1>1. IsFiniteSet(S) /\ n \in Nat
    BY TipoContar, FS_CardinalityType
  <1>2. s \in [1 .. n -> S] /\ \A p \in S : \E h \in 1 .. n : s[h] = p
    BY DEF cargarPersonajes
  <1>3. s \in Surjection(1 .. n, S)
    BY <1>2 DEF Surjection
  <1>4. IsFiniteSet(1 .. n) /\ Cardinality(1 .. n) = n
    BY <1>1, FS_Interval
  <1> HIDE DEF S
  <1>5. s \in Injection(1 .. n, S)
    BY <1>1, <1>3, <1>4, FS_SurjSameCardinalityImpliesInj
  <1>6. Len(s) = n /\ s \in Seq(S)
    BY <1>1, <1>2
  <1> QED
    BY <1>2, <1>5, <1>6 DEF Injection, IsInjective, S

\* What a card shows is the stored nick, when the block was stored as it came.
LEMMA RotuloEsNick ==
    ASSUME NEW p \in Personaje, p.nick = NickDe(p.datos)
    PROVE  Rotulo(p) = IF p.datos \in Nicks \cup {SinBloque} THEN p.nick ELSE p.datos
  <1>1. CASE p.datos = SinBloque
    BY <1>1 DEF Rotulo
  <1>2. CASE p.datos \in Nicks
    <2>1. p.datos # "" /\ p.datos # SinBloque /\ Corto[p.datos] = p.datos
      BY <1>2, LoginAssumption
    <2>2. p.nick = p.datos
      BY <2>1 DEF NickDe
    <2> QED
      BY <1>2, <2>1, <2>2 DEF Rotulo
  <1>3. CASE p.datos \notin Nicks \cup {SinBloque}
    BY <1>3 DEF Rotulo
  <1> QED
    BY <1>1, <1>2, <1>3

\* With at most three characters, at slots 0, 1 and 2, CUENTA has a card for
\* each, and no other.
LEMMA FichasCompletas ==
    ASSUME TypeOK, Ranuras, bdViva, NEW i \in Nat, Intacta(i),
           Cardinality(Vivos(i)) <= 3, NEW s \in cargarPersonajes(i)
    PROVE  Fichas(s) = {[slot |-> p.slot, nick |-> Rotulo(p)] : p \in Vivos(i)}
  <1> DEFINE S == Vivos(i)
             n == Cardinality(S)
  <1>1. S \in SUBSET Personaje /\ IsFiniteSet(S) /\ n \in Nat
    BY TipoContar, FS_CardinalityType DEF TypeOK
  <1>2. {p.slot : p \in S} = 0 .. n - 1
    BY DEF Ranuras
  <1>3. \A p, q \in S : p.slot = q.slot => p = q
    BY <1>1, <1>2, SlotsDistintos
  <1>4. \A p \in S : Ranura(p) = p.slot
    <2> SUFFICES ASSUME NEW p \in S PROVE p.slot \in 0 .. 2
      BY DEF Ranura
    <2>1. p.slot \in 0 .. n - 1
      BY <1>2
    <2> QED
      BY <1>1, <2>1
  <1>5. /\ Len(s) = n /\ \A h \in 1 .. n : s[h] \in S
        /\ \A p \in S : \E h \in 1 .. n : s[h] = p
        /\ \A h, j \in 1 .. n : s[h] = s[j] => h = j
    <2>1. /\ Len(s) = n /\ s \in Seq(S)
          /\ \A p \in S : \E h \in 1 .. Len(s) : s[h] = p
          /\ \A h, j \in 1 .. Len(s) : s[h] = s[j] => h = j
      BY LecturaCompleta
    <2> HIDE DEF S, n
    <2> QED
      BY <2>1, ElementOfSeq
  <1> HIDE DEF S
  <1>6. \A h, j \in 1 .. n : h # j => Ranura(s[j]) # Ranura(s[h])
    BY <1>3, <1>4, <1>5
  <1>7. Fichas(s) = {[slot |-> Ranura(s[h]), nick |-> Rotulo(s[h])] : h \in 1 .. n}
    <2>1. (IF Len(s) > 3 THEN 3 ELSE Len(s)) = n
      BY <1>1, <1>5 DEF S
    <2>2. {h \in 1 .. n : \A j \in h + 1 .. n : Ranura(s[j]) # Ranura(s[h])} = 1 .. n
      BY <1>1, <1>6
    <2> QED
      BY <2>1, <2>2 DEF Fichas
  <1> DEFINE F(p) == [slot |-> p.slot, nick |-> Rotulo(p)]
  <1>8. \A h \in 1 .. n : [slot |-> Ranura(s[h]), nick |-> Rotulo(s[h])] = F(s[h])
    BY <1>4, <1>5
  <1> HIDE DEF F
  <1>9. {F(s[h]) : h \in 1 .. n} = {F(p) : p \in S}
    BY <1>5
  <1>10. Fichas(s) = {F(p) : p \in S}
    BY <1>7, <1>8, <1>9
  <1> QED
    BY <1>10 DEF S, F
==============================================================================
