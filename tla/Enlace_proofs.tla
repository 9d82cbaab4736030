---------------------------- MODULE Enlace_proofs ----------------------------
(***************************************************************************)
(* ClaveCompartida and ConfirmadoNoEspera for words of any width, any      *)
(* constants of the key exchange, any timestamps and any number of         *)
(* attempts, connections and losses.                                       *)
(***************************************************************************)
EXTENDS Enlace, TLAPS

Clave == ClaveDe(extremo)

\* The key exchange: the client recovers the key from f1 and f2, whatever the
\* timestamp and the mask (protocolo_sns.hpp:26-29).
LEMMA ClaveRecuperada ==
    ASSUME NEW K \in Palabra, NEW TS \in Palabra
    PROVE  Recuperada(F1(K, TS), F2(K, TS)) = K
  <1>1. \A x : x \in Recuperada(F1(K, TS), F2(K, TS)) <=> x \in K
    BY DEF Recuperada, F1, F2, Xor
  <1> QED
    BY <1>1

LEMMA TipoClave ==
    ASSUME NEW a \in Palabra, NEW b \in Palabra
    PROVE  /\ Xor(a, b) \in Palabra
           /\ F1(a, b) \in Palabra /\ F2(a, b) \in Palabra
           /\ Recuperada(a, b) \in Palabra
  BY EnlaceAssumption DEF Palabra, Xor, F1, F2, Recuperada

\* Every key in the system is that of the client's address.
Llaves ==
    /\ conexion.id # 0 => conexion.clave = Clave
    /\ cliente.estado \in {"abierto", "cerrando"} => cliente.clave = Clave
    /\ \A d \in vuelta : d.tipo = "SYN_ACK" => Recuperada(d.f1, d.f2) = Clave
    /\ \A d \in vuelta : d.tipo = "VEREDICTO" => d.clave = Clave
    /\ \A d \in ida : d.tipo = "LOGIN" => d.clave = Clave

\* Ids are given in order, and the client has one once it is in.
Ids ==
    /\ cliente.id < siguienteId
    /\ cliente.estado = "abierto" => cliente.id # 0
    /\ \A d \in vuelta : d.tipo = "SYN_ACK" => d.id # 0 /\ d.id < siguienteId

\* Nothing of the current attempt's LOGIN exists before its SYN-ACK is adopted.
Orden ==
    /\ \A d \in ida : d.n <= cliente.intento
    /\ \A d \in ida : d.tipo = "LOGIN" /\ d.n = cliente.intento =>
          cliente.estado # "abriendo"
    /\ \A d \in vuelta : d.tipo = "ACK" =>
          /\ d.n <= cliente.intento
          /\ d.n = cliente.intento => cliente.estado # "abriendo"
    /\ conexion.juzgado <= cliente.intento
    /\ conexion.juzgado # 0 /\ conexion.juzgado = cliente.intento =>
          cliente.estado # "abriendo"

\* A confirmed LOGIN was handled by the connection that the client knows, and
\* the verdict it was given is on its way or lost.
Confirmado == cliente.confirmado \/
              \E d \in vuelta : d.tipo = "ACK" /\ d.n = cliente.intento

Atendido ==
    /\ conexion.enviadoLogin => conexion.juzgado # 0
    /\ cliente.estado = "abierto" /\ conexion.id = cliente.id =>
          /\ Confirmado /\ Clave # {} => conexion.enviadoLogin
          /\ conexion.enviadoLogin /\ conexion.juzgado = cliente.intento =>
                EnCamino \/ cliente.id \in sinVeredicto

\* An attempt was begun unless the client never opened.
Primero == cliente.intento = 0 => cliente.estado = "cerrado"

\* Nor has it been confirmed before.
SinConfirmar == cliente.estado = "abriendo" => ~ cliente.confirmado

Inv == TypeOK /\ Primero /\ SinConfirmar /\ Llaves /\ Ids /\ Orden /\ Atendido

\* The client's address never changes.
LEMMA Tipos ==
    ASSUME TypeOK
    PROVE  Clave \in Palabra
  BY EnlaceAssumption, TipoClave DEF TypeOK, Clave, ClaveDe

-----------------------------------------------------------------------------
LEMMA EnlaceInit == Init => Inv
  <1> SUFFICES ASSUME Init PROVE Inv
    OBVIOUS
  <1>1. TypeOK
    BY EnlaceAssumption DEF Init, TypeOK, Cliente, Conexion, SinConexion, Palabra
  <1>2. Primero /\ SinConfirmar /\ Llaves /\ Ids /\ Orden /\ Atendido
    BY DEF Init, Primero, SinConfirmar, Llaves, Ids, Orden, Atendido, SinConexion
  <1> QED
    BY <1>1, <1>2 DEF Inv

LEMMA PasoAbrir == Inv /\ AbrirCliente => Inv'
  <1> SUFFICES ASSUME Inv, AbrirCliente PROVE Inv'
    OBVIOUS
  <1>1. cliente.intento \in Nat /\ cliente'.intento = cliente.intento + 1
        /\ cliente'.estado = "abriendo" /\ cliente'.id = 0
        /\ ida' = ida \cup {[tipo |-> "SYN", n |-> cliente.intento + 1]}
        /\ UNCHANGED <<extremo, conexion, siguienteId, vuelta, perdidas, sinVeredicto>>
    BY DEF Inv, AbrirCliente, TypeOK, Cliente
  <1>2. TypeOK'
    <2>1. cliente' \in Cliente /\ cliente'.intento \in Intento
      BY EnlaceAssumption DEF Inv, AbrirCliente, TypeOK, Cliente, Intento, Palabra
    <2>2. [tipo |-> "SYN", n |-> cliente'.intento] \in Ida
      BY <2>1 DEF Ida
    <2> QED
      BY <2>1, <2>2 DEF Inv, AbrirCliente, TypeOK
  <1>3. Llaves'
    BY <1>1 DEF Inv, Llaves, Clave
  <1>4. Ids'
    BY <1>1 DEF Inv, TypeOK, Ids
  <1>5. Orden'
    <2>1. conexion.juzgado \in Nat /\ \A d \in ida : d.n \in Nat
      BY EnlaceAssumption DEF Inv, TypeOK, Conexion, Ida, Intento
    <2>2. \A d \in vuelta : d.tipo = "ACK" => d.n \in Nat
      BY EnlaceAssumption DEF Inv, TypeOK, Vuelta, Intento
    <2> QED
      BY <1>1, <2>1, <2>2 DEF Inv, Orden
  <1>6. Atendido' /\ Primero' /\ SinConfirmar'
    BY <1>1 DEF Inv, Atendido, Primero, SinConfirmar, AbrirCliente
  <1> QED
    BY <1>2, <1>3, <1>4, <1>5, <1>6 DEF Inv

LEMMA PasoCerrar == Inv /\ CerrarCliente => Inv'
  <1> SUFFICES ASSUME Inv, CerrarCliente PROVE Inv'
    OBVIOUS
  <1>1. /\ cliente.estado = "abierto" /\ cliente'.estado = "cerrando"
        /\ cliente'.intento = cliente.intento /\ cliente'.id = cliente.id
        /\ cliente'.clave = cliente.clave
        /\ ida' = ida \cup {[tipo |-> "FIN", n |-> cliente.intento]}
        /\ UNCHANGED <<extremo, conexion, siguienteId, vuelta, perdidas, sinVeredicto>>
    BY DEF Inv, CerrarCliente, TypeOK, Cliente
  <1>2. TypeOK'
    <2>1. cliente' \in Cliente
      BY DEF Inv, CerrarCliente, TypeOK, Cliente
    <2>2. cliente.intento \in Intento
      <3>1. cliente.intento # 0
        BY <1>1 DEF Inv, Primero
      <3> QED
        BY <3>1, EnlaceAssumption DEF Inv, TypeOK, Cliente, Intento
    <2>3. [tipo |-> "FIN", n |-> cliente.intento] \in Ida
      BY <2>2 DEF Ida
    <2> QED
      BY <2>1, <2>3, <1>1 DEF Inv, TypeOK
  <1>3. Llaves'
    BY <1>1 DEF Inv, Llaves, Clave
  <1>4. Ids' /\ Atendido' /\ Primero' /\ SinConfirmar'
    BY <1>1 DEF Inv, Ids, Atendido, Primero, SinConfirmar
  <1>5. Orden'
    BY <1>1, EnlaceAssumption DEF Inv, Orden, TypeOK, Cliente
  <1> QED
    BY <1>2, <1>3, <1>4, <1>5 DEF Inv

-----------------------------------------------------------------------------
(* What the client receives.                                               *)

LEMMA PasoAdoptar ==
    ASSUME Inv, NEW d \in vuelta, AdoptarSynAck(d),
           UNCHANGED <<extremo, conexion, siguienteId, vuelta, perdidas, sinVeredicto>>
    PROVE  Inv'
  <1>1. /\ d.tipo = "SYN_ACK" /\ cliente.estado = "abriendo" /\ d.n = cliente.intento
        /\ d.id # 0 /\ d.id < siguienteId /\ Recuperada(d.f1, d.f2) = Clave
    BY DEF AdoptarSynAck, Inv, Ids, Llaves
  <1>2. /\ cliente'.estado = "abierto" /\ cliente'.intento = cliente.intento
        /\ cliente'.id = d.id /\ cliente'.clave = Clave
        /\ cliente'.confirmado = cliente.confirmado
        /\ ida' = ida \cup {[tipo |-> "ACK", n |-> d.n],
                            [tipo |-> "LOGIN", n |-> d.n, clave |-> Clave]}
    BY <1>1 DEF AdoptarSynAck, Inv, TypeOK, Cliente
  <1>3. d.n \in Intento /\ d.id \in Nat
    BY <1>1 DEF Inv, TypeOK, Vuelta
  <1>4. Clave \in Palabra
    BY Tipos DEF Inv
  <1>5. TypeOK'
    <2>1. cliente' \in Cliente
      BY <1>1, <1>3, <1>4 DEF AdoptarSynAck, Inv, TypeOK, Cliente
    <2>2. [tipo |-> "ACK", n |-> d.n] \in Ida
          /\ [tipo |-> "LOGIN", n |-> d.n, clave |-> Clave] \in Ida
      BY <1>3, <1>4 DEF Ida
    <2> QED
      BY <2>1, <2>2, <1>2 DEF Inv, TypeOK
  <1>6. Llaves' /\ Ids' /\ Primero' /\ SinConfirmar'
    BY <1>1, <1>2, <1>3 DEF Inv, Llaves, Ids, Primero, SinConfirmar, Clave
  <1>7. Orden'
    BY <1>1, <1>2, <1>3, EnlaceAssumption DEF Inv, Orden, TypeOK, Cliente, Intento
  <1>8. Atendido'
    <2>1. cliente.confirmado = FALSE /\ ~ Confirmado'
      BY <1>1, <1>2 DEF Inv, Orden, Confirmado, SinConfirmar
    <2>2. conexion.enviadoLogin => conexion.juzgado # cliente.intento
      BY <1>1 DEF Inv, Orden, Atendido
    <2> QED
      BY <1>2, <2>1, <2>2 DEF Inv, Atendido
  <1> QED
    BY <1>5, <1>6, <1>7, <1>8 DEF Inv

LEMMA PasoConfirmacion ==
    ASSUME Inv, NEW d \in vuelta, RecibirConfirmacion(d),
           UNCHANGED <<extremo, conexion, siguienteId, vuelta, perdidas, sinVeredicto>>
    PROVE  Inv'
  <1>1. /\ cliente' \in Cliente /\ cliente'.estado = cliente.estado
        /\ cliente.estado = "abierto"
        /\ cliente'.intento = cliente.intento /\ cliente'.id = cliente.id
        /\ cliente'.clave = cliente.clave /\ ida' = ida
        /\ d.tipo = "ACK" /\ d.n = cliente.intento
    BY DEF RecibirConfirmacion, Inv, TypeOK, Cliente
  <1>2. TypeOK'
    BY <1>1 DEF Inv, TypeOK
  <1>3. Llaves' /\ Ids' /\ Orden' /\ Primero' /\ SinConfirmar'
    BY <1>1 DEF Inv, Llaves, Ids, Orden, Primero, Clave, SinConfirmar
  <1>4. Atendido'
    BY <1>1 DEF Inv, Atendido, Confirmado, EnCamino, Clave
  <1> QED
    BY <1>2, <1>3, <1>4 DEF Inv

LEMMA PasoVeredicto ==
    ASSUME Inv, NEW d \in vuelta, RecibirVeredicto(d),
           UNCHANGED <<extremo, conexion, siguienteId, vuelta, perdidas, sinVeredicto>>
    PROVE  Inv'
  <1>1. /\ cliente' \in Cliente /\ cliente'.estado = cliente.estado
        /\ cliente'.intento = cliente.intento /\ cliente'.id = cliente.id
        /\ cliente'.clave = cliente.clave /\ cliente'.confirmado = cliente.confirmado
        /\ ida' = ida
    BY DEF RecibirVeredicto, Inv, TypeOK, Cliente
  <1>2. TypeOK'
    BY <1>1 DEF Inv, TypeOK
  <1>3. Llaves' /\ Ids' /\ Orden' /\ Primero' /\ SinConfirmar'
    BY <1>1 DEF Inv, Llaves, Ids, Orden, Primero, Clave, SinConfirmar
  <1>4. Atendido'
    BY <1>1 DEF Inv, Atendido, Confirmado, EnCamino, Clave
  <1> QED
    BY <1>2, <1>3, <1>4 DEF Inv

LEMMA PasoFinAck ==
    ASSUME Inv, NEW d \in vuelta, RecibirFinAck(d),
           UNCHANGED <<extremo, conexion, siguienteId, vuelta, perdidas, sinVeredicto>>
    PROVE  Inv'
  <1>1. /\ cliente' \in Cliente /\ cliente'.estado = "cerrado"
        /\ cliente'.intento = cliente.intento /\ cliente'.id = cliente.id
        /\ ida' = ida
    BY DEF RecibirFinAck, Inv, TypeOK, Cliente
  <1>2. TypeOK'
    BY <1>1 DEF Inv, TypeOK
  <1>3. Llaves' /\ Ids' /\ Orden' /\ Primero' /\ SinConfirmar'
    BY <1>1 DEF Inv, Llaves, Ids, Orden, Primero, Clave, SinConfirmar
  <1>4. Atendido'
    BY <1>1 DEF Inv, Atendido
  <1> QED
    BY <1>2, <1>3, <1>4 DEF Inv

LEMMA PasoDesoir ==
    ASSUME Inv, NEW d \in vuelta, DesoirVeredicto(d)
    PROVE  Inv'
  <1>1. TypeOK' /\ Llaves' /\ Ids' /\ Orden' /\ Primero' /\ SinConfirmar'
    BY DEF DesoirVeredicto, Inv, TypeOK, Llaves, Ids, Orden, Primero, Clave, SinConfirmar
  <1>2. Atendido'
    <2>1. cliente.estado = "abierto" /\ EnCamino => EnCamino'
      BY DEF DesoirVeredicto, EnCamino, Legible, Inv, Llaves
    <2>2. Confirmado' => Confirmado
      BY DEF DesoirVeredicto, Confirmado
    <2> QED
      BY <2>1, <2>2 DEF DesoirVeredicto, Inv, Atendido, Clave
  <1> QED
    BY <1>1, <1>2 DEF Inv

LEMMA PasoPerder ==
    ASSUME Inv, NEW d \in vuelta, Perder(d)
    PROVE  Inv'
  <1>1. d.tipo = "VEREDICTO" => d.id \in Nat
    BY DEF Inv, TypeOK, Vuelta
  <1>2. TypeOK'
    <2>1. sinVeredicto' \in SUBSET Nat
      BY <1>1 DEF Perder, Inv, TypeOK
    <2> QED
      BY <2>1 DEF Perder, Inv, TypeOK
  <1>3. Llaves' /\ Ids' /\ Orden' /\ Primero' /\ SinConfirmar'
    BY DEF Perder, Inv, Llaves, Ids, Orden, Primero, Clave, SinConfirmar
  <1>4. Atendido'
    <2>1. EnCamino \/ cliente.id \in sinVeredicto =>
             EnCamino' \/ cliente.id \in sinVeredicto'
      BY DEF Perder, EnCamino
    <2>2. Confirmado' => Confirmado
      BY DEF Perder, Confirmado
    <2> QED
      BY <2>1, <2>2 DEF Perder, Inv, Atendido, Clave
  <1> QED
    BY <1>2, <1>3, <1>4 DEF Inv

-----------------------------------------------------------------------------
(* What the server receives.                                               *)

LEMMA PasoSyn ==
    ASSUME Inv, NEW d \in ida, RecibirSyn(d)
    PROVE  Inv'
  <1> DEFINE id == siguienteId
             sa == SynAck(d.n, id, Clave, Marca[id])
  <1>1. /\ conexion' = Nueva(id, Clave) /\ vuelta' = vuelta \cup {sa}
        /\ siguienteId' = id + 1 /\ d.tipo = "SYN" /\ id <= MaxId
        /\ UNCHANGED <<extremo, cliente, ida, perdidas, sinVeredicto>>
    BY DEF RecibirSyn, AtiendeSyn, Clave
  <1>2. id \in Nat \ {0} /\ Clave \in Palabra /\ Marca[id] \in Palabra
    BY <1>1, Tipos, EnlaceAssumption DEF Inv, TypeOK
  <1>3. d.n \in Intento
    BY DEF Inv, TypeOK, Ida
  <1>4. /\ sa.tipo = "SYN_ACK" /\ sa.id = id /\ sa.n = d.n
        /\ Recuperada(sa.f1, sa.f2) = Clave
    BY <1>2, ClaveRecuperada DEF SynAck
  <1>5. /\ conexion'.id = id /\ conexion'.clave = Clave /\ conexion'.juzgado = 0
        /\ conexion'.enviadoLogin = FALSE
    BY <1>1 DEF Nueva, SinConexion
  <1>6. TypeOK'
    <2>1. conexion' \in Conexion
      <3>1. SinConexion \in Conexion
        BY EnlaceAssumption DEF SinConexion, Conexion, Palabra
      <3> QED
        BY <3>1, <1>1, <1>2 DEF Nueva, Conexion
    <2>2. sa \in Vuelta
      BY <1>2, <1>3, TipoClave DEF SynAck, Vuelta
    <2> QED
      BY <1>1, <1>2, <1>5, <2>1, <2>2 DEF Inv, TypeOK
  <1>7. Llaves'
    BY <1>1, <1>4, <1>5 DEF Inv, Llaves, Clave
  <1>8. Ids'
    <2>1. cliente.id \in Nat /\ \A x \in vuelta : x.tipo = "SYN_ACK" => x.id \in Nat
      BY DEF Inv, TypeOK, Cliente, Vuelta
    <2> QED
      BY <2>1, <1>1, <1>2, <1>4 DEF Inv, Ids
  <1>9. Orden' /\ Primero' /\ SinConfirmar'
    BY <1>1, <1>4, <1>5, EnlaceAssumption
    DEF Inv, Orden, Primero, TypeOK, Cliente, SinConfirmar
  <1>10. Atendido'
    <2>1. cliente.id # id
      BY <1>2 DEF Inv, Ids, TypeOK, Cliente
    <2> QED
      BY <2>1, <1>1, <1>5 DEF Inv, Atendido
  <1> QED
    BY <1>6, <1>7, <1>8, <1>9, <1>10 DEF Inv

LEMMA PasoAck ==
    ASSUME Inv, NEW d \in ida, RecibirAck(d)
    PROVE  Inv'
  <1>1. /\ conexion' \in Conexion /\ conexion'.id = conexion.id
        /\ conexion'.clave = conexion.clave /\ conexion'.juzgado = conexion.juzgado
        /\ conexion'.enviadoLogin = conexion.enviadoLogin
        /\ UNCHANGED <<extremo, cliente, siguienteId, ida, vuelta, perdidas, sinVeredicto>>
    BY DEF RecibirAck, Inv, TypeOK, Conexion
  <1>2. TypeOK'
    BY <1>1 DEF Inv, TypeOK
  <1>3. Llaves' /\ Ids' /\ Orden' /\ Primero' /\ SinConfirmar'
    BY <1>1 DEF Inv, Llaves, Ids, Orden, Primero, Clave, SinConfirmar
  <1>4. Atendido'
    BY <1>1 DEF Inv, Atendido, Confirmado, EnCamino, Clave
  <1> QED
    BY <1>2, <1>3, <1>4 DEF Inv

LEMMA PasoFin ==
    ASSUME Inv, NEW d \in ida, RecibirFin(d)
    PROVE  Inv'
  <1>1. /\ conexion' = SinConexion
        /\ vuelta' = vuelta \cup {[tipo |-> "FIN_ACK", n |-> d.n]}
        /\ UNCHANGED <<extremo, cliente, siguienteId, ida, perdidas, sinVeredicto>>
    BY DEF RecibirFin
  <1>2. /\ conexion'.id = 0 /\ conexion'.juzgado = 0 /\ conexion'.enviadoLogin = FALSE
    BY <1>1 DEF SinConexion
  <1>3. TypeOK'
    <2>1. conexion' \in Conexion
      BY <1>1, EnlaceAssumption DEF SinConexion, Conexion, Palabra
    <2>2. [tipo |-> "FIN_ACK", n |-> d.n] \in Vuelta
      BY DEF Inv, TypeOK, Ida, Vuelta
    <2> QED
      BY <1>1, <1>2, <2>1, <2>2 DEF Inv, TypeOK
  <1>4. Llaves' /\ Ids' /\ Primero'
    BY <1>1, <1>2 DEF Inv, Llaves, Ids, Primero, Clave
  <1>5. Orden' /\ SinConfirmar'
    BY <1>1, <1>2, EnlaceAssumption DEF Inv, Orden, TypeOK, Cliente, SinConfirmar
  <1>6. Atendido'
    BY <1>1, <1>2 DEF Inv, Atendido, Ids
  <1> QED
    BY <1>3, <1>4, <1>5, <1>6 DEF Inv

LEMMA PasoLogin ==
    ASSUME Inv, NEW d \in ida, RecibirLogin(d)
    PROVE  Inv'
  <1> DEFINE ack == [tipo |-> "ACK", n |-> d.n]
             ver == [tipo |-> "VEREDICTO", id |-> conexion.id, clave |-> conexion.clave]
             nuevo == Atiende(d) /\ ~ conexion.enviadoLogin
  <1>1. /\ d.tipo = "LOGIN" /\ d.n \in Intento /\ d.n <= cliente.intento
        /\ d.clave = Clave /\ (d.n = cliente.intento => cliente.estado # "abriendo")
    BY DEF RecibirLogin, Inv, TypeOK, Ida, Orden, Llaves
  <1>2. UNCHANGED <<extremo, cliente, siguienteId, ida, perdidas, sinVeredicto>>
    BY DEF RecibirLogin
  <1>3. ack \in Vuelta
    BY <1>1 DEF Vuelta
  <1>4. CASE nuevo
    <2>1. vuelta' = vuelta \cup {ack} \cup {ver}
          /\ conexion' = [conexion EXCEPT !.enviadoLogin = TRUE, !.juzgado = d.n]
      BY <1>4 DEF RecibirLogin
    <2>2. conexion.id # 0 /\ conexion.clave = Clave
      BY <1>4 DEF Atiende, Inv, Llaves
    <2>3. /\ conexion'.id = conexion.id /\ conexion'.clave = Clave
          /\ conexion'.enviadoLogin = TRUE /\ conexion'.juzgado = d.n
      BY <2>1, <2>2 DEF Inv, TypeOK, Conexion
    <2>4. TypeOK'
      <3>1. conexion' \in Conexion
        <4>1. d.n \in 0 .. MaxIntentos
          BY <1>1, EnlaceAssumption DEF Intento
        <4> QED
          BY <2>1, <4>1 DEF Inv, TypeOK, Conexion
      <3>2. ver \in Vuelta
        BY DEF Inv, TypeOK, Conexion, Vuelta
      <3> QED
        BY <1>2, <1>3, <2>1, <2>3, <3>1, <3>2 DEF Inv, TypeOK
    <2>5. Llaves' /\ Ids' /\ Primero'
      BY <1>2, <2>1, <2>2, <2>3 DEF Inv, Llaves, Ids, Primero, Clave
    <2>6. Orden' /\ SinConfirmar'
      BY <1>1, <1>2, <2>1, <2>3 DEF Inv, Orden, SinConfirmar
    <2>7. Atendido'
      <3>1. conexion'.juzgado # 0
        BY <1>1, <2>3, EnlaceAssumption DEF Intento
      <3>2. conexion'.id = cliente.id => EnCamino'
        <4>1. ver \in vuelta' /\ ver.tipo = "VEREDICTO" /\ ver.id = conexion.id
          BY <2>1
        <4> HIDE DEF ver
        <4> QED
          BY <1>2, <2>3, <4>1 DEF EnCamino
      <3> QED
        BY <1>2, <2>3, <3>1, <3>2 DEF Atendido
    <2> QED
      BY <2>4, <2>5, <2>6, <2>7 DEF Inv
  <1>5. CASE ~ nuevo
    <2>1. vuelta' = vuelta \cup {ack} /\ conexion' = conexion
      BY <1>5 DEF RecibirLogin
    <2>2. TypeOK'
      BY <1>2, <1>3, <2>1 DEF Inv, TypeOK
    <2>3. Llaves' /\ Ids' /\ Primero'
      BY <1>2, <2>1 DEF Inv, Llaves, Ids, Primero, Clave
    <2>4. Orden' /\ SinConfirmar'
      BY <1>1, <1>2, <2>1 DEF Inv, Orden, SinConfirmar
    <2>5. Atendido'
      <3>1. conexion.id # 0 /\ Clave # {} => conexion.enviadoLogin
        BY <1>1, <1>5 DEF Atiende, Inv, Llaves
      <3>2. EnCamino => EnCamino'
        BY <1>2, <2>1 DEF EnCamino
      <3> QED
        BY <1>2, <2>1, <3>1, <3>2 DEF Inv, Atendido, Ids, Clave
    <2> QED
      BY <2>2, <2>3, <2>4, <2>5 DEF Inv
  <1> QED
    BY <1>4, <1>5

-----------------------------------------------------------------------------
LEMMA EnlacePaso == Inv /\ [Next]_vars => Inv'
  <1> SUFFICES ASSUME Inv, [Next]_vars PROVE Inv'
    OBVIOUS
  <1>1. CASE AbrirCliente \/ CerrarCliente
    BY <1>1, PasoAbrir, PasoCerrar
  <1>2. ASSUME NEW d \in ida, ServidorRecibe(d) PROVE Inv'
    BY <1>2, PasoSyn, PasoAck, PasoFin, PasoLogin DEF ServidorRecibe
  <1>3. ASSUME NEW d \in vuelta, ClienteRecibe(d) PROVE Inv'
    BY <1>3, PasoAdoptar, PasoConfirmacion, PasoVeredicto, PasoFinAck DEF ClienteRecibe
  <1>4. CASE UNCHANGED vars
    BY <1>4 DEF vars, Inv, TypeOK, Primero, SinConfirmar, Llaves, Ids, Orden, Atendido,
                Confirmado, EnCamino, Clave
  <1> QED
    BY <1>1, <1>2, <1>3, <1>4, PasoDesoir, PasoPerder DEF Next

LEMMA EnlaceInvariante == Spec => []Inv
  BY EnlaceInit, EnlacePaso, PTL DEF Spec

\* Types of the transport: conexiones_ and the datagrams of Enlace keep their
\* shape, and ids stay below siguienteId_.
THEOREM TipoEnlace == Spec => []TypeOK
  <1>1. Inv => TypeOK
    BY DEF Inv
  <1> QED
    BY <1>1, EnlaceInvariante, PTL

\* Client and server agree on the key, for every seed, mask and timestamp.
THEOREM ClaveSiempreCompartida == Spec => []ClaveCompartida
  <1>1. Inv => ClaveCompartida
    BY DEF Inv, Llaves, ClaveCompartida, Clave
  <1> QED
    BY <1>1, EnlaceInvariante, PTL

\* A confirmed LOGIN is never dropped in silence, but for the causes of Impedido.
THEOREM ConfirmadoNuncaEspera == Spec => []ConfirmadoNoEspera
  <1>1. Inv => ConfirmadoNoEspera
    BY DEF Inv, Atendido, Confirmado, ConfirmadoNoEspera, Impedido, PorPerdida,
           PorOtroSynOFin, PorOtroLogin, PorClaveNula, Clave
  <1> QED
    BY <1>1, EnlaceInvariante, PTL
==============================================================================
