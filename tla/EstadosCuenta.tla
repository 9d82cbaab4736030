---------------------------- MODULE EstadosCuenta ----------------------------
(***************************************************************************)
(* The verdict on an account when a LOGIN arrives: the row of `accounts`   *)
(* the server read, the password hash of the message and the clock give    *)
(* one EstadoCuenta, and each EstadoCuenta a LOGINREJECTED code            *)
(* (estados_cuenta.hpp and evaluarEstado of servidor_login.cpp).           *)
(*                                                                         *)
(* A hash is a sequence of bytes; the code keeps it as hexadecimal text    *)
(* and compares it without regard to case, that is, byte by byte.          *)
(***************************************************************************)
EXTENDS Integers, Sequences

CONSTANTS
    Hashes,             \* the password hashes in play; <<>> is "no hash"
    Mantenimiento,      \* cfg().mantenimiento
    ExigirContrasena,   \* cfg().exigirContrasena
    Activacion          \* ACTIVACION_SEGUNDOS

ASSUME HashesAssumption == Hashes \subseteq Seq(Nat) /\ <<>> \in Hashes
ASSUME ConfigAssumption ==
    /\ Mantenimiento \in BOOLEAN
    /\ ExigirContrasena \in BOOLEAN
    /\ Activacion \in Nat

EstadoCuenta ==
    {"Ok", "NoExiste", "ContrasenaIncorrecta", "Baneada", "BaneadaTemporal",
     "SinTiempoDeJuego", "EnMantenimiento", "YaConectada", "RecienCreada"}

\* What buscarCuenta returns: a row of `accounts`, dates as epochs (0 = NULL).
Cuenta ==
    [encontrada : BOOLEAN, id : Nat, nivelGm : Nat, baneada : BOOLEAN,
     hashContrasena : Hashes, baneadaHasta : Nat, suscripcionHasta : Nat,
     creadaEpoch : Nat]

\* The default Cuenta{}: no such user, or no answer from MySQL.
CuentaVacia ==
    [encontrada |-> FALSE, id |-> 0, nivelGm |-> 0, baneada |-> FALSE,
     hashContrasena |-> <<>>, baneadaHasta |-> 0, suscripcionHasta |-> 0,
     creadaEpoch |-> 0]

\* The client salts bytes 0, 4, 8, ... of the hash: only the others count.
contrasenaCoincide(recibido, guardado) ==
    /\ recibido # <<>>
    /\ Len(recibido) = Len(guardado)
    /\ \A b \in 0 .. Len(recibido) - 1 :
          b % 4 # 0 => recibido[b + 1] = guardado[b + 1]

contrasenaIncorrecta(c, hash) ==
    IF c.hashContrasena # <<>>
    THEN ~ contrasenaCoincide(hash, c.hashContrasena)
    ELSE ExigirContrasena

\* The order of the tests decides which reason wins.
evaluarEstado(c, hash, t, enUso) ==
    IF Mantenimiento /\ c.nivelGm = 0 THEN "EnMantenimiento"
    ELSE IF ~ c.encontrada THEN "NoExiste"
    ELSE IF /\ c.nivelGm = 0 /\ c.creadaEpoch # 0
            /\ t < c.creadaEpoch + Activacion THEN "RecienCreada"
    ELSE IF c.baneada THEN "Baneada"
    ELSE IF c.baneadaHasta > t THEN "BaneadaTemporal"
    ELSE IF contrasenaIncorrecta(c, hash) THEN "ContrasenaIncorrecta"
    ELSE IF c.suscripcionHasta # 0 /\ c.suscripcionHasta < t
         THEN "SinTiempoDeJuego"
    ELSE IF enUso THEN "YaConectada"
    ELSE "Ok"

\* The code of LOGINREJECTED; several states share DATOS_INCORRECTOS (1).
estadoARechazo(estado) ==
    CASE estado = "YaConectada"      -> 2
      [] estado = "SinTiempoDeJuego" -> 3
      [] estado = "EnMantenimiento"  -> 5
      [] estado = "BaneadaTemporal"  -> 7
      [] estado = "Baneada"          -> 10
      [] OTHER                       -> 1
==============================================================================
