--------------------------- MODULE MCServidorLogin ---------------------------
(***************************************************************************)
(* Small instances of ServidorLogin.  One tick of the clock stands for the *)
(* 60 s of CADUCIDAD_USO divided by CaducidadUso.                          *)
(***************************************************************************)
EXTENDS ServidorLogin

\* Hashes of three bytes: byte 0 is salted.
Buena     == <<7, 1, 2>>
Resalada  == <<9, 1, 2>>
Mala      == <<7, 1, 3>>
MCHashes  == {<<>>, Buena, Resalada, Mala}

MCIp == [k \in {"a1", "a2", "b1"} |-> IF k = "b1" THEN "b" ELSE "a"]

\* An ordinary account, and one that an administrator has banned until time 2.
Normal(id) ==
    [encontrada |-> TRUE, id |-> id, nivelGm |-> 0, baneada |-> FALSE,
     hashContrasena |-> Buena, baneadaHasta |-> 0, suscripcionHasta |-> 0,
     creadaEpoch |-> 0]
HastaDos(id)  == [Normal(id) EXCEPT !.baneadaHasta = 2]

FilasUna == [u \in {"ana"} |-> {Normal(1)}]
FilasDos == [u \in {"ana", "luis"} |-> IF u = "ana" THEN {Normal(1)} ELSE {Normal(2)}]
FilasPasos == [u \in {"ana"} |-> {Normal(1), HastaDos(1)}]

\* "largo" is a name over 31 characters; what is left of it is "y".
MCNombres == {"Recluso", "x", "y", "largo"}
MCCorto   == [n \in MCNombres |-> IF n = "largo" THEN "y" ELSE n]

\* Without characters, one name is enough.
UnNombre == {"Recluso"}
UnCorto  == [n \in UnNombre |-> n]

Login(h)  == [op |-> "LOGIN", hash |-> h]
Crear(n)  == [op |-> "CREAR_PERSONAJE", datos |-> n]
Pulsar(i) == [op |-> "JUGAR", pj |-> i]
De(op)    == [op |-> op]

\* Sessions: good and wrong passwords, heartbeats, and the two ways in.
DatosSesiones == {<<>>, <<Login(Resalada)>>, <<Login(Mala)>>}
DatosPasos ==
    {<<Login(Resalada)>>, <<Login(Mala), De("LATIDO")>>,
     <<De("LATIDO"), De("PIDE_SERVIDORES")>>,
     <<Pulsar(1), De("SELECCIONAR")>>, <<De("SELECCIONAR"), De("OTRO")>>}
DatosPersonajes ==
    {<<Login(Buena)>>, <<Crear("y")>>, <<Crear("largo"), Crear("x")>>, <<Crear("")>>,
     <<Crear(SinBloque)>>}
==============================================================================
