---------------------------- MODULE ServicioLogin ----------------------------
(***************************************************************************)
(* What the login server promises, seen from its clients: sessions whose   *)
(* ids are never given twice, and on each session at most one verdict on   *)
(* the LOGIN, one acceptance and one entry into the game.  There is no     *)
(* acceptance before a verdict, and nothing is said to a session that was  *)
(* closed or replaced.                                                     *)
(***************************************************************************)
EXTENDS Integers

CONSTANT Claves   \* the endpoints of the clients

VARIABLES
    abiertas,   \* the session of each endpoint, or 0
    ultima,     \* the last session id given
    dadas       \* the answers given: session, message id and class

vars == <<abiertas, ultima, dadas>>

Init ==
    /\ abiertas = [k \in Claves |-> 0]
    /\ ultima = 0
    /\ dadas = {}

\* A client (re)connects: its endpoint gets a session never seen before.
Abrir(k) ==
    /\ ultima' = ultima + 1
    /\ abiertas' = [abiertas EXCEPT ![k] = ultima']
    /\ UNCHANGED dadas

Cerrar(k) ==
    /\ abiertas' = [abiertas EXCEPT ![k] = 0]
    /\ UNCHANGED <<ultima, dadas>>

Dada(sesion, clase) == \E d \in dadas : d.sesion = sesion /\ d.clase = clase

\* New answers to the session of k: of classes it has not been given, and an
\* acceptance only once the verdict is out.
Contestar(k) ==
    LET nuevas == dadas' \ dadas
    IN  /\ dadas \subseteq dadas'
        /\ abiertas[k] # 0
        /\ \A d \in nuevas :
              /\ d.sesion = abiertas[k]
              /\ ~ Dada(abiertas[k], d.clase)
              /\ d.clase = "aceptacion" => Dada(abiertas[k], "veredicto")
              /\ \A e \in nuevas : e.clase = d.clase => e = d
        /\ UNCHANGED <<abiertas, ultima>>

Next == \E k \in Claves : Abrir(k) \/ Cerrar(k) \/ Contestar(k)

Spec == Init /\ [][Next]_vars
==============================================================================
