------------------------------- MODULE Registro -------------------------------
(***************************************************************************)
(* The start of the program and its log.  WinMain opens the log file,      *)
(* starts the servers and their threads and then runs the window; every    *)
(* thread calls registro::log, which hands the line to the window through  *)
(* the queue of the monitor and then writes it to the file.                *)
(*                                                                         *)
(* A line is <<thread, n>>, the n-th line of its thread; its text is Ancho *)
(* characters that name it.  A call of log is three steps, because only    *)
(* the queue is under a mutex: Empezar (format), Emitir, Escribir.         *)
(*                                                                         *)
(* The console is an EDIT control of Windows that is never sent            *)
(* EM_SETLIMITTEXT: it keeps the limit every EDIT is made with, about      *)
(* 30000 characters, and cuts what is inserted beyond it.                  *)
(***************************************************************************)
EXTENDS Naturals, Sequences, SequencesExt

CONSTANTS
    Principal,       \* the thread of WinMain
    Login, Updates, Mundo,
    MaxCola,         \* 5000 lines in the queue
    LimiteEdit,      \* characters an EDIT control takes by default
    MaxTexto,        \* 120000, beyond which appendConsola trims the console
    Recorte,         \* 60000, what is left of it when it is trimmed
    Ancho,           \* characters of a line with its end of line
    Contenido,       \* lines that prepararContenido logs
    PorPaquete,      \* how many lines a server logs for one datagram
    MaxLineas        \* bound on the lines each thread logs once the window is up

Servidores == {Login, Updates, Mundo}
Hilos == Servidores \cup {Principal}

ASSUME RegistroAssumption ==
    /\ Principal \notin Servidores
    /\ MaxCola \in Nat \ {0} /\ Ancho \in Nat \ {0} /\ Contenido \in Nat
    /\ MaxTexto \in Nat /\ Recorte \in 0 .. MaxTexto
    /\ LimiteEdit \in 0 .. MaxTexto
    /\ PorPaquete \in [Servidores -> SUBSET Nat]
    /\ MaxLineas \in [Hilos -> Nat]

VARIABLES
    arranque,      \* how far WinMain is in Guion
    salida,        \* "no", or how the program ends
    atado,         \* servers whose iniciar opened and bound the socket
    abierto,       \* g_archivoLog # nullptr
    pendientes,    \* per thread: lines it still logs before it goes on
    llamada,       \* per thread: the call of log in hand
    numero,        \* per thread: lines begun
    cola,          \* colaLog
    fichero,       \* the file, as lines
    consola,       \* the text of the console
    emitidas,      \* history: every line, in the order of emitirLog
    drenadas,      \* history: how many of them drenarLog had seen
    mostradas,     \* history: the lines given to the console
    tras           \* history: per line begun, the calls that were over by then

hilos == <<pendientes, llamada, numero, tras>>
registro == <<cola, fichero, consola, emitidas, drenadas, mostradas>>
winMain == <<arranque, salida, atado, abierto>>
vars == <<hilos, registro, winMain>>

-----------------------------------------------------------------------------
\* Mutant: the file is opened after the database.
Guion_AbreDespues ==
    <<"conectar", "abrir", "login", "updates", "mundo", "contenido", "correr", "hilos", "ventana">>

\* WinMain, from its first line to the loop of messages.
Guion ==
    <<"abrir", "conectar", "login", "updates", "mundo", "contenido", "correr", "hilos", "ventana">>

\* The lines WinMain logs before the window is up.
DelArranque == 6 + Contenido

Ninguna == [paso |-> "ninguna", linea |-> <<Principal, 0>>]
Linea == Hilos \X Nat

Init ==
    /\ arranque = 1 /\ salida = "no"
    /\ atado = {} /\ abierto = FALSE
    /\ pendientes = [h \in Hilos |-> 0]
    /\ llamada = [h \in Hilos |-> Ninguna]
    /\ numero = [h \in Hilos |-> 0]
    /\ cola = << >> /\ fichero = << >> /\ consola = << >>
    /\ emitidas = << >> /\ drenadas = 0 /\ mostradas = << >>
    /\ tras = << >>

-----------------------------------------------------------------------------
(* registro::log, in any thread.                                           *)

Viva == salida # "fin"

EnMano == {llamada[h].linea : h \in {g \in Hilos : llamada[g].paso # "ninguna"}}

Empezar(h) ==
    /\ Viva /\ pendientes[h] > 0 /\ llamada[h].paso = "ninguna"
    /\ LET l == <<h, numero[h] + 1>> IN
         /\ numero' = [numero EXCEPT ![h] = @ + 1]
         /\ llamada' = [llamada EXCEPT ![h] = [paso |-> "emitir", linea |-> l]]
         /\ tras' = [k \in DOMAIN tras \cup {l} |->
                       IF k = l THEN DOMAIN tras \ EnMano ELSE tras[k]]
    /\ UNCHANGED <<pendientes, registro, winMain>>

\* Mutant: the oldest line goes when the queue is full, not when it is over.
Encolada_AntesDeTiempo(l) ==
    LET c == Append(cola, l) IN IF Len(c) >= MaxCola THEN Tail(c) ELSE c

\* Mutant: nothing is dropped.
Encolada_SinLimite(l) == Append(cola, l)

\* Mutant: the line goes to the front.
Encolada_PorDelante(l) ==
    LET c == <<l>> \o cola IN IF Len(c) > MaxCola THEN Tail(c) ELSE c

\* The queue after emitirLog.
Encolada(l) ==
    LET c == Append(cola, l) IN IF Len(c) > MaxCola THEN Tail(c) ELSE c

Emitir(h) ==
    /\ Viva /\ llamada[h].paso = "emitir"
    /\ cola' = Encolada(llamada[h].linea)
    /\ emitidas' = Append(emitidas, llamada[h].linea)
    /\ llamada' = [llamada EXCEPT ![h].paso = "escribir"]
    /\ UNCHANGED <<pendientes, numero, tras, fichero, consola, drenadas, mostradas, winMain>>

Escribir(h) ==
    /\ Viva /\ llamada[h].paso = "escribir"
    /\ fichero' = IF abierto THEN Append(fichero, llamada[h].linea) ELSE fichero
    /\ llamada' = [llamada EXCEPT ![h] = Ninguna]
    /\ pendientes' = [pendientes EXCEPT ![h] = @ - 1]
    /\ UNCHANGED <<numero, tras, cola, consola, emitidas, drenadas, mostradas, winMain>>

-----------------------------------------------------------------------------
(* WinMain.  It goes on when it has logged what the step before says.      *)

Libre(h) == pendientes[h] = 0

En(punto) == salida = "no" /\ Guion[arranque] = punto /\ Libre(Principal)

\* The step is done, and k lines follow.
Anota(k) ==
    /\ pendientes' = [pendientes EXCEPT ![Principal] = k]
    /\ UNCHANGED <<llamada, numero, tras, registro>>

\* fopen may fail: nothing is then written to the file.
Abrir ==
    /\ En("abrir")
    /\ abierto' \in BOOLEAN
    /\ arranque' = arranque + 1
    /\ Anota(0)
    /\ UNCHANGED <<salida, atado>>

\* One line, whether MySQL answers or not.
Conectar ==
    /\ En("conectar")
    /\ arranque' = arranque + 1
    /\ Anota(1)
    /\ UNCHANGED <<salida, atado, abierto>>

\* One line, whether the socket was opened and bound or not.  Only the login
\* server's failure ends the program.
Iniciar(punto, s) ==
    /\ En(punto)
    /\ \E ok \in BOOLEAN :
         /\ atado' = IF ok THEN atado \cup {s} ELSE atado
         /\ salida' = IF s = Login /\ ~ok THEN "saliendo" ELSE "no"
    /\ arranque' = arranque + 1
    /\ Anota(1)
    /\ UNCHANGED abierto

prepararContenido ==
    /\ En("contenido")
    /\ arranque' = arranque + 1
    /\ Anota(Contenido)
    /\ UNCHANGED <<salida, atado, abierto>>

Correr ==
    /\ En("correr")
    /\ arranque' = arranque + 1
    /\ Anota(2)
    /\ UNCHANGED <<salida, atado, abierto>>

\* The three threads are detached and the window is made.
Lanzar ==
    /\ En("hilos")
    /\ arranque' = arranque + 1
    /\ UNCHANGED <<hilos, registro, salida, atado, abierto>>

-----------------------------------------------------------------------------
(* The window.                                                             *)

\* The text of some lines: Ancho characters of each.
Texto(lineas) == [k \in 1 .. Ancho * Len(lineas) |-> lineas[(k - 1) \div Ancho + 1]]

\* The first k characters of a text, or all of it.
Primeros(t, k) == SubSeq(t, 1, IF Len(t) <= k THEN Len(t) ELSE k)

\* Mutant: without EM_SETSEL the text goes in at the front.
EnEdit_SinSeleccion(t, s) == Primeros(s, LimiteEdit - Len(t)) \o t

\* EM_SETSEL to the end and EM_REPLACESEL: the text s after t, as far as it
\* fits in the control.
EnEdit(t, s) == t \o Primeros(s, LimiteEdit - Len(t))

\* The trim of appendConsola.  With the default limit no text is ever so long.
Recortado(t) == IF Len(t) > MaxTexto THEN SubSeq(t, Len(t) - Recorte + 1, Len(t)) ELSE t

\* drenarLog and appendConsola.
Refrescar ==
    /\ En("ventana")
    /\ consola' = IF cola = << >> THEN consola ELSE Recortado(EnEdit(consola, Texto(cola)))
    /\ cola' = << >>
    /\ mostradas' = mostradas \o cola
    /\ drenadas' = Len(emitidas)
    /\ UNCHANGED <<hilos, fichero, emitidas, winMain>>

\* Enter in the field of commands.
InputProc ==
    /\ En("ventana") /\ numero[Principal] < DelArranque + MaxLineas[Principal]
    /\ Anota(1)
    /\ UNCHANGED winMain

\* The last message: WinMain returns, the other threads still run.
CerrarVentana ==
    /\ En("ventana")
    /\ salida' = "saliendo"
    /\ UNCHANGED <<hilos, registro, arranque, atado, abierto>>

\* The process ends, with whatever the threads had in hand.
Terminar ==
    /\ salida = "saliendo" /\ Libre(Principal)
    /\ salida' = "fin"
    /\ UNCHANGED <<hilos, registro, arranque, atado, abierto>>

-----------------------------------------------------------------------------
\* ejecutar: the handler logs, or receive_from fails at once, for ever, when
\* the socket is not bound.
Recibir(s) ==
    /\ Viva /\ Guion[arranque] = "ventana" /\ Libre(s)
    /\ \E k \in (IF s \in atado THEN PorPaquete[s] ELSE {1}) :
         /\ numero[s] + k <= MaxLineas[s]
         /\ pendientes' = [pendientes EXCEPT ![s] = k]
    /\ UNCHANGED <<llamada, numero, tras, registro, winMain>>

Next ==
    \/ Abrir \/ Conectar
    \/ Iniciar("login", Login) \/ Iniciar("updates", Updates) \/ Iniciar("mundo", Mundo)
    \/ prepararContenido \/ Correr \/ Lanzar
    \/ Refrescar \/ InputProc \/ CerrarVentana \/ Terminar
    \/ \E h \in Hilos : Empezar(h) \/ Emitir(h) \/ Escribir(h)
    \/ \E s \in Servidores : Recibir(s)

Spec == Init /\ [][Next]_vars

-----------------------------------------------------------------------------
(* Properties.                                                             *)

EnCurso(h) == llamada[h].paso # "ninguna"

\* Types; the queue and the console never outgrow their limits, and every
\* thread has at most one line under way.
TypeOK ==
    /\ arranque \in 1 .. Len(Guion) /\ salida \in {"no", "saliendo", "fin"}
    /\ atado \subseteq Servidores /\ abierto \in BOOLEAN
    /\ pendientes \in [Hilos -> Nat] /\ numero \in [Hilos -> Nat]
    /\ llamada \in [Hilos -> [paso : {"ninguna", "emitir", "escribir"}, linea : Linea]]
    /\ \A h \in Hilos : EnCurso(h) => pendientes[h] > 0 /\ llamada[h].linea = <<h, numero[h]>>
    /\ cola \in Seq(Linea) /\ Len(cola) <= MaxCola
    /\ fichero \in Seq(Linea) /\ emitidas \in Seq(Linea) /\ mostradas \in Seq(Linea)
    /\ consola \in Seq(Linea) /\ Len(consola) <= LimiteEdit
    /\ drenadas \in 0 .. Len(emitidas)
    /\ DOMAIN tras \subseteq Linea

\* What waits for the window is the newest of what was logged since it last
\* looked: all of it, or MaxCola lines of it (emitirLog, drenarLog).
ColaFiel ==
    LET nuevas == Len(emitidas) - drenadas
        k == IF nuevas <= MaxCola THEN nuevas ELSE MaxCola
    IN  cola = SubSeq(emitidas, Len(emitidas) - k + 1, Len(emitidas))

\* The console is the first LimiteEdit characters of all the text given to it,
\* however many times the window drained the queue and however a line is cut: it
\* has no hole and nothing twice, but what comes after the control is full is
\* lost from the window for good, because the trim of appendConsola that should
\* make room for it is never reached.
ConsolaFiel == consola = Primeros(Texto(mostradas), LimiteEdit)

\* a stands before b in s, or b is not there.
Antes(a, b, s) ==
    \A j \in 1 .. Len(s) : s[j] = b =>
        \/ \E i \in 1 .. j - 1 : s[i] = a
        \/ \A i \in 1 .. Len(s) : s[i] # a

\* A line whose call of log was over before another call began comes before it
\* both in the window and in the file, whichever the threads: only calls that
\* overlap may be swapped (registro::log formats before it takes the mutex).
OrdenReal ==
    \A b \in DOMAIN tras : \A a \in tras[b] :
        Antes(a, b, mostradas \o cola) /\ Antes(a, b, fichero)

\* With the log file open, every line that reached the queue is in the file, but
\* those a thread has in hand: at most one per thread, even when the program ends
\* while the detached threads run.  In the file no line is without its emission.
FicheroAlDia ==
    abierto =>
        LET faltan == ToSet(emitidas) \ ToSet(fichero) IN
        /\ ToSet(fichero) \subseteq ToSet(emitidas)
        /\ \A l \in faltan : \E h \in Hilos :
             llamada[h] = [paso |-> "escribir", linea |-> l]
==============================================================================
