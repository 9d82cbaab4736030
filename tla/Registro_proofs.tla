--------------------------- MODULE Registro_proofs ---------------------------
(***************************************************************************)
(* What the queue of the window, its console and the log file hold, for    *)
(* any number of lines logged at the same time by the threads, and any     *)
(* limits.  Three invariants, each on top of the first: Inv says what the  *)
(* queue and the file hold, Resto /\ ConsolaFiel what the console shows,   *)
(* character by character, and Ordenes in which order.                     *)
(***************************************************************************)
EXTENDS Registro, TLAPS

Llamada == [paso : {"ninguna", "emitir", "escribir"}, linea : Linea]

Tipos ==
    /\ pendientes \in [Hilos -> Nat]
    /\ numero \in [Hilos -> Nat]
    /\ llamada \in [Hilos -> Llamada]
    /\ \A h \in Hilos : llamada[h].paso # "ninguna" =>
          llamada[h].linea = <<h, numero[h]>> /\ pendientes[h] > 0
    /\ cola \in Seq(Linea) /\ fichero \in Seq(Linea) /\ emitidas \in Seq(Linea)
    /\ drenadas \in Nat /\ drenadas <= Len(emitidas)
    /\ arranque \in 1 .. 9

\* How many lines wait for the window.
Espera ==
    IF Len(emitidas) - drenadas <= MaxCola THEN Len(emitidas) - drenadas ELSE MaxCola

\* ColaFiel, line by line.
Ultimas ==
    /\ Len(cola) = Espera
    /\ \A j \in 1 .. Espera : cola[j] = emitidas[Len(emitidas) - Espera + j]

\* Nobody logs before the file is open.
Callados ==
    arranque = 1 =>
        /\ emitidas = << >> /\ fichero = << >>
        /\ \A h \in Hilos : pendientes[h] = 0

\* A line that its thread still has to write was emitted.
Emitidas ==
    \A h \in Hilos : llamada[h].paso = "escribir" => llamada[h].linea \in ToSet(emitidas)

Inv == Tipos /\ Ultimas /\ Callados /\ Emitidas /\ FicheroAlDia

-----------------------------------------------------------------------------
LEMMA EnAbrir ==
    ASSUME NEW k \in 1 .. 9, Guion[k] = "abrir"
    PROVE  k = 1
  BY DEF Guion

LEMMA DespuesDeAbrir ==
    ASSUME NEW k \in 1 .. 9, NEW p, Guion[k] = p, p # "abrir", p # "ventana"
    PROVE  k # 1 /\ k + 1 \in 1 .. 9 /\ k + 1 # 1
  BY DEF Guion

LEMMA EnVentana ==
    ASSUME NEW k \in 1 .. 9, Guion[k] = "ventana"
    PROVE  k # 1
  BY DEF Guion

LEMMA Anadir ==
    ASSUME NEW S, NEW s \in Seq(S), NEW e \in S
    PROVE  ToSet(Append(s, e)) = ToSet(s) \cup {e}
  <1> DEFINE a == Append(s, e)
             n == Len(s)
  <1>1. /\ n \in Nat /\ DOMAIN s = 1 .. n /\ DOMAIN a = 1 .. n + 1
        /\ a[n + 1] = e /\ \A i \in 1 .. n : a[i] = s[i]
    OBVIOUS
  <1>2. ToSet(a) = {a[i] : i \in 1 .. n + 1} /\ ToSet(s) = {s[i] : i \in 1 .. n}
    BY <1>1 DEF ToSet
  <1> HIDE DEF a, n
  <1>3. n + 1 \in 1 .. n + 1 /\ \A i \in 1 .. n + 1 : i = n + 1 \/ i \in 1 .. n
    BY <1>1
  <1>4. \A i \in 1 .. n : i \in 1 .. n + 1
    BY <1>1
  <1>5. ToSet(a) = ToSet(s) \cup {e}
    BY <1>1, <1>2, <1>3, <1>4
  <1> QED
    BY <1>5 DEF a

LEMMA RegistroInit == Init => Inv
  <1> SUFFICES ASSUME Init PROVE Inv
    OBVIOUS
  <1>1. Principal \in Hilos /\ Ninguna \in Llamada /\ Ninguna.paso = "ninguna"
    BY DEF Hilos, Ninguna, Llamada, Linea
  <1>2. Tipos
    BY <1>1 DEF Init, Tipos
  <1>3. Ultimas
    BY RegistroAssumption DEF Init, Ultimas, Espera
  <1>4. Callados /\ Emitidas /\ FicheroAlDia
    BY <1>1 DEF Init, Callados, Emitidas, FicheroAlDia
  <1> QED
    BY <1>2, <1>3, <1>4 DEF Inv

-----------------------------------------------------------------------------
(* The three parts of a call.                                              *)

LEMMA PasoEmpezar ==
    ASSUME Inv, NEW h \in Hilos, Empezar(h)
    PROVE  Inv'
  <1> DEFINE l == <<h, numero[h] + 1>>
  <1>1. /\ llamada' = [llamada EXCEPT ![h] = [paso |-> "emitir", linea |-> l]]
        /\ numero' = [numero EXCEPT ![h] = @ + 1]
        /\ pendientes[h] > 0 /\ llamada[h].paso = "ninguna"
        /\ UNCHANGED <<pendientes, cola, fichero, emitidas, drenadas, arranque, abierto>>
    BY DEF Empezar, registro, winMain
  <1>2. l \in Linea
    BY DEF Inv, Tipos, Linea
  <1>3. Tipos'
    <2>1. llamada' \in [Hilos -> Llamada] /\ numero' \in [Hilos -> Nat]
      BY <1>1, <1>2 DEF Inv, Tipos, Llamada
    <2>2. \A g \in Hilos : llamada'[g].paso # "ninguna" =>
             llamada'[g].linea = <<g, numero'[g]>> /\ pendientes'[g] > 0
      BY <1>1 DEF Inv, Tipos
    <2> QED
      BY <1>1, <2>1, <2>2 DEF Inv, Tipos
  <1>4. Ultimas'
    BY <1>1 DEF Inv, Ultimas, Espera
  <1>5. Callados'
    BY <1>1 DEF Inv, Callados
  <1>6. \A g \in Hilos : llamada'[g].paso = "escribir" => g # h /\ llamada'[g] = llamada[g]
    BY <1>1 DEF Inv, Tipos
  <1>7. \A g \in Hilos : llamada[g].paso = "escribir" => llamada'[g] = llamada[g]
    BY <1>1 DEF Inv, Tipos
  <1>8. Emitidas'
    BY <1>1, <1>6 DEF Inv, Emitidas
  <1>9. FicheroAlDia'
    BY <1>1, <1>7 DEF Inv, FicheroAlDia
  <1> QED
    BY <1>3, <1>4, <1>5, <1>8, <1>9 DEF Inv

\* Espera and Ultimas one line later.
LEMMA EsperaTrasEmitir ==
    ASSUME NEW n \in Nat, drenadas \in Nat, drenadas' = drenadas, Len(emitidas') = n + 1
    PROVE  Espera' = (IF n + 1 - drenadas <= MaxCola THEN n + 1 - drenadas ELSE MaxCola)
  BY RegistroAssumption DEF Espera

LEMMA UltimasTrasEmitir ==
    ASSUME NEW n \in Nat, Len(emitidas') = n + 1, Len(cola') = Espera',
           \A j \in 1 .. Espera' : cola'[j] = emitidas'[n + 1 - Espera' + j]
    PROVE  Ultimas'
  BY DEF Ultimas

LEMMA PasoEmitir ==
    ASSUME Inv, NEW h \in Hilos, Emitir(h)
    PROVE  Inv'
  <1> DEFINE l == llamada[h].linea
  <1>1. /\ llamada' = [llamada EXCEPT ![h].paso = "escribir"]
        /\ llamada[h].paso = "emitir"
        /\ emitidas' = Append(emitidas, l)
        /\ cola' = Encolada(l)
        /\ UNCHANGED <<pendientes, numero, fichero, drenadas, arranque, abierto>>
    BY DEF Emitir, winMain
  <1>2. l \in Linea /\ llamada[h] \in Llamada
    BY DEF Inv, Tipos, Llamada
  <1>3. llamada'[h] = [paso |-> "escribir", linea |-> l]
    BY <1>1, <1>2 DEF Inv, Tipos, Llamada
  <1>4. \A g \in Hilos \ {h} : llamada'[g] = llamada[g]
    BY <1>1 DEF Inv, Tipos
  <1>5. /\ emitidas' \in Seq(Linea) /\ Len(emitidas') = Len(emitidas) + 1
        /\ emitidas'[Len(emitidas) + 1] = l
        /\ \A j \in 1 .. Len(emitidas) : emitidas'[j] = emitidas[j]
    BY <1>1, <1>2 DEF Inv, Tipos
  <1>6. Tipos' /\ Ultimas'
    <2> DEFINE c == Append(cola, l)
    <2>1. /\ c \in Seq(Linea) /\ Len(c) = Len(cola) + 1 /\ c[Len(cola) + 1] = l
          /\ \A j \in 1 .. Len(cola) : c[j] = cola[j]
      BY <1>2 DEF Inv, Tipos
    <2>3. cola' = IF Len(c) > MaxCola THEN Tail(c) ELSE c
      BY <1>1 DEF Encolada
    <2> HIDE DEF c
    <2>2. /\ Tail(c) \in Seq(Linea) /\ Len(Tail(c)) = Len(cola)
          /\ \A j \in 1 .. Len(cola) : Tail(c)[j] = c[j + 1]
      <3>1. Len(cola) \in Nat /\ c # << >>
        BY <2>1 DEF Inv, Tipos
      <3> QED
        BY <2>1, <3>1
    <2>4. cola' \in Seq(Linea)
      BY <2>1, <2>2, <2>3
    <2>5. llamada' \in [Hilos -> Llamada]
      BY <1>1, <1>2, <1>3 DEF Inv, Tipos, Llamada
    <2>6. \A g \in Hilos : llamada'[g].paso # "ninguna" =>
             llamada'[g].linea = <<g, numero'[g]>> /\ pendientes'[g] > 0
      BY <1>1, <1>3, <1>4 DEF Inv, Tipos
    <2>7. Tipos'
      BY <1>1, <1>5, <2>4, <2>5, <2>6 DEF Inv, Tipos
    <2> DEFINE n == Len(emitidas)
               k == Len(cola)
    <2>11. Ultimas /\ cola \in Seq(Linea) /\ emitidas \in Seq(Linea)
            /\ drenadas \in Nat /\ drenadas <= n
      BY DEF Inv, Tipos
    <2>8. /\ n \in Nat /\ k \in Nat /\ MaxCola \in Nat \ {0}
          /\ drenadas \in Nat /\ drenadas <= n
          /\ k = (IF n - drenadas <= MaxCola THEN n - drenadas ELSE MaxCola)
          /\ \A j \in 1 .. k : cola[j] = emitidas[n - k + j]
      <3>1. k = Espera /\ Espera = (IF n - drenadas <= MaxCola THEN n - drenadas ELSE MaxCola)
        BY <2>11 DEF Ultimas, Espera
      <3>2. n \in Nat /\ k \in Nat /\ MaxCola \in Nat \ {0}
        BY <2>11, RegistroAssumption
      <3>3. \A j \in 1 .. Espera : cola[j] = emitidas[n - Espera + j]
        BY <2>11 DEF Ultimas
      <3> QED
        BY <2>11, <3>1, <3>2, <3>3
    <2>12. /\ Len(c) = k + 1 /\ c[k + 1] = l
           /\ \A j \in 1 .. k : c[j] = cola[j] /\ Tail(c)[j] = c[j + 1]
           /\ Len(Tail(c)) = k
      BY <2>1, <2>2
    <2>13. /\ Len(emitidas') = n + 1 /\ emitidas'[n + 1] = l
           /\ \A j \in 1 .. n : emitidas'[j] = emitidas[j]
      BY <1>5
    <2>14. Espera' = (IF n + 1 - drenadas <= MaxCola THEN n + 1 - drenadas ELSE MaxCola)
      <3>1. drenadas' = drenadas /\ Len(emitidas') = n + 1
        BY <1>1, <2>13
      <3> HIDE DEF n
      <3> QED
        BY <2>8, <3>1, EsperaTrasEmitir
    <2>15. Len(cola') = Espera' /\ (\A j \in 1 .. Espera' : cola'[j] = emitidas'[n + 1 - Espera' + j])
           => Ultimas'
      <3>1. n \in Nat /\ Len(emitidas') = n + 1
        BY <2>8, <2>13
      <3> HIDE DEF n
      <3> QED
        BY <3>1, UltimasTrasEmitir
    <2> HIDE DEF n, k, l
    <2>9. CASE Len(c) > MaxCola
      <3>1. k = MaxCola /\ cola' = Tail(c) /\ Espera' = MaxCola
        BY <2>3, <2>8, <2>9, <2>12, <2>14
      <3>2. \A j \in 1 .. MaxCola : cola'[j] = emitidas'[n + 1 - MaxCola + j]
        <4> SUFFICES ASSUME NEW j \in 1 .. MaxCola
                     PROVE  cola'[j] = emitidas'[n + 1 - MaxCola + j]
          OBVIOUS
        <4>1. cola'[j] = c[j + 1]
          BY <2>12, <3>1
        <4>2. CASE j = MaxCola
          BY <2>8, <2>12, <2>13, <3>1, <4>1, <4>2
        <4>3. CASE j # MaxCola
          <5>3. j + 1 \in 1 .. k
            BY <2>8, <3>1, <4>3
          <5>1. c[j + 1] = cola[j + 1] /\ cola[j + 1] = emitidas[n - k + (j + 1)]
            BY <2>8, <2>12, <5>3
          <5>2. n - k + (j + 1) \in 1 .. n /\ n - k + (j + 1) = n + 1 - MaxCola + j
            BY <2>8, <3>1, <4>3
          <5> QED
            BY <2>13, <4>1, <5>1, <5>2
        <4> QED
          BY <4>2, <4>3
      <3> QED
        BY <2>7, <2>12, <2>15, <3>1, <3>2
    <2>10. CASE ~ (Len(c) > MaxCola)
      <3>1. cola' = c /\ Espera' = k + 1 /\ k = n - drenadas
        BY <2>3, <2>8, <2>10, <2>12, <2>14
      <3>2. \A j \in 1 .. k + 1 : cola'[j] = emitidas'[n + 1 - (k + 1) + j]
        <4> SUFFICES ASSUME NEW j \in 1 .. k + 1
                     PROVE  cola'[j] = emitidas'[n + 1 - (k + 1) + j]
          OBVIOUS
        <4>1. CASE j = k + 1
          BY <2>8, <2>12, <2>13, <3>1, <4>1
        <4>2. CASE j # k + 1
          <5>3. j \in 1 .. k
            BY <2>8, <4>2
          <5>1. c[j] = cola[j] /\ cola[j] = emitidas[n - k + j]
            BY <2>8, <2>12, <5>3
          <5>2. n - k + j \in 1 .. n /\ n - k + j = n + 1 - (k + 1) + j
            BY <2>8, <3>1, <4>2
          <5> QED
            BY <2>13, <3>1, <5>1, <5>2
        <4> QED
          BY <4>1, <4>2
      <3> QED
        BY <2>7, <2>12, <2>15, <3>1, <3>2
    <2> QED
      BY <2>7, <2>9, <2>10
  <1>7. Callados'
    BY <1>1 DEF Inv, Callados, Tipos
  <1>8. ToSet(emitidas') = ToSet(emitidas) \cup {l}
    BY <1>1, <1>2, Anadir DEF Inv, Tipos
  <1>9. Emitidas'
    BY <1>3, <1>4, <1>8 DEF Inv, Emitidas
  <1>10. FicheroAlDia'
    <2>1. ASSUME NEW g \in Hilos, NEW x, llamada[g] = [paso |-> "escribir", linea |-> x]
          PROVE  llamada'[g] = llamada[g]
      <3>1. g # h
        BY <1>1, <2>1
      <3> QED
        BY <1>4, <3>1
    <2> QED
      BY <1>1, <1>3, <1>8, <2>1 DEF Inv, FicheroAlDia
  <1> QED
    BY <1>6, <1>7, <1>9, <1>10 DEF Inv

LEMMA PasoEscribir ==
    ASSUME Inv, NEW h \in Hilos, Escribir(h)
    PROVE  Inv'
  <1> DEFINE l == llamada[h].linea
  <1>1. /\ llamada' = [llamada EXCEPT ![h] = Ninguna]
        /\ llamada[h].paso = "escribir"
        /\ pendientes' = [pendientes EXCEPT ![h] = @ - 1]
        /\ fichero' = IF abierto THEN Append(fichero, l) ELSE fichero
        /\ UNCHANGED <<numero, cola, emitidas, drenadas, arranque, abierto>>
    BY DEF Escribir, winMain
  <1>2. l \in Linea /\ l = <<h, numero[h]>> /\ pendientes[h] > 0 /\ l \in ToSet(emitidas)
    BY <1>1 DEF Inv, Tipos, Llamada, Emitidas
  <1>3. Ninguna \in Llamada /\ Ninguna.paso = "ninguna"
    BY DEF Hilos, Ninguna, Llamada, Linea
  <1>4. \A g \in Hilos : IF g = h THEN llamada'[g] = Ninguna
                         ELSE llamada'[g] = llamada[g] /\ pendientes'[g] = pendientes[g]
    BY <1>1 DEF Inv, Tipos
  <1>5. Tipos'
    <2>1. pendientes' \in [Hilos -> Nat] /\ llamada' \in [Hilos -> Llamada]
      BY <1>1, <1>2, <1>3 DEF Inv, Tipos
    <2>2. \A g \in Hilos : llamada'[g].paso # "ninguna" =>
             llamada'[g].linea = <<g, numero'[g]>> /\ pendientes'[g] > 0
      BY <1>1, <1>3, <1>4 DEF Inv, Tipos
    <2> QED
      BY <1>1, <1>2, <2>1, <2>2 DEF Inv, Tipos
  <1>6. Ultimas'
    BY <1>1 DEF Inv, Ultimas, Espera
  <1>7. Callados'
    BY <1>1, <1>2 DEF Inv, Callados, Tipos
  <1>8. Emitidas'
    BY <1>1, <1>3, <1>4 DEF Inv, Emitidas
  <1>9. FicheroAlDia'
    <2> SUFFICES ASSUME abierto
                 PROVE  /\ ToSet(fichero') \subseteq ToSet(emitidas)
                        /\ \A x \in ToSet(emitidas) \ ToSet(fichero') : \E g \in Hilos :
                              llamada'[g] = [paso |-> "escribir", linea |-> x]
      BY <1>1 DEF FicheroAlDia
    <2>1. ToSet(fichero') = ToSet(fichero) \cup {l}
      <3>1. fichero' = Append(fichero, l) /\ fichero \in Seq(Linea)
        BY <1>1 DEF Inv, Tipos
      <3> QED
        BY <1>2, <3>1, Anadir
    <2>2. ToSet(fichero) \subseteq ToSet(emitidas)
      BY DEF Inv, FicheroAlDia
    <2>3. ASSUME NEW x \in ToSet(emitidas) \ ToSet(fichero')
          PROVE  \E g \in Hilos : llamada'[g] = [paso |-> "escribir", linea |-> x]
      <3>1. PICK g \in Hilos : llamada[g] = [paso |-> "escribir", linea |-> x]
        BY <2>1, <2>3 DEF Inv, FicheroAlDia
      <3>2. g # h
        BY <2>1, <2>3, <3>1
      <3> QED
        BY <1>4, <3>1, <3>2
    <2> QED
      BY <1>2, <2>1, <2>2, <2>3
  <1> QED
    BY <1>5, <1>6, <1>7, <1>8, <1>9 DEF Inv

-----------------------------------------------------------------------------
(* WinMain, the window and the servers.                                    *)

\* A step that only says how many lines a thread logs next.
LEMMA SoloPendientes ==
    ASSUME Inv, NEW h \in Hilos, NEW k \in Nat, pendientes[h] = 0,
           pendientes' = [pendientes EXCEPT ![h] = k],
           UNCHANGED <<llamada, numero, cola, fichero, emitidas, drenadas, abierto>>,
           arranque' \in 1 .. 9, arranque' # 1
    PROVE  Inv'
  <1>1. llamada[h].paso = "ninguna"
    BY DEF Inv, Tipos
  <1>2. Tipos'
    BY <1>1 DEF Inv, Tipos
  <1>3. Ultimas' /\ Callados' /\ Emitidas' /\ FicheroAlDia'
    BY DEF Inv, Ultimas, Espera, Callados, Emitidas, FicheroAlDia
  <1> QED
    BY <1>2, <1>3 DEF Inv

LEMMA PasoAbrir == Inv /\ Abrir => Inv'
  <1> SUFFICES ASSUME Inv, Abrir PROVE Inv'
    OBVIOUS
  <1>1. /\ arranque = 1 /\ arranque' = 2
        /\ pendientes' = [pendientes EXCEPT ![Principal] = 0]
        /\ UNCHANGED <<llamada, numero, cola, fichero, emitidas, drenadas>>
    BY EnAbrir DEF Abrir, En, Anota, registro, Inv, Tipos
  <1>2. Principal \in Hilos
    BY DEF Hilos
  <1>3. pendientes' = pendientes /\ emitidas = << >> /\ fichero = << >>
    BY <1>1, <1>2 DEF Inv, Callados, Tipos
  <1>4. Tipos'
    <2>1. /\ arranque' = 2
          /\ UNCHANGED <<pendientes, llamada, numero, cola, fichero, emitidas, drenadas>>
      BY <1>1, <1>3
    <2>2. arranque' \in 1 .. 9
      BY <2>1
    <2> QED
      BY <2>1, <2>2 DEF Inv, Tipos
  <1>6. Ultimas' /\ Callados' /\ Emitidas'
    <2>1. Ultimas'
      BY <1>1 DEF Inv, Ultimas, Espera
    <2>2. Callados'
      BY <1>1 DEF Callados
    <2>3. Emitidas'
      BY <1>1 DEF Inv, Emitidas
    <2> QED
      BY <2>1, <2>2, <2>3
  <1>5. FicheroAlDia'
    BY <1>1, <1>3 DEF FicheroAlDia, ToSet
  <1> QED
    BY <1>4, <1>5, <1>6 DEF Inv

LEMMA PasoArranque ==
    ASSUME Inv,
           Conectar \/ Iniciar("login", Login) \/ Iniciar("updates", Updates)
              \/ Iniciar("mundo", Mundo) \/ prepararContenido \/ Correr
    PROVE  Inv'
  <1>1. PICK p \in {"conectar", "login", "updates", "mundo", "contenido", "correr"},
             k \in Nat :
           En(p) /\ arranque' = arranque + 1 /\ Anota(k) /\ UNCHANGED abierto
    BY RegistroAssumption DEF Conectar, Iniciar, prepararContenido, Correr
  <1>2. arranque' \in 1 .. 9 /\ arranque' # 1
    BY <1>1, DespuesDeAbrir DEF En, Inv, Tipos
  <1>3. Principal \in Hilos /\ pendientes[Principal] = 0
    BY <1>1 DEF Hilos, En, Libre
  <1> QED
    BY <1>1, <1>2, <1>3, SoloPendientes DEF Anota, registro

LEMMA PasoLanzar == Inv /\ Lanzar => Inv'
  <1> SUFFICES ASSUME Inv, Lanzar PROVE Inv'
    OBVIOUS
  <1>1. arranque' \in 1 .. 9 /\ arranque' # 1
    BY DespuesDeAbrir DEF Lanzar, En, Inv, Tipos
  <1>2. UNCHANGED <<pendientes, llamada, numero, cola, fichero, emitidas, drenadas, abierto>>
    BY DEF Lanzar, hilos, registro
  <1> QED
    BY <1>1, <1>2 DEF Inv, Tipos, Ultimas, Espera, Callados, Emitidas, FicheroAlDia

LEMMA PasoRefrescar == Inv /\ Refrescar => Inv'
  <1> SUFFICES ASSUME Inv, Refrescar PROVE Inv'
    OBVIOUS
  <1>1. /\ cola' = << >> /\ drenadas' = Len(emitidas)
        /\ UNCHANGED <<pendientes, llamada, numero, fichero, emitidas, arranque, abierto>>
    BY DEF Refrescar, hilos, winMain
  <1>2. Tipos'
    BY <1>1 DEF Inv, Tipos
  <1>3. Ultimas'
    BY <1>1, RegistroAssumption DEF Inv, Tipos, Ultimas, Espera
  <1>4. Callados' /\ Emitidas' /\ FicheroAlDia'
    BY <1>1 DEF Inv, Callados, Emitidas, FicheroAlDia
  <1> QED
    BY <1>2, <1>3, <1>4 DEF Inv

LEMMA PasoOrden == Inv /\ InputProc => Inv'
  <1> SUFFICES ASSUME Inv, InputProc PROVE Inv'
    OBVIOUS
  <1>1. arranque' \in 1 .. 9 /\ arranque' # 1
    BY EnVentana DEF InputProc, En, winMain, Inv, Tipos
  <1>2. Principal \in Hilos /\ pendientes[Principal] = 0
    BY DEF Hilos, InputProc, En, Libre
  <1> QED
    BY <1>1, <1>2, SoloPendientes DEF InputProc, Anota, registro, winMain

LEMMA PasoRecibir ==
    ASSUME Inv, NEW s \in Servidores, Recibir(s)
    PROVE  Inv'
  <1>1. PICK k \in Nat : pendientes' = [pendientes EXCEPT ![s] = k]
    BY RegistroAssumption DEF Recibir
  <1>2. arranque' \in 1 .. 9 /\ arranque' # 1
    BY EnVentana DEF Recibir, winMain, Inv, Tipos
  <1>3. s \in Hilos /\ pendientes[s] = 0
    BY DEF Hilos, Recibir, Libre
  <1> QED
    BY <1>1, <1>2, <1>3, SoloPendientes DEF Recibir, registro, winMain

LEMMA PasoQuieto == Inv /\ (CerrarVentana \/ Terminar \/ UNCHANGED vars) => Inv'
  <1> SUFFICES ASSUME Inv, CerrarVentana \/ Terminar \/ UNCHANGED vars PROVE Inv'
    OBVIOUS
  <1>1. UNCHANGED <<pendientes, llamada, numero, cola, fichero, emitidas, drenadas,
                    arranque, abierto>>
    BY DEF CerrarVentana, Terminar, vars, hilos, registro, winMain
  <1> QED
    BY <1>1 DEF Inv, Tipos, Ultimas, Espera, Callados, Emitidas, FicheroAlDia

LEMMA RegistroPaso == Inv /\ [Next]_vars => Inv'
  BY PasoAbrir, PasoArranque, PasoLanzar, PasoRefrescar, PasoOrden, PasoRecibir,
     PasoQuieto, PasoEmpezar, PasoEmitir, PasoEscribir DEF Next

LEMMA RegistroInvariante == Spec => []Inv
  BY RegistroInit, RegistroPaso, PTL DEF Spec

-----------------------------------------------------------------------------
\* The queue holds the newest lines logged since the window last looked, all of
\* them or MaxCola of them, whichever threads log and however late the window is.
THEOREM ColaSiempreFiel == Spec => []ColaFiel
  <1>1. Inv => ColaFiel
    <2> SUFFICES ASSUME Inv PROVE ColaFiel
      OBVIOUS
    <2> DEFINE n == Len(emitidas)
               k == Espera
               s == SubSeq(emitidas, n - k + 1, n)
    <2>1. n \in Nat /\ k \in Nat /\ k <= n /\ cola \in Seq(Linea) /\ emitidas \in Seq(Linea)
      BY RegistroAssumption DEF Inv, Tipos, Espera
    <2>2. Len(cola) = k /\ \A j \in 1 .. k : cola[j] = emitidas[n - k + j]
      BY DEF Inv, Ultimas
    <2> HIDE DEF k
    <2>3. s \in Seq(Linea) /\ Len(s) = k /\ \A j \in 1 .. k : s[j] = emitidas[n - k + j]
      BY <2>1
    <2>4. cola = s
      BY <2>1, <2>2, <2>3
    <2> QED
      BY <2>4 DEF ColaFiel, Espera, k
  <1> QED
    BY <1>1, RegistroInvariante, PTL

\* Once the file is open, what was emitted is in it, except at most one line in
\* the hands of each thread; and what is in it was emitted.
THEOREM FicheroSiempreAlDia == Spec => []FicheroAlDia
  <1>1. Inv => FicheroAlDia
    BY DEF Inv
  <1> QED
    BY <1>1, RegistroInvariante, PTL

-----------------------------------------------------------------------------
\* Lines one after the others.
LEMMA Junta ==
    ASSUME NEW p \in Seq(Linea), NEW q \in Seq(Linea)
    PROVE  /\ p \o q \in Seq(Linea) /\ Len(p \o q) = Len(p) + Len(q)
           /\ Len(p) \in Nat /\ Len(q) \in Nat
           /\ \A j \in 1 .. Len(p) : (p \o q)[j] = p[j]
           /\ \A j \in 1 .. Len(q) : (p \o q)[Len(p) + j] = q[j]
  <1>1. p \o q \in Seq(Linea) /\ Len(p \o q) = Len(p) + Len(q)
        /\ Len(p) \in Nat /\ Len(q) \in Nat
    OBVIOUS
  <1>2. \A j \in 1 .. Len(p) : (p \o q)[j] = p[j]
    OBVIOUS
  <1>3. ASSUME NEW j \in 1 .. Len(q) PROVE (p \o q)[Len(p) + j] = q[j]
    <2>1. Len(p) + j \in 1 .. Len(p) + Len(q) /\ Len(p) + j > Len(p)
          /\ (Len(p) + j) - Len(p) = j
      BY <1>1
    <2> QED
      BY <2>1
  <1> QED
    BY <1>1, <1>2, <1>3

-----------------------------------------------------------------------------
(* The text of the console.                                                *)

LEMMA MultiplosMonotonos ==
    ASSUME NEW w \in Nat, NEW p \in Nat, NEW q \in Nat, p <= q
    PROVE  w * p <= w * q
  OBVIOUS

\* The quotient is the only multiple that fits.
LEMMA CocienteUnico ==
    ASSUME NEW w \in Nat \ {0}, NEW d \in Nat, NEW q \in Nat, w * q <= d, d < w * q + w
    PROVE  d \div w = q
  <1> DEFINE p == d \div w
  <1>1. p \in Nat /\ w * p <= d /\ d < w * p + w
    <2>1. p \in Nat /\ d = (w * p) + (d % w) /\ d % w \in 0 .. w - 1
      OBVIOUS
    <2> QED
      BY <2>1
  <1> HIDE DEF p
  <1>2. w * p \in Nat /\ w * q \in Nat
    BY <1>1
  <1>3. ~ (p + 1 <= q)
    <2> SUFFICES ASSUME p + 1 <= q PROVE FALSE
      OBVIOUS
    <2>1. w * (p + 1) <= w * q /\ w * (p + 1) = w * p + w
      BY <1>1, MultiplosMonotonos
    <2> QED
      BY <1>1, <1>2, <2>1
  <1>4. ~ (q + 1 <= p)
    <2> SUFFICES ASSUME q + 1 <= p PROVE FALSE
      OBVIOUS
    <2>1. w * (q + 1) <= w * p /\ w * (q + 1) = w * q + w
      BY <1>1, MultiplosMonotonos
    <2> QED
      BY <1>1, <1>2, <2>1
  <1>5. p = q
    BY <1>1, <1>3, <1>4
  <1> QED
    BY <1>5 DEF p

\* The character d after n lines, from 0 on, is of the line d \div w after them.
LEMMA Cociente ==
    ASSUME NEW w \in Nat \ {0}, NEW n \in Nat, NEW d \in Nat
    PROVE  /\ d \div w \in Nat
           /\ d < w * n => d \div w < n
           /\ (w * n + d) \div w = n + (d \div w)
  <1> DEFINE q == d \div w
  <1>1. q \in Nat /\ w * q <= d /\ d < w * q + w
    <2>1. q \in Nat /\ d = (w * q) + (d % w) /\ d % w \in 0 .. w - 1
      OBVIOUS
    <2> QED
      BY <2>1
  <1> HIDE DEF q
  <1>2. w * q \in Nat /\ w * n \in Nat
    BY <1>1
  <1>3. d < w * n => q < n
    <2> SUFFICES ASSUME d < w * n, n <= q PROVE FALSE
      BY <1>1
    <2>1. w * n <= w * q
      BY <1>1, MultiplosMonotonos
    <2> QED
      BY <1>1, <1>2, <2>1
  <1>4. (w * n + d) \div w = n + q
    <2>1. w * (n + q) = w * n + w * q /\ n + q \in Nat /\ w * n + d \in Nat
      BY <1>1, <1>2
    <2>2. w * (n + q) <= w * n + d /\ w * n + d < w * (n + q) + w
      BY <1>1, <1>2, <2>1
    <2> QED
      BY <2>1, <2>2, CocienteUnico
  <1> QED
    BY <1>1, <1>3, <1>4 DEF q

LEMMA TextoEs ==
    ASSUME NEW a \in Seq(Linea)
    PROVE  /\ Texto(a) \in Seq(Linea) /\ Len(Texto(a)) = Ancho * Len(a)
           /\ Ancho * Len(a) \in Nat
           /\ \A k \in 1 .. Ancho * Len(a) :
                 /\ (k - 1) \div Ancho + 1 \in 1 .. Len(a)
                 /\ Texto(a)[k] = a[(k - 1) \div Ancho + 1]
  <1> DEFINE n == Len(a)
             m == Ancho * n
  <1>1. n \in Nat /\ Ancho \in Nat \ {0}
    BY RegistroAssumption
  <1>2. m \in Nat
    BY <1>1
  <1>3. ASSUME NEW k \in 1 .. m PROVE (k - 1) \div Ancho + 1 \in 1 .. n
    <2>1. k - 1 \in Nat /\ k - 1 < Ancho * n
      BY <1>1, <1>2
    <2>2. (k - 1) \div Ancho \in Nat /\ (k - 1) \div Ancho < n
      BY <1>1, <2>1, Cociente
    <2> QED
      BY <1>1, <2>2
  <1>4. \A k \in 1 .. m : a[(k - 1) \div Ancho + 1] \in Linea
    BY <1>3
  <1>5. Texto(a) = [k \in 1 .. m |-> a[(k - 1) \div Ancho + 1]]
    BY DEF Texto
  <1> HIDE DEF m, n
  <1>6. Texto(a) \in Seq(Linea) /\ Len(Texto(a)) = m
    BY <1>2, <1>4, <1>5
  <1> QED
    BY <1>2, <1>3, <1>5, <1>6 DEF m, n

LEMMA TextoDeConcat ==
    ASSUME NEW a \in Seq(Linea), NEW b \in Seq(Linea)
    PROVE  Texto(a \o b) = Texto(a) \o Texto(b)
  <1> DEFINE n == Len(a)
             m == Len(b)
             c == a \o b
             A == Texto(a)
             B == Texto(b)
             C == Texto(c)
  <1>1. /\ n \in Nat /\ m \in Nat /\ Ancho \in Nat \ {0} /\ c \in Seq(Linea)
        /\ Len(c) = n + m
        /\ \A j \in 1 .. n : c[j] = a[j]
        /\ \A j \in 1 .. m : c[n + j] = b[j]
    BY RegistroAssumption
  <1>2. Ancho * n \in Nat /\ Ancho * m \in Nat /\ Ancho * (n + m) = Ancho * n + Ancho * m
    BY <1>1
  <1>3. /\ A \in Seq(Linea) /\ Len(A) = Ancho * n
        /\ \A k \in 1 .. Ancho * n : /\ (k - 1) \div Ancho + 1 \in 1 .. n
                                     /\ A[k] = a[(k - 1) \div Ancho + 1]
    BY TextoEs
  <1>4. /\ B \in Seq(Linea) /\ Len(B) = Ancho * m
        /\ \A k \in 1 .. Ancho * m : /\ (k - 1) \div Ancho + 1 \in 1 .. m
                                     /\ B[k] = b[(k - 1) \div Ancho + 1]
    BY TextoEs
  <1>5. /\ C \in Seq(Linea) /\ Len(C) = Ancho * n + Ancho * m
        /\ \A k \in 1 .. Ancho * n + Ancho * m : C[k] = c[(k - 1) \div Ancho + 1]
    <2>1. /\ C \in Seq(Linea) /\ Len(C) = Ancho * Len(c)
          /\ \A k \in 1 .. Ancho * Len(c) : C[k] = c[(k - 1) \div Ancho + 1]
      <3>1. c \in Seq(Linea)
        BY <1>1
      <3> HIDE DEF c
      <3> QED
        BY <3>1, TextoEs
    <2>2. Ancho * Len(c) = Ancho * n + Ancho * m
      BY <1>1, <1>2
    <2> HIDE DEF n, m, c, C
    <2> QED
      BY <2>1, <2>2
  <1> HIDE DEF n, m, c, A, B, C
  <1>6. ASSUME NEW k \in 1 .. Ancho * n PROVE C[k] = A[k]
    <2>1. k \in 1 .. Ancho * n + Ancho * m
      BY <1>2
    <2> QED
      BY <1>1, <1>3, <1>5, <2>1
  <1>7. ASSUME NEW k \in 1 .. Ancho * m PROVE C[Ancho * n + k] = B[k]
    <2> DEFINE q == (k - 1) \div Ancho
    <2>1. Ancho * n + k \in 1 .. Ancho * n + Ancho * m /\ k - 1 \in Nat
          /\ (Ancho * n + k) - 1 = Ancho * n + (k - 1)
      BY <1>2
    <2>2. (Ancho * n + (k - 1)) \div Ancho = n + q /\ q \in Nat
      BY <1>1, <2>1, Cociente
    <2>3. C[Ancho * n + k] = c[((Ancho * n + k) - 1) \div Ancho + 1]
      BY <1>5, <2>1
    <2>4. B[k] = b[q + 1] /\ q + 1 \in 1 .. m
      BY <1>4
    <2> HIDE DEF q
    <2>5. C[Ancho * n + k] = c[n + (q + 1)]
      <3>1. C[Ancho * n + k] = c[(Ancho * n + (k - 1)) \div Ancho + 1]
        BY <2>1, <2>3, Zenon
      <3>2. C[Ancho * n + k] = c[(n + q) + 1]
        BY <2>2, <3>1, Zenon
      <3>3. (n + q) + 1 = n + (q + 1)
        BY <1>1, <2>2
      <3> QED
        BY <3>2, <3>3, Zenon
    <2> QED
      BY <1>1, <2>4, <2>5
  <1> DEFINE D == A \o B
             x == Ancho * n
             y == Ancho * m
  <1>8. /\ x \in Nat /\ y \in Nat /\ A \in Seq(Linea) /\ B \in Seq(Linea)
        /\ Len(A) = x /\ Len(B) = y /\ C \in Seq(Linea) /\ Len(C) = x + y
        /\ \A k \in 1 .. x : C[k] = A[k]
        /\ \A k \in 1 .. y : C[x + k] = B[k]
    BY <1>2, <1>3, <1>4, <1>5, <1>6, <1>7
  <1> HIDE DEF x, y
  <1>9. /\ D \in Seq(Linea) /\ Len(D) = x + y
        /\ \A k \in 1 .. x : D[k] = A[k]
        /\ \A k \in 1 .. y : D[x + k] = B[k]
    <2>1. /\ D \in Seq(Linea) /\ Len(D) = Len(A) + Len(B)
          /\ \A k \in 1 .. Len(A) : D[k] = A[k]
          /\ \A k \in 1 .. Len(B) : D[Len(A) + k] = B[k]
      BY <1>8, Junta
    <2> HIDE DEF D
    <2> QED
      BY <1>8, <2>1
  <1> HIDE DEF D
  <1>10. ASSUME NEW k \in 1 .. x + y PROVE C[k] = D[k]
    <2>1. CASE k <= x
      BY <1>8, <1>9, <2>1
    <2>2. CASE k > x
      <3>1. PICK z \in 1 .. y : x + z = k
        <4>1. k - x \in 1 .. y /\ x + (k - x) = k
          BY <1>8, <2>2
        <4> QED
          BY <4>1
      <3> QED
        BY <1>8, <1>9, <3>1
    <2> QED
      BY <1>8, <2>1, <2>2
  <1>11. C = D
    BY <1>8, <1>9, <1>10
  <1> QED
    BY <1>11 DEF A, B, C, D, c

\* The first k characters, one by one.
LEMMA PrimerosEs ==
    ASSUME NEW s \in Seq(Linea), NEW k \in Nat
    PROVE  /\ Primeros(s, k) \in Seq(Linea)
           /\ Len(Primeros(s, k)) = IF Len(s) <= k THEN Len(s) ELSE k
           /\ Len(Primeros(s, k)) \in Nat /\ Len(Primeros(s, k)) <= k
           /\ Len(Primeros(s, k)) <= Len(s)
           /\ \A j \in 1 .. Len(Primeros(s, k)) : Primeros(s, k)[j] = s[j]
  <1> DEFINE n == Len(s)
             m == IF n <= k THEN n ELSE k
             P == SubSeq(s, 1, m)
  <1>1. n \in Nat /\ m \in Nat /\ m <= n /\ m <= k
    OBVIOUS
  <1>2. m = IF Len(s) <= k THEN Len(s) ELSE k
    OBVIOUS
  <1> HIDE DEF m
  <1>3. P \in Seq(Linea) /\ Len(P) = m /\ \A j \in 1 .. m : P[j] = s[j]
    BY <1>1
  <1>4. Primeros(s, k) = P
    BY <1>2 DEF Primeros
  <1> HIDE DEF P
  <1> QED
    BY <1>1, <1>2, <1>3, <1>4

LEMMA Detras ==
    ASSUME NEW x \in Nat, NEW y \in Nat, NEW j \in 1 .. x + y, j > x
    PROVE  j - x \in 1 .. y /\ x + (j - x) = j
  OBVIOUS

\* What is cut from the first text leaves no room for the second: filling the
\* control in two turns or in one gives the same.
LEMMA PrimerosDeJunta ==
    ASSUME NEW a \in Seq(Linea), NEW b \in Seq(Linea), NEW L \in Nat
    PROVE  Primeros(a, L) \o Primeros(b, L - Len(Primeros(a, L))) = Primeros(a \o b, L)
  <1> DEFINE n == Len(a)
             m == Len(b)
             A == Primeros(a, L)
             r == L - Len(A)
             B == Primeros(b, r)
             C == Primeros(a \o b, L)
             D == A \o B
             x == Len(A)
             y == Len(B)
  <1>1. /\ A \in Seq(Linea) /\ x \in Nat /\ x <= L /\ x <= n
        /\ x = (IF n <= L THEN n ELSE L)
        /\ \A j \in 1 .. x : A[j] = a[j]
    BY PrimerosEs
  <1>2. r \in Nat /\ r = L - x
    BY <1>1
  <1> HIDE DEF A, r, x
  <1>3. /\ B \in Seq(Linea) /\ y \in Nat /\ y <= r /\ y <= m
        /\ y = (IF m <= r THEN m ELSE r)
        /\ \A j \in 1 .. y : B[j] = b[j]
    BY <1>2, PrimerosEs
  <1>4. /\ a \o b \in Seq(Linea) /\ Len(a \o b) = n + m /\ n \in Nat /\ m \in Nat
        /\ \A j \in 1 .. n : (a \o b)[j] = a[j]
        /\ \A j \in 1 .. m : (a \o b)[n + j] = b[j]
    BY Junta
  <1>5. /\ C \in Seq(Linea) /\ Len(C) = (IF n + m <= L THEN n + m ELSE L)
        /\ \A j \in 1 .. Len(C) : C[j] = (a \o b)[j]
    <2>1. PICK c \in Seq(Linea) : c = a \o b
      BY <1>4
    <2>2. /\ Primeros(c, L) \in Seq(Linea)
          /\ Len(Primeros(c, L)) = (IF Len(c) <= L THEN Len(c) ELSE L)
          /\ \A j \in 1 .. Len(Primeros(c, L)) : Primeros(c, L)[j] = c[j]
      BY PrimerosEs
    <2>3. Len(c) = n + m /\ C = Primeros(c, L)
      BY <1>4, <2>1
    <2> HIDE DEF C, n, m
    <2> QED
      BY <2>1, <2>2, <2>3
  <1> HIDE DEF B, y
  <1>6. /\ D \in Seq(Linea) /\ Len(D) = x + y
        /\ \A j \in 1 .. x : D[j] = A[j]
        /\ \A j \in 1 .. y : D[x + j] = B[j]
    BY <1>1, <1>3, Junta DEF x, y
  <1> HIDE DEF C, D, n, m
  <1>7. Len(C) = x + y /\ x + y \in Nat
    BY <1>1, <1>2, <1>3, <1>4, <1>5
  <1>8. ASSUME NEW j \in 1 .. x + y PROVE D[j] = C[j]
    <2>1. CASE j <= x
      <3>1. j \in 1 .. x /\ j \in 1 .. n
        BY <1>1, <1>4, <2>1
      <3> QED
        BY <1>1, <1>4, <1>5, <1>6, <1>7, <3>1
    <2>2. CASE j > x
      <3>1. PICK z \in 1 .. y : x + z = j
        <4>1. j - x \in 1 .. y /\ x + (j - x) = j
          <5>1. x \in Nat /\ y \in Nat
            BY <1>1, <1>3
          <5> QED
            BY <5>1, <2>2, Detras
        <4> QED
          BY <4>1
      <3>2. z \in 1 .. m
        BY <1>3, <1>4, <3>1
      <3>3. x = n
        <4>1. r >= 1
          BY <1>2, <1>3, <3>1
        <4> QED
          BY <1>1, <1>2, <1>4, <4>1
      <3>4. D[j] = b[z]
        BY <1>3, <1>6, <3>1
      <3>5. C[j] = (a \o b)[n + z]
        BY <1>5, <1>7, <3>1, <3>3
      <3> QED
        BY <1>4, <3>2, <3>4, <3>5
    <2> QED
      BY <1>1, <1>3, <2>1, <2>2
  <1>9. D = C
    BY <1>5, <1>6, <1>7, <1>8
  <1> QED
    BY <1>9 DEF A, B, C, D, r

\* The types that Tipos leaves out.
Resto ==
    /\ salida \in {"no", "saliendo", "fin"} /\ atado \subseteq Servidores
    /\ abierto \in BOOLEAN /\ DOMAIN tras \subseteq Linea
    /\ mostradas \in Seq(Linea) /\ consola \in Seq(Linea) /\ Len(consola) <= LimiteEdit

LEMMA ConsolaInit == Init => Resto /\ ConsolaFiel
  <1> SUFFICES ASSUME Init PROVE Resto /\ ConsolaFiel
    OBVIOUS
  <1>1. consola = << >> /\ mostradas = << >> /\ tras = << >>
    BY DEF Init
  <1>2. << >> \in Seq(Linea) /\ Len(<< >>) = 0 /\ DOMAIN << >> = {}
    OBVIOUS
  <1>3. LimiteEdit \in Nat /\ Ancho \in Nat
    BY RegistroAssumption
  <1>4. Resto
    <2>1. salida = "no" /\ atado = {} /\ abierto = FALSE
      BY DEF Init
    <2>2. DOMAIN tras \subseteq Linea
      BY <1>1, <1>2
    <2>3. mostradas \in Seq(Linea) /\ consola \in Seq(Linea) /\ Len(consola) <= LimiteEdit
      BY <1>1, <1>2, <1>3
    <2> QED
      BY <2>1, <2>2, <2>3 DEF Resto
  <1>5. Texto(<< >>) \in Seq(Linea) /\ Len(Texto(<< >>)) = 0
    <2>1. Texto(<< >>) \in Seq(Linea) /\ Len(Texto(<< >>)) = Ancho * Len(<< >>)
      BY <1>2, TextoEs
    <2>2. Ancho * 0 = 0
      BY <1>3
    <2> QED
      BY <1>2, <2>1, <2>2
  <1> DEFINE P == Primeros(Texto(<< >>), LimiteEdit)
  <1>6. P \in Seq(Linea) /\ Len(P) <= 0 /\ Len(P) \in Nat
    BY <1>3, <1>5, PrimerosEs
  <1> HIDE DEF P
  <1>7. P = << >>
    BY <1>6
  <1>8. ConsolaFiel
    BY <1>1, <1>7 DEF ConsolaFiel, P
  <1> QED
    BY <1>4, <1>8

\* The window takes the queue: what fits of its text goes to the end of the
\* console, which is never long enough to be trimmed.
LEMMA ConsolaRefrescar ==
    ASSUME Inv, Resto, ConsolaFiel, Refrescar
    PROVE  Resto' /\ ConsolaFiel'
  <1> DEFINE todo == Texto(mostradas)
             mas == Texto(cola)
             c == EnEdit(consola, mas)
             P == Primeros(todo \o mas, LimiteEdit)
  <1>1. /\ mostradas \in Seq(Linea) /\ consola \in Seq(Linea) /\ cola \in Seq(Linea)
        /\ LimiteEdit \in Nat /\ MaxTexto \in Nat /\ LimiteEdit <= MaxTexto
    BY RegistroAssumption DEF Inv, Tipos, Resto
  <1>2. /\ consola' = IF cola = << >> THEN consola ELSE Recortado(c)
        /\ mostradas' = mostradas \o cola
        /\ UNCHANGED <<salida, atado, abierto, tras>>
    BY DEF Refrescar, hilos, winMain
  <1>3. todo \in Seq(Linea) /\ mas \in Seq(Linea) /\ Texto(mostradas') = todo \o mas
    BY <1>1, <1>2, TextoEs, TextoDeConcat
  <1>4. mostradas' \in Seq(Linea)
    BY <1>1, <1>2, Junta
  <1>5. consola = Primeros(todo, LimiteEdit)
    BY DEF ConsolaFiel
  <1> HIDE DEF todo, mas
  <1>6. todo \o mas \in Seq(Linea)
    BY <1>3, Junta
  <1>7. P \in Seq(Linea) /\ Len(P) \in Nat /\ Len(P) <= LimiteEdit
    BY <1>1, <1>6, PrimerosEs
  <1>8. c = P
    BY <1>1, <1>3, <1>5, PrimerosDeJunta DEF EnEdit
  <1>9. consola' = P
    <2>1. CASE cola = << >>
      <3>1. << >> \in Seq(Linea) /\ Len(<< >>) = 0
        OBVIOUS
      <3>2. mostradas \o << >> = mostradas
        BY <1>1
      <3>3. todo \o mas = todo
        BY <1>2, <1>3, <2>1, <3>2 DEF todo
      <3> QED
        BY <1>2, <1>5, <2>1, <3>3
    <2>2. CASE cola # << >>
      <3>1. ~ (Len(P) > MaxTexto)
        BY <1>1, <1>7
      <3>2. Recortado(P) = P
        BY <3>1 DEF Recortado
      <3> QED
        BY <1>2, <1>8, <2>2, <3>2
    <2> QED
      BY <2>1, <2>2
  <1> HIDE DEF P, c
  <1>10. Resto'
    BY <1>2, <1>4, <1>7, <1>9 DEF Resto
  <1>11. ConsolaFiel'
    BY <1>3, <1>9 DEF ConsolaFiel, P
  <1> QED
    BY <1>10, <1>11

LEMMA ConsolaPaso == Inv /\ Resto /\ ConsolaFiel /\ [Next]_vars => Resto' /\ ConsolaFiel'
  <1> SUFFICES ASSUME Inv, Resto, ConsolaFiel, [Next]_vars
               PROVE  Resto' /\ ConsolaFiel'
    OBVIOUS
  <1>1. CASE Refrescar
    BY <1>1, ConsolaRefrescar
  <1>2. CASE \E h \in Hilos : Empezar(h)
    <2> PICK h \in Hilos : Empezar(h)
      BY <1>2
    <2>1. <<h, numero[h] + 1>> \in Linea
      BY DEF Inv, Tipos, Linea
    <2>2. DOMAIN tras' = DOMAIN tras \cup {<<h, numero[h] + 1>>}
      BY DEF Empezar
    <2>3. UNCHANGED <<salida, atado, abierto, mostradas, consola>>
      BY DEF Empezar, registro, winMain
    <2> QED
      BY <2>1, <2>2, <2>3 DEF Resto, ConsolaFiel
  <1>3. CASE ~ Refrescar /\ ~ \E h \in Hilos : Empezar(h)
    <2>1. UNCHANGED <<tras, mostradas, consola>>
      BY <1>3 DEF Next, Abrir, Conectar, Iniciar, prepararContenido, Correr, Lanzar, InputProc,
                  CerrarVentana, Terminar, Emitir, Escribir, Recibir, Anota, vars, hilos,
                  registro
    <2>2. /\ salida' \in {"no", "saliendo", "fin"} /\ atado' \subseteq Servidores
          /\ abierto' \in BOOLEAN
      BY <1>3 DEF Next, Abrir, Conectar, Iniciar, prepararContenido, Correr, Lanzar, InputProc,
                  CerrarVentana, Terminar, Emitir, Escribir, Recibir, vars,
                  winMain, Resto, Servidores
    <2> QED
      BY <2>1, <2>2 DEF Resto, ConsolaFiel
  <1> QED
    BY <1>1, <1>2, <1>3

LEMMA ConsolaInvariante == Spec => [](Inv /\ Resto /\ ConsolaFiel)
  BY RegistroInit, RegistroPaso, ConsolaInit, ConsolaPaso, PTL DEF Spec

\* For any limits and any width of a line: the threads, the queue and the file
\* keep their types, the queue never holds more than MaxCola lines and the
\* console never more than its EDIT control takes.
THEOREM TipoRegistro == Spec => []TypeOK
  <1>1. Inv /\ Resto => TypeOK
    <2> SUFFICES ASSUME Inv, Resto PROVE TypeOK
      OBVIOUS
    <2>1. Len(Guion) = 9
      BY DEF Guion
    <2>2. Len(cola) <= MaxCola
      BY RegistroAssumption DEF Inv, Tipos, Ultimas, Espera
    <2>3. drenadas \in 0 .. Len(emitidas)
      BY DEF Inv, Tipos
    <2> QED
      BY <2>1, <2>2, <2>3 DEF Inv, Tipos, Resto, TypeOK, Llamada, EnCurso
  <1> QED
    BY ConsolaInvariante, <1>1, PTL

\* However late and often the window drains the queue, and wherever the limit
\* of the EDIT control cuts a line, the console is the first LimiteEdit
\* characters of all the text given to it: no hole, nothing twice, and nothing of
\* what comes once it is full.
THEOREM ConsolaSiempreFiel == Spec => []ConsolaFiel
  BY ConsolaInvariante, PTL

-----------------------------------------------------------------------------
(* The order of the lines.                                                 *)

\* No thread has the line in hand.
Suelta(a) == \A h \in Hilos : llamada[h].paso # "ninguna" => llamada[h].linea # a

\* What was begun is numbered, what is in hand, emitted or written was begun.
Empezadas ==
    /\ DOMAIN tras \subseteq Linea
    /\ \A l \in DOMAIN tras : l[2] <= numero[l[1]]
    /\ \A h \in Hilos : llamada[h].paso # "ninguna" => llamada[h].linea \in DOMAIN tras
    /\ \A i \in 1 .. Len(emitidas) : emitidas[i] \in DOMAIN tras
    /\ \A i \in 1 .. Len(fichero) : fichero[i] \in DOMAIN tras

\* A line is emitted once, before it leaves the hands of its thread.
UnaVez ==
    /\ \A i, j \in 1 .. Len(emitidas) : emitidas[i] = emitidas[j] => i = j
    /\ \A h \in Hilos : llamada[h].paso = "emitir" =>
          \A i \in 1 .. Len(emitidas) : emitidas[i] # llamada[h].linea
    /\ \A l \in DOMAIN tras : Suelta(l) => \E i \in 1 .. Len(emitidas) : emitidas[i] = l

\* Line a is emitted, and before b.
Primero(a, b) ==
    \E p \in 1 .. Len(emitidas) :
        /\ emitidas[p] = a
        /\ \A q \in 1 .. Len(emitidas) : emitidas[q] = b => p < q

\* The calls that were over when b began.
Acabadas ==
    \A b \in DOMAIN tras : \A a \in tras[b] :
        a \in DOMAIN tras /\ a # b /\ Suelta(a) /\ Antes(a, b, fichero) /\ Primero(a, b)

\* s is some of the first d lines emitted, in their order.
Dentro(s, d) ==
    \E f \in [1 .. Len(s) -> 1 .. d] :
        /\ \A i \in 1 .. Len(s) : s[i] = emitidas[f[i]]
        /\ \A i, j \in 1 .. Len(s) : i < j => f[i] < f[j]

Ordenes ==
    /\ Empezadas /\ UnaVez /\ Acabadas
    /\ mostradas \in Seq(Linea) /\ Dentro(mostradas, drenadas)

LEMMA SueltaEs == \A a : a \notin EnMano <=> Suelta(a)
  BY DEF EnMano, Suelta

LEMMA OrdenesInit == Init => Ordenes
  <1> SUFFICES ASSUME Init PROVE Ordenes
    OBVIOUS
  <1>1. /\ tras = << >> /\ emitidas = << >> /\ fichero = << >> /\ mostradas = << >>
        /\ drenadas = 0 /\ llamada = [h \in Hilos |-> Ninguna]
    BY DEF Init
  <1>2. DOMAIN tras = {} /\ Len(emitidas) = 0 /\ Len(fichero) = 0 /\ Len(mostradas) = 0
        /\ mostradas \in Seq(Linea)
    BY <1>1
  <1>3. \A h \in Hilos : llamada[h].paso = "ninguna"
    BY <1>1 DEF Ninguna
  <1>4. Empezadas
    BY <1>2, <1>3 DEF Empezadas
  <1>5. UnaVez
    BY <1>2, <1>3 DEF UnaVez
  <1>6. Acabadas
    BY <1>2 DEF Acabadas
  <1>7. Dentro(mostradas, drenadas)
    <2>1. 1 .. Len(mostradas) = {}
      BY <1>2
    <2> DEFINE f == [i \in 1 .. Len(mostradas) |-> i]
    <2>2. f \in [1 .. Len(mostradas) -> 1 .. drenadas]
      BY <2>1
    <2> QED
      BY <2>1, <2>2 DEF Dentro
  <1> QED
    BY <1>2, <1>4, <1>5, <1>6, <1>7 DEF Ordenes

\* What waits comes after what was shown.
LEMMA DentroDeTodas ==
    ASSUME Inv, Ordenes
    PROVE  mostradas \o cola \in Seq(Linea) /\ Dentro(mostradas \o cola, Len(emitidas))
  <1> DEFINE n == Len(emitidas)
             m == Len(mostradas)
             k == Len(cola)
             s == mostradas \o cola
  <1>1. /\ mostradas \in Seq(Linea) /\ cola \in Seq(Linea) /\ drenadas \in Nat
        /\ n \in Nat /\ m \in Nat /\ k \in Nat /\ drenadas <= n /\ MaxCola \in Nat
    BY RegistroAssumption DEF Inv, Tipos, Ordenes
  <1>2. k = (IF n - drenadas <= MaxCola THEN n - drenadas ELSE MaxCola)
        /\ \A j \in 1 .. k : cola[j] = emitidas[n - k + j]
    <2>1. k = Espera /\ \A j \in 1 .. Espera : cola[j] = emitidas[n - Espera + j]
      BY DEF Inv, Ultimas
    <2>2. Espera = (IF n - drenadas <= MaxCola THEN n - drenadas ELSE MaxCola)
      BY DEF Espera
    <2> HIDE DEF n, k
    <2> QED
      BY <2>1, <2>2
  <1>3. /\ s \in Seq(Linea) /\ Len(s) = m + k
        /\ \A i \in 1 .. m : s[i] = mostradas[i]
        /\ \A i \in 1 .. k : s[m + i] = cola[i]
    BY <1>1, Junta
  <1>4. PICK f \in [1 .. m -> 1 .. drenadas] :
           /\ \A i \in 1 .. m : mostradas[i] = emitidas[f[i]]
           /\ \A i, j \in 1 .. m : i < j => f[i] < f[j]
    BY DEF Ordenes, Dentro
  <1> DEFINE g == [i \in 1 .. m + k |-> IF i <= m THEN f[i] ELSE (n - k) + (i - m)]
  <1> HIDE DEF n, m, k, s
  <1>5. n - k \in Nat /\ drenadas <= n - k
    BY <1>1, <1>2
  <1>6. \A i \in 1 .. m + k :
          IF i <= m THEN i \in 1 .. m /\ g[i] = f[i] /\ g[i] \in 1 .. drenadas
          ELSE i - m \in 1 .. k /\ g[i] = (n - k) + (i - m) /\ g[i] > n - k /\ g[i] <= n
    BY <1>1, <1>4, <1>5
  <1>7. g \in [1 .. m + k -> 1 .. n]
    <2>1. \A i \in 1 .. m + k : g[i] \in 1 .. n
      BY <1>1, <1>5, <1>6
    <2>2. DOMAIN g = 1 .. m + k /\ g = [i \in 1 .. m + k |-> g[i]]
      BY Zenon
    <2> HIDE DEF g
    <2> QED
      BY <2>1, <2>2
  <1> HIDE DEF g
  <1>8. ASSUME NEW i \in 1 .. m + k PROVE s[i] = emitidas[g[i]]
    <2>1. CASE i <= m
      BY <1>3, <1>4, <1>6, <2>1
    <2>2. CASE ~ (i <= m)
      <3>1. i - m \in 1 .. k /\ m + (i - m) = i /\ g[i] = (n - k) + (i - m)
        BY <1>1, <1>6, <2>2
      <3> QED
        BY <1>2, <1>3, <3>1
    <2> QED
      BY <2>1, <2>2
  <1>9. ASSUME NEW i \in 1 .. m + k, NEW j \in 1 .. m + k, i < j PROVE g[i] < g[j]
    <2>1. CASE j <= m
      BY <1>1, <1>4, <1>6, <1>9, <2>1
    <2>2. CASE i <= m /\ ~ (j <= m)
      BY <1>1, <1>5, <1>6, <2>2
    <2>3. CASE ~ (i <= m) /\ ~ (j <= m)
      BY <1>1, <1>5, <1>6, <1>9, <2>3
    <2> QED
      BY <1>1, <1>9, <2>1, <2>2, <2>3
  <1>10. Dentro(s, n)
    <2>1. Len(s) = m + k
      BY <1>3
    <2>2. g \in [1 .. Len(s) -> 1 .. n]
      BY <1>7, <2>1
    <2>3. \A i \in 1 .. Len(s) : s[i] = emitidas[g[i]]
      BY <1>8, <2>1
    <2>4. \A i, j \in 1 .. Len(s) : i < j => g[i] < g[j]
      BY <1>9, <2>1
    <2> QED
      BY <2>2, <2>3, <2>4, Zenon DEF Dentro
  <1> QED
    BY <1>3, <1>10 DEF s, n

-----------------------------------------------------------------------------
\* A step that touches neither the calls nor what was emitted, written or shown.
LEMMA OrdenesQuieto ==
    ASSUME Ordenes, UNCHANGED <<llamada, numero, tras, fichero, emitidas, drenadas, mostradas>>
    PROVE  Ordenes'
  BY DEF Ordenes, Empezadas, UnaVez, Acabadas, Suelta, Antes, Primero, Dentro

LEMMA OrdenesRefrescar ==
    ASSUME Inv, Ordenes, Refrescar
    PROVE  Ordenes'
  <1>1. /\ mostradas' = mostradas \o cola /\ drenadas' = Len(emitidas)
        /\ UNCHANGED <<llamada, numero, tras, fichero, emitidas>>
    BY DEF Refrescar, hilos
  <1>2. mostradas' \in Seq(Linea) /\ Dentro(mostradas', drenadas')
    BY <1>1, DentroDeTodas
  <1>3. Dentro(mostradas, drenadas)'
    <2>1. PICK f \in [1 .. Len(mostradas') -> 1 .. drenadas'] :
             /\ \A i \in 1 .. Len(mostradas') : mostradas'[i] = emitidas[f[i]]
             /\ \A i, j \in 1 .. Len(mostradas') : i < j => f[i] < f[j]
      BY <1>2 DEF Dentro
    <2>2. \A i \in 1 .. Len(mostradas') : mostradas'[i] = emitidas'[f[i]]
      BY <1>1, <2>1
    <2> QED
      BY <2>1, <2>2, Zenon DEF Dentro
  <1>4. Empezadas' /\ UnaVez'
    BY <1>1 DEF Ordenes, Empezadas, UnaVez, Suelta
  <1>5. Acabadas'
    BY <1>1 DEF Ordenes, Acabadas, Suelta, Antes, Primero
  <1> QED
    BY <1>2, <1>3, <1>4, <1>5 DEF Ordenes

LEMMA OrdenesEmpezar ==
    ASSUME Inv, Ordenes, NEW h \in Hilos, Empezar(h)
    PROVE  Ordenes'
  <1> DEFINE l == <<h, numero[h] + 1>>
  <1>1. /\ llamada' = [llamada EXCEPT ![h] = [paso |-> "emitir", linea |-> l]]
        /\ numero' = [numero EXCEPT ![h] = @ + 1]
        /\ llamada[h].paso = "ninguna"
        /\ tras' = [k \in DOMAIN tras \cup {l} |->
                      IF k = l THEN DOMAIN tras \ EnMano ELSE tras[k]]
        /\ UNCHANGED <<fichero, emitidas, drenadas, mostradas>>
    BY DEF Empezar, registro
  <1>2. /\ l \in Linea /\ l[1] = h /\ l[2] = numero[h] + 1
        /\ numero \in [Hilos -> Nat] /\ llamada \in [Hilos -> Llamada]
    BY DEF Inv, Tipos, Linea
  <1>3. l \notin DOMAIN tras
    <2>1. ~ (l[2] <= numero[l[1]])
      BY <1>2
    <2> HIDE DEF l
    <2> QED
      BY <2>1 DEF Ordenes, Empezadas
  <1> HIDE DEF l
  <1>4. /\ DOMAIN tras' = DOMAIN tras \cup {l}
        /\ tras'[l] = DOMAIN tras \ EnMano
        /\ \A b \in DOMAIN tras : tras'[b] = tras[b]
    BY <1>1, <1>3
  <1>5. /\ llamada'[h].paso = "emitir" /\ llamada'[h].linea = l
        /\ \A g \in Hilos \ {h} : llamada'[g] = llamada[g]
    BY <1>1, <1>2
  <1>6. numero'[h] = numero[h] + 1 /\ \A g \in Hilos \ {h} : numero'[g] = numero[g]
    BY <1>1, <1>2
  <1>7. ASSUME NEW a \in DOMAIN tras, Suelta(a) PROVE Suelta(a)'
    BY <1>3, <1>5, <1>7 DEF Suelta
  <1>8. ASSUME NEW a, a # l, Suelta(a)' PROVE Suelta(a)
    BY <1>1, <1>5, <1>8 DEF Suelta
  <1>9. \A x : x = l => ~ Suelta(x)'
    BY <1>5 DEF Suelta
  <1>10. Empezadas'
    <2>1. DOMAIN tras' \subseteq Linea
      BY <1>2, <1>4 DEF Ordenes, Empezadas
    <2>2. ASSUME NEW x \in DOMAIN tras' PROVE x[2] <= numero'[x[1]]
      <3>1. CASE x = l
        BY <1>2, <1>6, <3>1
      <3>2. CASE x \in DOMAIN tras
        <4>1. x[1] \in Hilos /\ x[2] \in Nat /\ x[2] <= numero[x[1]]
          BY <3>2 DEF Ordenes, Empezadas, Linea
        <4>2. numero[x[1]] \in Nat /\ numero[x[1]] <= numero'[x[1]]
          BY <1>2, <1>6, <4>1
        <4>3. numero'[x[1]] \in Nat
          BY <1>2, <1>6, <4>1
        <4> QED
          BY <4>1, <4>2, <4>3
      <3> QED
        BY <1>4, <2>2, <3>1, <3>2
    <2>3. \A g \in Hilos : llamada'[g].paso # "ninguna" => llamada'[g].linea \in DOMAIN tras'
      BY <1>4, <1>5 DEF Ordenes, Empezadas
    <2>4. /\ \A i \in 1 .. Len(emitidas) : emitidas[i] \in DOMAIN tras'
          /\ \A i \in 1 .. Len(fichero) : fichero[i] \in DOMAIN tras'
      BY <1>4 DEF Ordenes, Empezadas
    <2> QED
      BY <1>1, <2>1, <2>2, <2>3, <2>4 DEF Empezadas
  <1>11. UnaVez'
    <2>1. \A i, j \in 1 .. Len(emitidas) : emitidas[i] = emitidas[j] => i = j
      BY DEF Ordenes, UnaVez
    <2>2. ASSUME NEW g \in Hilos, llamada'[g].paso = "emitir", NEW i \in 1 .. Len(emitidas)
          PROVE  emitidas[i] # llamada'[g].linea
      <3>1. CASE g = h
        BY <1>3, <1>5, <3>1 DEF Ordenes, Empezadas
      <3>2. CASE g # h
        BY <1>5, <2>2, <3>2 DEF Ordenes, UnaVez
      <3> QED
        BY <3>1, <3>2
    <2>3. ASSUME NEW x \in DOMAIN tras', Suelta(x)'
          PROVE  \E i \in 1 .. Len(emitidas) : emitidas[i] = x
      <3>1. x # l /\ x \in DOMAIN tras
        BY <1>4, <1>9, <2>3
      <3>2. Suelta(x)
        BY <1>8, <2>3, <3>1
      <3> QED
        BY <3>1, <3>2 DEF Ordenes, UnaVez
    <2> QED
      BY <1>1, <2>1, <2>2, <2>3 DEF UnaVez
  <1>12. ASSUME NEW b \in DOMAIN tras', NEW a \in tras'[b]
         PROVE  /\ a \in DOMAIN tras' /\ a # b /\ Suelta(a)'
                /\ Antes(a, b, fichero)' /\ Primero(a, b)'
    <2>1. CASE b = l
      <3>1. a \in DOMAIN tras /\ Suelta(a)
        BY <1>4, <1>12, <2>1, SueltaEs
      <3>2. Antes(a, b, fichero)
        BY <1>3, <2>1 DEF Ordenes, Empezadas, Antes
      <3>3. Primero(a, b)
        <4>1. PICK p \in 1 .. Len(emitidas) : emitidas[p] = a
          BY <3>1 DEF Ordenes, UnaVez
        <4>2. \A q \in 1 .. Len(emitidas) : emitidas[q] # b
          BY <1>3, <2>1 DEF Ordenes, Empezadas
        <4> QED
          BY <4>1, <4>2 DEF Primero
      <3>4. Suelta(a)' /\ a # b
        BY <1>3, <1>7, <2>1, <3>1
      <3> QED
        BY <1>1, <1>4, <3>1, <3>2, <3>3, <3>4 DEF Antes, Primero
    <2>2. CASE b \in DOMAIN tras
      <3>1. a \in tras[b]
        BY <1>4, <1>12, <2>2
      <3>2. a \in DOMAIN tras /\ a # b /\ Suelta(a) /\ Antes(a, b, fichero) /\ Primero(a, b)
        BY <2>2, <3>1 DEF Ordenes, Acabadas
      <3>3. Suelta(a)'
        BY <1>7, <3>2
      <3> QED
        BY <1>1, <1>4, <3>2, <3>3 DEF Antes, Primero
    <2> QED
      BY <1>4, <1>12, <2>1, <2>2
  <1>13. Acabadas'
    BY <1>12 DEF Acabadas
  <1> QED
    BY <1>1, <1>10, <1>11, <1>13 DEF Ordenes, Dentro

LEMMA OrdenesEmitir ==
    ASSUME Inv, Ordenes, NEW h \in Hilos, Emitir(h)
    PROVE  Ordenes'
  <1> DEFINE l == llamada[h].linea
             n == Len(emitidas)
  <1>1. /\ llamada' = [llamada EXCEPT ![h].paso = "escribir"]
        /\ llamada[h].paso = "emitir"
        /\ emitidas' = Append(emitidas, l)
        /\ UNCHANGED <<numero, tras, fichero, drenadas, mostradas>>
    BY DEF Emitir
  <1>2. l \in DOMAIN tras /\ l \in Linea
    BY <1>1 DEF Ordenes, Empezadas
  <1>3. \A g \in Hilos : llamada'[g].linea = llamada[g].linea
                         /\ llamada'[g].paso = (IF g = h THEN "escribir" ELSE llamada[g].paso)
    BY <1>1 DEF Inv, Tipos, Llamada
  <1>4. /\ n \in Nat /\ Len(emitidas') = n + 1 /\ emitidas'[n + 1] = l
        /\ \A i \in 1 .. n : emitidas'[i] = emitidas[i]
    BY <1>1, <1>2 DEF Inv, Tipos
  <1>5. \A i \in 1 .. n : emitidas[i] # l
    BY <1>1 DEF Ordenes, UnaVez
  <1>6. \A g \in Hilos \ {h} : llamada[g].paso # "ninguna" => llamada[g].linea # l
    BY <1>1 DEF Inv, Tipos
  <1>7. \A i \in 1 .. n + 1 : i = n + 1 \/ i \in 1 .. n
    BY <1>4
  <1>13. n + 1 \in 1 .. n + 1 /\ \A i \in 1 .. n : i \in 1 .. n + 1
    BY <1>4
  <1>8. \A a : Suelta(a)' <=> Suelta(a)
    BY <1>1, <1>3 DEF Suelta
  <1> HIDE DEF l, n
  <1>9. Empezadas'
    <2>1. \A i \in 1 .. Len(emitidas') : emitidas'[i] \in DOMAIN tras
      BY <1>2, <1>4, <1>7 DEF Ordenes, Empezadas, n
    <2>2. \A g \in Hilos : llamada'[g].paso # "ninguna" => llamada'[g].linea \in DOMAIN tras
      BY <1>1, <1>3 DEF Ordenes, Empezadas
    <2> QED
      BY <1>1, <2>1, <2>2 DEF Ordenes, Empezadas
  <1>10. UnaVez'
    <2>1. \A i, j \in 1 .. Len(emitidas') : emitidas'[i] = emitidas'[j] => i = j
      BY <1>4, <1>5, <1>7 DEF Ordenes, UnaVez, n
    <2>2. ASSUME NEW g \in Hilos, llamada'[g].paso = "emitir", NEW i \in 1 .. Len(emitidas')
          PROVE  emitidas'[i] # llamada'[g].linea
      <3>1. g # h /\ llamada[g].paso = "emitir"
        BY <1>3, <2>2
      <3>2. CASE i = n + 1
        BY <1>3, <1>4, <1>6, <3>1, <3>2
      <3>3. CASE i \in 1 .. n
        BY <1>3, <1>4, <3>1, <3>3 DEF Ordenes, UnaVez, n
      <3> QED
        BY <1>4, <1>7, <3>2, <3>3
    <2>3. ASSUME NEW x \in DOMAIN tras, Suelta(x)
          PROVE  \E i \in 1 .. Len(emitidas') : emitidas'[i] = x
      <3>1. PICK i \in 1 .. n : emitidas[i] = x
        BY <2>3 DEF Ordenes, UnaVez, n
      <3> QED
        BY <1>4, <1>13, <3>1
    <2> QED
      BY <1>1, <1>8, <2>1, <2>2, <2>3 DEF UnaVez
  <1>11. ASSUME NEW b \in DOMAIN tras, NEW a \in tras[b]
         PROVE  Primero(a, b)'
    <2>1. PICK p \in 1 .. n : emitidas[p] = a /\ \A q \in 1 .. n : emitidas[q] = b => p < q
      BY <1>11 DEF Ordenes, Acabadas, Primero, n
    <2>2. p \in 1 .. Len(emitidas') /\ emitidas'[p] = a
      BY <1>4, <1>13, <2>1
    <2>3. \A q \in 1 .. Len(emitidas') : emitidas'[q] = b => p < q
      BY <1>4, <1>7, <2>1
    <2> QED
      BY <2>2, <2>3 DEF Primero
  <1>12. Acabadas'
    BY <1>1, <1>8, <1>11 DEF Ordenes, Acabadas, Antes
  <1>14. mostradas' \in Seq(Linea) /\ Dentro(mostradas, drenadas)'
    <2>1. PICK f \in [1 .. Len(mostradas) -> 1 .. drenadas] :
             /\ \A i \in 1 .. Len(mostradas) : mostradas[i] = emitidas[f[i]]
             /\ \A i, j \in 1 .. Len(mostradas) : i < j => f[i] < f[j]
      BY DEF Ordenes, Dentro
    <2>2. drenadas \in Nat /\ drenadas <= n
      BY DEF Inv, Tipos, n
    <2>3. ASSUME NEW i \in 1 .. Len(mostradas) PROVE mostradas[i] = emitidas'[f[i]]
      <3>1. f[i] \in 1 .. drenadas
        BY <2>1
      <3>2. f[i] \in 1 .. n
        BY <1>4, <2>2, <3>1
      <3> QED
        BY <1>4, <2>1, <3>2
    <2>4. /\ mostradas' = mostradas
          /\ f \in [1 .. Len(mostradas') -> 1 .. drenadas']
      BY <1>1, <2>1
    <2>5. /\ \A i \in 1 .. Len(mostradas') : mostradas'[i] = emitidas'[f[i]]
          /\ \A i, j \in 1 .. Len(mostradas') : i < j => f[i] < f[j]
      BY <2>1, <2>3, <2>4
    <2>6. Dentro(mostradas, drenadas)'
      BY <2>4, <2>5, Zenon DEF Dentro
    <2> QED
      BY <2>4, <2>6 DEF Ordenes
  <1> QED
    BY <1>1, <1>9, <1>10, <1>12, <1>14 DEF Ordenes

LEMMA OrdenesEscribir ==
    ASSUME Inv, Ordenes, NEW h \in Hilos, Escribir(h)
    PROVE  Ordenes'
  <1> DEFINE l == llamada[h].linea
             n == Len(fichero)
  <1>1. /\ llamada' = [llamada EXCEPT ![h] = Ninguna]
        /\ llamada[h].paso = "escribir"
        /\ fichero' = IF abierto THEN Append(fichero, l) ELSE fichero
        /\ UNCHANGED <<numero, tras, emitidas, drenadas, mostradas>>
    BY DEF Escribir
  <1>2. l \in DOMAIN tras /\ l \in Linea /\ n \in Nat
    BY <1>1 DEF Ordenes, Empezadas, Inv, Tipos
  <1>3. llamada'[h].paso = "ninguna" /\ \A g \in Hilos \ {h} : llamada'[g] = llamada[g]
    BY <1>1 DEF Inv, Tipos, Ninguna
  <1>4. ~ Suelta(l)
    BY <1>1 DEF Suelta
  <1>5. \A a : Suelta(a) => Suelta(a)'
    BY <1>3 DEF Suelta
  <1>6. \A a : a # l /\ Suelta(a)' => Suelta(a)
    BY <1>3 DEF Suelta
  <1>7. \E i \in 1 .. Len(emitidas) : emitidas[i] = l
    <2>1. l \in ToSet(emitidas) /\ DOMAIN emitidas = 1 .. Len(emitidas)
      BY <1>1 DEF Inv, Emitidas, Tipos
    <2> QED
      BY <2>1 DEF ToSet
  <1>8. \/ fichero' = fichero
        \/ /\ Len(fichero') = n + 1 /\ fichero'[n + 1] = l
           /\ \A i \in 1 .. n : fichero'[i] = fichero[i]
    BY <1>1, <1>2 DEF Inv, Tipos
  <1>9. \A i \in 1 .. n + 1 : i = n + 1 \/ i \in 1 .. n
    BY <1>2
  <1> HIDE DEF l
  <1>10. Empezadas'
    <2>1. \A g \in Hilos : llamada'[g].paso # "ninguna" => llamada'[g].linea \in DOMAIN tras
      BY <1>3 DEF Ordenes, Empezadas
    <2>2. \A i \in 1 .. Len(fichero') : fichero'[i] \in DOMAIN tras
      BY <1>2, <1>8, <1>9 DEF Ordenes, Empezadas, n
    <2> QED
      BY <1>1, <2>1, <2>2 DEF Ordenes, Empezadas
  <1>11. UnaVez'
    <2>1. ASSUME NEW g \in Hilos, llamada'[g].paso = "emitir"
          PROVE  g # h /\ llamada'[g] = llamada[g]
      BY <1>3, <2>1
    <2>2. ASSUME NEW x \in DOMAIN tras, Suelta(x)'
          PROVE  \E i \in 1 .. Len(emitidas) : emitidas[i] = x
      BY <1>6, <1>7, <2>2 DEF Ordenes, UnaVez
    <2> QED
      BY <1>1, <2>1, <2>2 DEF Ordenes, UnaVez
  <1>12. ASSUME NEW b \in DOMAIN tras, NEW a \in tras[b]
         PROVE  a # b /\ Antes(a, b, fichero')
    <2>1. a # b /\ a # l /\ Antes(a, b, fichero)
      BY <1>4, <1>12 DEF Ordenes, Acabadas
    <2>2. CASE fichero' = fichero
      BY <2>1, <2>2
    <2>3. CASE fichero' # fichero
      <3>1. /\ Len(fichero') = n + 1 /\ fichero'[n + 1] = l
            /\ \A i \in 1 .. n : fichero'[i] = fichero[i]
        BY <1>8, <2>3
      <3>2. ASSUME NEW j \in 1 .. n + 1, fichero'[j] = b
            PROVE  \/ \E i \in 1 .. j - 1 : fichero'[i] = a
                   \/ \A i \in 1 .. n + 1 : fichero'[i] # a
        <4>1. CASE \A i \in 1 .. n : fichero[i] # a
          BY <1>9, <2>1, <3>1, <4>1
        <4>2. CASE \E i \in 1 .. n : fichero[i] = a
          <5>1. PICK i \in 1 .. n : fichero[i] = a
            BY <4>2
          <5>2. CASE j = n + 1
            <6>1. i \in 1 .. j - 1 /\ fichero'[i] = a
              BY <1>2, <3>1, <5>1, <5>2
            <6> QED
              BY <6>1
          <5>3. CASE j \in 1 .. n
            <6>1. PICK k \in 1 .. j - 1 : fichero[k] = a
              BY <2>1, <3>1, <3>2, <5>1, <5>3 DEF Antes, n
            <6>2. k \in 1 .. n
              BY <1>2, <5>3, <6>1
            <6> QED
              BY <3>1, <6>1, <6>2
          <5> QED
            BY <1>9, <5>2, <5>3
        <4> QED
          BY <4>1, <4>2
      <3>3. Antes(a, b, fichero')
        BY <3>1, <3>2 DEF Antes
      <3> QED
        BY <2>1, <3>3
    <2> QED
      BY <2>2, <2>3
  <1>13. Acabadas'
    <2> SUFFICES ASSUME NEW b \in DOMAIN tras, NEW a \in tras[b]
                 PROVE  /\ a \in DOMAIN tras /\ a # b /\ Suelta(a)'
                        /\ Antes(a, b, fichero') /\ Primero(a, b)'
      BY <1>1 DEF Acabadas
    <2>1. a \in DOMAIN tras /\ Suelta(a) /\ Primero(a, b)
      BY DEF Ordenes, Acabadas
    <2>2. Primero(a, b)'
      BY <1>1, <2>1 DEF Primero
    <2> QED
      BY <1>5, <1>12, <2>1, <2>2
  <1> QED
    BY <1>1, <1>10, <1>11, <1>13 DEF Ordenes, Dentro

LEMMA OrdenesPaso == Inv /\ Ordenes /\ [Next]_vars => Ordenes'
  <1> SUFFICES ASSUME Inv, Ordenes, [Next]_vars PROVE Ordenes'
    OBVIOUS
  <1>1. CASE \E h \in Hilos : Empezar(h) \/ Emitir(h) \/ Escribir(h)
    BY <1>1, OrdenesEmpezar, OrdenesEmitir, OrdenesEscribir
  <1>2. CASE Refrescar
    BY <1>2, OrdenesRefrescar
  <1>3. CASE Lanzar \/ CerrarVentana \/ Terminar \/ UNCHANGED vars
    BY <1>3, OrdenesQuieto DEF Lanzar, CerrarVentana, Terminar, vars, hilos, registro
  <1>4. CASE Abrir \/ Conectar \/ prepararContenido \/ Correr \/ InputProc
             \/ Iniciar("login", Login) \/ Iniciar("updates", Updates) \/ Iniciar("mundo", Mundo)
    BY <1>4, OrdenesQuieto DEF Abrir, Conectar, prepararContenido, Correr, InputProc, Iniciar,
       Anota, registro
  <1>5. CASE \E s \in Servidores : Recibir(s)
    BY <1>5, OrdenesQuieto DEF Recibir, registro
  <1> QED
    BY <1>1, <1>2, <1>3, <1>4, <1>5 DEF Next

LEMMA OrdenesImplica == Inv /\ Ordenes => OrdenReal
  <1> SUFFICES ASSUME Inv, Ordenes, NEW b \in DOMAIN tras, NEW a \in tras[b]
               PROVE  Antes(a, b, mostradas \o cola) /\ Antes(a, b, fichero)
    BY DEF OrdenReal
  <1> DEFINE s == mostradas \o cola
             n == Len(emitidas)
             m == Len(s)
  <1>1. Antes(a, b, fichero) /\ Primero(a, b)
    BY DEF Ordenes, Acabadas
  <1>2. PICK p \in 1 .. n : emitidas[p] = a /\ \A q \in 1 .. n : emitidas[q] = b => p < q
    BY <1>1 DEF Primero
  <1>3. PICK g \in [1 .. m -> 1 .. n] :
           /\ \A i \in 1 .. m : s[i] = emitidas[g[i]]
           /\ \A i, j \in 1 .. m : i < j => g[i] < g[j]
    BY DentroDeTodas DEF Dentro
  <1>4. \A i, j \in 1 .. n : emitidas[i] = emitidas[j] => i = j
    BY DEF Ordenes, UnaVez
  <1>5. m \in Nat /\ n \in Nat
    BY DentroDeTodas DEF Inv, Tipos
  <1> HIDE DEF s, n
  <1>6. ASSUME NEW j \in 1 .. m, s[j] = b, NEW i \in 1 .. m, s[i] = a
        PROVE  i \in 1 .. j - 1
    <2>1. g[i] \in 1 .. n /\ g[j] \in 1 .. n /\ g[i] = p /\ p < g[j]
      BY <1>2, <1>3, <1>4, <1>6
    <2>2. ~ (j < i) /\ i # j
      BY <1>3, <1>5, <2>1
    <2> QED
      BY <1>5, <2>2
  <1>7. Antes(a, b, s)
    BY <1>6 DEF Antes
  <1> QED
    BY <1>1, <1>7 DEF s

\* Of two calls of log that do not overlap, the window and the file keep the
\* order, for any number of lines, however the threads interleave, and whatever
\* the queue drops: a line is emitted once, and what is shown is a selection of
\* what was emitted, in its order.
THEOREM OrdenSiempreReal == Spec => []OrdenReal
  <1>1. Init => Ordenes
    BY OrdenesInit
  <1>2. Inv /\ Ordenes /\ [Next]_vars => Ordenes'
    BY OrdenesPaso
  <1>3. Inv /\ Ordenes => OrdenReal
    BY OrdenesImplica
  <1> QED
    BY <1>1, <1>2, <1>3, RegistroInvariante, PTL DEF Spec
==============================================================================
