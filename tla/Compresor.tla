------------------------------ MODULE Compresor ------------------------------
(***************************************************************************)
(* The LZ77 half of comprimirZlib (cifrado.cpp): the search for the        *)
(* longest repetition along the chains of a hash of three bytes, and what  *)
(* it emits.  Bits, Huffman codes and checksum are in Tabla.               *)
(***************************************************************************)
EXTENDS Integers, Sequences, FiniteSets

CONSTANTS
    Byte,           \* the values of a byte
    Cubos,          \* the values of hash3
    Dispersion,     \* hash3, from three bytes
    MinMatch, MaxMatch, MaxDist, MaxCadena,
    Entradas        \* the buffers to compress, first index 0

ASSUME CompresorAssumption ==
    /\ Dispersion \in [Byte \X Byte \X Byte -> Cubos]
    /\ MinMatch = 3
    /\ MaxMatch \in Nat /\ MaxMatch >= MinMatch
    /\ MaxDist \in Nat \ {0} /\ MaxCadena \in Nat \ {0}
    /\ \A e \in Entradas : /\ IsFiniteSet(DOMAIN e)
                          /\ e \in [0 .. Cardinality(DOMAIN e) - 1 -> Byte]

VARIABLES
    entrada,       \* the buffer
    n,             \* its length
    i,             \* the position being coded
    fase,          \* where the loop is
    cand, pasos, mejorLen, mejorDist,   \* the search
    fin,           \* end of the repetition being inserted
    head, prev,    \* the hash chains
    fichas,        \* what was emitted, each at its position
    inflado        \* history: what those tokens inflate to, up to i

varsCompresor == <<entrada, n, i, fase, cand, pasos, mejorLen, mejorDist, fin,
                   head, prev, fichas, inflado>>

Posiciones == 0 .. n - 1

\* Three bytes from p on are in the buffer: the positions that have a hash.
ConHash(p) == p + MinMatch <= n

hash3(p) == Dispersion[<<entrada[p], entrada[p + 1], entrada[p + 2]>>]

Limite == IF n - i < MaxMatch THEN n - i ELSE MaxMatch

\* How far the bytes from p and from q on are equal, up to l of them.
Coincide(p, q, l) == \A k \in 0 .. l - 1 : entrada[p + k] = entrada[q + k]

Comun(p, q, l) ==
    CHOOSE c \in 0 .. l : Coincide(p, q, c) /\ (c < l => entrada[p + c] # entrada[q + c])

-----------------------------------------------------------------------------
Init ==
    /\ entrada \in Entradas
    /\ n = Cardinality(DOMAIN entrada)
    /\ i = 0 /\ fase = "mirar"
    /\ cand = -1 /\ pasos = 0 /\ mejorLen = 0 /\ mejorDist = 0 /\ fin = 0
    /\ head = [h \in Cubos |-> -1]
    /\ prev = [p \in Posiciones |-> -1]
    /\ fichas = << >> /\ inflado = << >>

\* Mutant: the position is searched for only when a byte follows the three.
Mirar_Estricto ==
    /\ fase = "mirar" /\ i < n
    /\ fase' = "buscar"
    /\ mejorLen' = 0 /\ mejorDist' = 0
    /\ cand' = IF ConHash(i) /\ i + MinMatch < n THEN head[hash3(i)] ELSE -1
    /\ pasos' = MaxCadena
    /\ UNCHANGED <<entrada, n, i, fin, head, prev, fichas, inflado>>

\* Head of the loop: the first candidate, if the position has a hash.
Mirar ==
    /\ fase = "mirar" /\ i < n
    /\ fase' = "buscar"
    /\ mejorLen' = 0 /\ mejorDist' = 0
    /\ cand' = IF ConHash(i) THEN head[hash3(i)] ELSE -1
    /\ pasos' = MaxCadena
    /\ UNCHANGED <<entrada, n, i, fin, head, prev, fichas, inflado>>

\* Mutant: the count of steps is tested after it is taken.
SigueBuscando_UnPasoMas ==
    /\ cand >= 0 /\ pasos >= 0
    /\ i - cand <= MaxDist
    /\ mejorLen < Limite

\* Mutant: the distance is not looked at.
SigueBuscando_SinDistancia ==
    /\ cand >= 0 /\ pasos > 0
    /\ mejorLen < Limite

SigueBuscando ==
    /\ cand >= 0 /\ pasos > 0
    /\ i - cand <= MaxDist
    /\ mejorLen < Limite

\* Mutant: the search goes down the chain only after an improvement.
Probar_SinAvanzar ==
    /\ fase = "buscar" /\ SigueBuscando
    /\ LET len == Comun(cand, i, Limite)
       IN  IF len > mejorLen
           THEN /\ mejorLen' = len /\ mejorDist' = i - cand
                /\ cand' = prev[cand] /\ pasos' = pasos - 1
           ELSE UNCHANGED <<mejorLen, mejorDist, cand, pasos>>
    /\ UNCHANGED <<entrada, n, i, fase, fin, head, prev, fichas, inflado>>

\* One candidate of the chain.
Probar ==
    /\ fase = "buscar" /\ SigueBuscando
    /\ LET len == Comun(cand, i, Limite)
       IN  IF len > mejorLen
           THEN mejorLen' = len /\ mejorDist' = i - cand
           ELSE UNCHANGED <<mejorLen, mejorDist>>
    /\ cand' = prev[cand] /\ pasos' = pasos - 1
    /\ UNCHANGED <<entrada, n, i, fase, fin, head, prev, fichas, inflado>>

\* Mutant: the head of the chain is not moved.
Insertar_SinCabeza ==
    IF ConHash(i) THEN prev' = [prev EXCEPT ![i] = head[hash3(i)]] /\ head' = head
    ELSE UNCHANGED <<head, prev>>

\* Position i enters the chain of its hash.
Insertar ==
    IF ConHash(i)
    THEN /\ prev' = [prev EXCEPT ![i] = head[hash3(i)]]
         /\ head' = [head EXCEPT ![hash3(i)] = i]
    ELSE UNCHANGED <<head, prev>>

Ficha(lon, dist) == [en |-> i, lon |-> lon, dist |-> dist]

\* Nothing long enough: the byte itself.
EmitirLiteral ==
    /\ fase = "buscar" /\ ~ SigueBuscando /\ mejorLen < MinMatch
    /\ fichas' = Append(fichas, Ficha(1, 0))
    /\ inflado' = Append(inflado, entrada[i])
    /\ Insertar
    /\ i' = i + 1 /\ fase' = "mirar"
    /\ UNCHANGED <<entrada, n, cand, pasos, mejorLen, mejorDist, fin>>

\* Mutant: the end of the repetition is its last position.
EmitirCoincidencia_FinIncluido ==
    /\ fase = "buscar" /\ ~ SigueBuscando /\ mejorLen >= MinMatch
    /\ fichas' = Append(fichas, Ficha(mejorLen, mejorDist))
    /\ fin' = i + mejorLen - 1 /\ fase' = "insertar"
    /\ UNCHANGED <<entrada, n, i, cand, pasos, mejorLen, mejorDist, head, prev, inflado>>

EmitirCoincidencia ==
    /\ fase = "buscar" /\ ~ SigueBuscando /\ mejorLen >= MinMatch
    /\ fichas' = Append(fichas, Ficha(mejorLen, mejorDist))
    /\ fin' = i + mejorLen /\ fase' = "insertar"
    /\ UNCHANGED <<entrada, n, i, cand, pasos, mejorLen, mejorDist, head, prev, inflado>>

\* Mutant: the position after the repetition is not searched for.
InsertarCubierta_UnaDeMas ==
    /\ fase = "insertar"
    /\ inflado' = Append(inflado, inflado[Len(inflado) + 1 - mejorDist])
    /\ Insertar
    /\ i' = i + 1
    /\ fase' = IF i' < n /\ i' <= fin THEN "insertar" ELSE "mirar"
    /\ UNCHANGED <<entrada, n, cand, pasos, mejorLen, mejorDist, fin, fichas>>

\* One position under the repetition; inflate copies its byte from mejorDist
\* before, which this same repetition may have written.
InsertarCubierta ==
    /\ fase = "insertar"
    /\ inflado' = Append(inflado, inflado[Len(inflado) + 1 - mejorDist])
    /\ Insertar
    /\ i' = i + 1
    /\ fase' = IF i' < fin THEN "insertar" ELSE "mirar"
    /\ UNCHANGED <<entrada, n, cand, pasos, mejorLen, mejorDist, fin, fichas>>

Next == Mirar \/ Probar \/ EmitirLiteral \/ EmitirCoincidencia \/ InsertarCubierta

Spec == Init /\ [][Next]_varsCompresor

-----------------------------------------------------------------------------
(* Properties.                                                             *)

TypeOK ==
    /\ entrada \in Entradas /\ n \in Nat /\ entrada \in [Posiciones -> Byte]
    /\ i \in 0 .. n
    /\ fase \in {"mirar", "buscar", "insertar"}
    /\ cand \in -1 .. n - 1 /\ pasos \in 0 .. MaxCadena
    /\ mejorLen \in 0 .. MaxMatch /\ mejorDist \in 0 .. n /\ fin \in 0 .. n
    /\ head \in [Cubos -> -1 .. n - 1]
    /\ prev \in [Posiciones -> -1 .. n - 1]
    /\ fichas \in Seq([en : Nat, lon : Nat, dist : Nat])
    /\ inflado \in Seq(Byte)

\* What the client inflates is what was compressed, byte by byte: also for
\* repetitions that overlap themselves.
Fiel == Len(inflado) = i /\ \A p \in 0 .. i - 1 : inflado[p + 1] = entrada[p]

\* No token asks inflate for more than the format allows, or for bytes before
\* the beginning of its output.
FichasValidas ==
    \A k \in 1 .. Len(fichas) : LET f == fichas[k] IN
        \/ f.lon = 1 /\ f.dist = 0
        \/ /\ f.lon \in MinMatch .. MaxMatch /\ f.en + f.lon <= n
           /\ f.dist \in 1 .. MaxDist /\ f.dist <= f.en

\* Where the first k tokens end.
FinDe(k) == IF k = 0 THEN 0 ELSE fichas[k].en + fichas[k].lon

\* The tokens alone give back the buffer: each begins where the one before ends,
\* up to the position being coded, and every byte of a repetition is the one
\* dist before it, whatever the search did between one token and the next.
FichasExactas ==
    /\ \A k \in 1 .. Len(fichas) : LET f == fichas[k] IN
          /\ f.en = FinDe(k - 1)
          /\ f.dist > 0 => \A p \in f.en .. f.en + f.lon - 1 : entrada[p] = entrada[p - f.dist]
    /\ fase # "insertar" => i = FinDe(Len(fichas))

Insertadas == {p \in 0 .. i - 1 : ConHash(p)}

\* The chain of each hash visits every position already coded that has it, from
\* the last to the first: none is lost under a repetition and none comes twice.
CadenasCompletas ==
    /\ \A h \in Cubos :
          /\ head[h] >= 0 => head[h] \in Insertadas /\ hash3(head[h]) = h
          /\ \A q \in Insertadas : hash3(q) = h => q <= head[h]
    /\ \A p \in Insertadas :
          /\ prev[p] >= 0 => prev[p] < p /\ hash3(prev[p]) = hash3(p)
          /\ \A q \in 0 .. p - 1 : hash3(q) = hash3(p) => q <= prev[p]

\* The positions that the search from `en` may look at.
Candidatas(en) ==
    LET misma == {q \in 0 .. en - 1 : hash3(q) = hash3(en)}
    IN  {q \in misma : /\ en - q <= MaxDist
                       /\ Cardinality({r \in misma : r > q}) < MaxCadena}

\* The search is greedy and misses nothing: no candidate within its limits
\* repeats more than what was emitted.
Voraz ==
    \A k \in 1 .. Len(fichas) : LET f == fichas[k] IN
        ConHash(f.en) => \A q \in Candidatas(f.en) :
            LET l == IF n - f.en < MaxMatch THEN n - f.en ELSE MaxMatch
            IN  Comun(q, f.en, l) <= IF f.dist = 0 THEN MinMatch - 1 ELSE f.lon
==============================================================================
