--------------------------- MODULE Compresor_proofs ---------------------------
(***************************************************************************)
(* The compressor loses nothing and its search misses nothing, for every   *)
(* buffer, every hash and every limit of the search: TypeOK, Fiel,         *)
(* FichasValidas, CadenasCompletas and, on top of them, Voraz and          *)
(* FichasExactas; and its loops end.                                       *)
(***************************************************************************)
EXTENDS Compresor, FiniteSetTheorems, WellFoundedInduction, TLAPS

\* A nonempty set of naturals has a least element.
LEMMA MenorFundado == IsWellFoundedOn({ss \in Nat \X Nat : ss[1] < ss[2]}, Nat)
  BY NatLessThanWellFounded DEF OpToRel

LEMMA Menor ==
    ASSUME NEW T, T \subseteq Nat, T # {}
    PROVE  \E x \in T : \A y \in T : x <= y
  <1> DEFINE R == {ss \in Nat \X Nat : ss[1] < ss[2]}
  <1>1. \E x \in T : \A y \in T : ~ (<<y, x>> \in R)
    <2> HIDE DEF R
    <2>1. IsWellFoundedOn(R, Nat)
      BY MenorFundado DEF R
    <2> QED
      BY <2>1, WFMin
  <1>2. PICK x \in T : \A y \in T : ~ (<<y, x>> \in R)
    BY <1>1
  <1>3. ASSUME NEW y \in T PROVE x <= y
    <2>1. x \in Nat /\ y \in Nat /\ ~ (<<y, x>> \in R)
      BY <1>2
    <2> QED
      BY <2>1
  <1> QED
    BY <1>3

\* What the comparison loop returns.
LEMMA ComunEs ==
    ASSUME NEW p \in Int, NEW q \in Int, NEW l \in Nat
    PROVE  Comun(p, q, l) \in 0 .. l /\ Coincide(p, q, Comun(p, q, l))
  <1> DEFINE T == {c \in 0 .. l : c = l \/ entrada[p + c] # entrada[q + c]}
  <1>1. T \subseteq Nat /\ l \in T
    OBVIOUS
  <1>2. PICK c \in T : \A y \in T : c <= y
    BY <1>1, Menor
  <1>3. \A k \in 0 .. c - 1 : entrada[p + k] = entrada[q + k]
    BY <1>2
  <1>4. c \in 0 .. l /\ Coincide(p, q, c) /\ (c < l => entrada[p + c] # entrada[q + c])
    BY <1>2, <1>3 DEF Coincide
  <1> QED
    BY <1>4 DEF Comun

\* The positions that have a hash; their hash is a bucket.
LEMMA HashEs ==
    ASSUME CompresorAssumption, entrada \in [Posiciones -> Byte], n \in Nat,
           NEW p \in Nat, ConHash(p)
    PROVE  p \in Posiciones /\ hash3(p) \in Cubos
  <1>1. p \in Posiciones /\ p + 1 \in Posiciones /\ p + 2 \in Posiciones
    BY DEF CompresorAssumption, ConHash, Posiciones
  <1>2. <<entrada[p], entrada[p + 1], entrada[p + 2]>> \in Byte \X Byte \X Byte
    BY <1>1
  <1> QED
    BY <1>1, <1>2 DEF CompresorAssumption, hash3

-----------------------------------------------------------------------------
(* The inductive invariant.                                                *)

\* A candidate is always before the position: the search looks back, and ends.
Anteriores ==
    /\ \A h \in Cubos : head[h] < i
    /\ \A p \in Posiciones : prev[p] < p
    /\ fase = "buscar" => cand < i

Lugar ==
    /\ fase = "buscar" => i < n
    /\ fase = "insertar" => i < fin

\* What the search has found so far is a repetition.
Hallada ==
    fase = "buscar" =>
        /\ mejorLen <= Limite
        /\ mejorLen > 0 =>
              mejorDist \in 1 .. i /\ mejorDist <= MaxDist
                  /\ Coincide(i - mejorDist, i, mejorLen)

\* What is left of a repetition being inserted still repeats.
Cubierta ==
    fase = "insertar" =>
        mejorDist \in 1 .. i
            /\ \A p \in i .. fin - 1 : entrada[p] = entrada[p - mejorDist]

InvCompresor == TypeOK /\ Anteriores /\ Lugar /\ Hallada /\ Cubierta /\ Fiel /\ FichasValidas

LEMMA CompresorInit == Init => InvCompresor /\ CadenasCompletas
  <1> SUFFICES ASSUME Init PROVE InvCompresor /\ CadenasCompletas
    OBVIOUS
  <1>1. n \in Nat /\ entrada \in [Posiciones -> Byte]
    BY CompresorAssumption, FS_CardinalityType DEF CompresorAssumption, Init, Posiciones
  <1>2. TypeOK
    BY <1>1, CompresorAssumption DEF CompresorAssumption, Init, TypeOK, Posiciones
  <1>3. Anteriores /\ Lugar /\ Hallada /\ Cubierta
    BY DEF Init, Anteriores, Lugar, Hallada, Cubierta, Posiciones
  <1>4. Fiel /\ FichasValidas
    BY DEF Init, Fiel, FichasValidas
  <1>5. CadenasCompletas
    BY DEF Init, CadenasCompletas, Insertadas
  <1> QED
    BY <1>2, <1>3, <1>4, <1>5 DEF InvCompresor

LEMMA PasoMirar == InvCompresor /\ Mirar => InvCompresor'
  <1> SUFFICES ASSUME InvCompresor, Mirar PROVE InvCompresor'
    OBVIOUS
  <1>1. cand' \in -1 .. n - 1 /\ cand' < i
    <2>1. CASE ConHash(i)
      <3>1. hash3(i) \in Cubos
        BY <2>1, HashEs, CompresorAssumption DEF InvCompresor, TypeOK
      <3> QED
        BY <2>1, <3>1 DEF InvCompresor, TypeOK, Anteriores, Mirar
    <2>2. CASE ~ ConHash(i)
      BY <2>2 DEF InvCompresor, TypeOK, Mirar
    <2> QED
      BY <2>1, <2>2
  <1>2. TypeOK'
    BY <1>1, CompresorAssumption DEF CompresorAssumption, InvCompresor, TypeOK, Mirar, Posiciones
  <1>3. Anteriores' /\ Lugar' /\ Cubierta' /\ Fiel' /\ FichasValidas'
    BY <1>1 DEF InvCompresor, Mirar, Anteriores, Lugar, Cubierta, Fiel, FichasValidas, Posiciones
  <1>4. Hallada'
    BY CompresorAssumption
    DEF CompresorAssumption, InvCompresor, TypeOK, Mirar, Hallada, Limite
  <1> QED
    BY <1>2, <1>3, <1>4 DEF InvCompresor

LEMMA PasoProbar == InvCompresor /\ Probar => InvCompresor'
  <1> SUFFICES ASSUME InvCompresor, Probar PROVE InvCompresor'
    OBVIOUS
  <1> DEFINE len == Comun(cand, i, Limite)
  <1>1. /\ cand \in Posiciones /\ cand < i /\ i \in Nat /\ n \in Nat /\ pasos > 0
        /\ i - cand <= MaxDist /\ fase = "buscar" /\ i < n
    BY DEF InvCompresor, TypeOK, Anteriores, Lugar, Probar, SigueBuscando, Posiciones
  <1>2. Limite \in 0 .. MaxMatch /\ Limite <= n - i
    BY <1>1, CompresorAssumption DEF CompresorAssumption, Limite
  <1>3. len \in 0 .. Limite /\ Coincide(cand, i, len)
    BY <1>1, <1>2, CompresorAssumption, ComunEs DEF CompresorAssumption, Posiciones
  <1>4. /\ UNCHANGED <<entrada, n, i, fase, fin, head, prev, fichas, inflado>>
        /\ cand' = prev[cand] /\ pasos' = pasos - 1
    BY DEF Probar
  <1>5. \/ len > mejorLen /\ mejorLen' = len /\ mejorDist' = i - cand
        \/ mejorLen' = mejorLen /\ mejorDist' = mejorDist
    BY DEF Probar
  <1> HIDE DEF len
  <1>6. TypeOK'
    <2>1. mejorLen' \in 0 .. MaxMatch /\ mejorDist' \in 0 .. n
      <3>1. mejorLen \in 0 .. MaxMatch /\ mejorDist \in 0 .. n /\ MaxMatch \in Nat
        BY CompresorAssumption DEF CompresorAssumption, InvCompresor, TypeOK
      <3>2. len \in 0 .. MaxMatch /\ i - cand \in 0 .. n
        BY <1>1, <1>2, <1>3, <3>1 DEF Posiciones
      <3> QED
        BY <1>5, <3>1, <3>2
    <2>2. cand' \in -1 .. n - 1 /\ pasos' \in 0 .. MaxCadena
      BY <1>1, <1>4, CompresorAssumption DEF CompresorAssumption, InvCompresor, TypeOK
    <2> QED
      BY <1>4, <2>1, <2>2 DEF InvCompresor, TypeOK, Posiciones
  <1>7. Anteriores'
    BY <1>1, <1>4 DEF InvCompresor, TypeOK, Anteriores, Posiciones
  <1>8. Hallada'
    <2>1. CASE mejorLen' = len /\ mejorDist' = i - cand
      <3>1. i - (i - cand) = cand /\ i - cand \in 1 .. i
        BY <1>1 DEF Posiciones
      <3>2. Limite' = Limite
        BY <1>4 DEF Limite
      <3>3. Coincide(i - mejorDist, i, mejorLen)'
        BY <1>3, <1>4, <2>1, <3>1 DEF Coincide
      <3> QED
        BY <1>1, <1>3, <1>4, <2>1, <3>1, <3>2, <3>3 DEF Hallada
    <2>2. CASE mejorLen' = mejorLen /\ mejorDist' = mejorDist
      BY <1>4, <2>2 DEF InvCompresor, Hallada, Limite, Coincide
    <2> QED
      BY <1>5, <2>1, <2>2
  <1>9. Lugar' /\ Cubierta' /\ Fiel' /\ FichasValidas'
    BY <1>1, <1>4 DEF InvCompresor, Lugar, Cubierta, Fiel, FichasValidas
  <1> QED
    BY <1>6, <1>7, <1>8, <1>9 DEF InvCompresor

-----------------------------------------------------------------------------
(* Insertion.                                                              *)

\* The chains after position i entered them.
LEMMA InsertarEs ==
    ASSUME InvCompresor, i < n, Insertar, i' = i + 1, UNCHANGED <<entrada, n>>
    PROVE  /\ head' \in [Cubos -> -1 .. n - 1] /\ prev' \in [Posiciones -> -1 .. n - 1]
           /\ \A h \in Cubos : head'[h] < i + 1
           /\ \A p \in Posiciones : prev'[p] < p
  <1>1. i \in Posiciones
    BY DEF InvCompresor, TypeOK, Posiciones
  <1>2. CASE ConHash(i)
    <2>1. hash3(i) \in Cubos
      BY <1>2, HashEs, CompresorAssumption DEF InvCompresor, TypeOK
    <2>2. /\ prev' = [prev EXCEPT ![i] = head[hash3(i)]]
          /\ head' = [head EXCEPT ![hash3(i)] = i]
      BY <1>2 DEF Insertar
    <2> QED
      BY <1>1, <2>1, <2>2 DEF InvCompresor, TypeOK, Anteriores, Posiciones
  <1>3. CASE ~ ConHash(i)
    <2>1. head' = head /\ prev' = prev
      BY <1>3 DEF Insertar
    <2> QED
      BY <2>1 DEF InvCompresor, TypeOK, Anteriores, Posiciones
  <1> QED
    BY <1>2, <1>3

LEMMA InsertarCompleta ==
    ASSUME InvCompresor, CadenasCompletas, i < n, Insertar, i' = i + 1, UNCHANGED <<entrada, n>>
    PROVE  CadenasCompletas'
  <1>1. i \in Nat /\ n \in Nat /\ i' = i + 1 /\ MinMatch = 3
    BY CompresorAssumption DEF CompresorAssumption, InvCompresor, TypeOK
  <1>2. \A p : ConHash(p)' <=> ConHash(p)
    BY DEF ConHash
  <1>3. CASE ConHash(i)
    <2> DEFINE hi == hash3(i)
    <2>1. i \in Posiciones /\ hi \in Cubos
      BY <1>1, <1>3, HashEs, CompresorAssumption DEF InvCompresor, TypeOK
    <2>2. /\ prev' = [prev EXCEPT ![i] = head[hi]]
          /\ head' = [head EXCEPT ![hi] = i]
      BY <1>3 DEF Insertar
    <2>3. Insertadas' = Insertadas \cup {i}
      BY <1>1, <1>2, <1>3 DEF Insertadas
    <2>4. Insertadas = 0 .. i - 1
      BY <1>1, <1>3 DEF Insertadas, ConHash
    <2>5. ASSUME NEW h \in Cubos
          PROVE  /\ head'[h] >= 0 => head'[h] \in Insertadas' /\ hash3(head'[h]) = h
                 /\ \A q \in Insertadas' : hash3(q) = h => q <= head'[h]
      <3> DEFINE hh == head[h]
      <3>1. /\ hh \in Int
            /\ hh >= 0 => hh \in Insertadas /\ hash3(hh) = h
            /\ \A q \in Insertadas : hash3(q) = h => q <= hh
        BY DEF CadenasCompletas, InvCompresor, TypeOK
      <3>2. CASE h = hi
        <4>1. head'[h] = i
          BY <2>1, <2>2, <3>2 DEF InvCompresor, TypeOK
        <4>2. \A q \in Insertadas' : q <= i
          BY <1>1, <2>3, <2>4
        <4> QED
          BY <1>2, <2>3, <3>2, <4>1, <4>2
      <3>3. CASE h # hi
        <4>1. head'[h] = hh
          BY <2>1, <2>2, <3>3 DEF InvCompresor, TypeOK
        <4> HIDE DEF hh
        <4>2. hh >= 0 => hh \in Insertadas' /\ hash3(hh) = h
          BY <1>2, <2>3, <3>1
        <4>3. \A q \in Insertadas' : hash3(q) = h => q <= hh
          BY <1>2, <2>3, <3>1, <3>3
        <4> QED
          BY <4>1, <4>2, <4>3
      <3> QED
        BY <3>2, <3>3
    <2>6. ASSUME NEW p \in Insertadas'
          PROVE  /\ prev'[p] >= 0 => prev'[p] < p /\ hash3(prev'[p]) = hash3(p)
                 /\ \A q \in 0 .. p - 1 : hash3(q) = hash3(p) => q <= prev'[p]
      <3>1. CASE p = i
        <4>1. prev'[p] = head[hi]
          BY <2>1, <2>2, <3>1 DEF InvCompresor, TypeOK
        <4>2. /\ head[hi] >= 0 => head[hi] \in Insertadas /\ hash3(head[hi]) = hi
              /\ \A q \in Insertadas : hash3(q) = hi => q <= head[hi]
          BY <2>1 DEF CadenasCompletas
        <4>3. head[hi] < i
          BY <2>1 DEF InvCompresor, Anteriores
        <4> QED
          BY <1>2, <2>4, <3>1, <4>1, <4>2, <4>3
      <3>2. CASE p # i
        <4>1. p \in Insertadas /\ prev'[p] = prev[p]
          BY <2>2, <2>3, <3>2, <2>1, <2>4, <1>1 DEF InvCompresor, TypeOK, Posiciones
        <4>2. /\ prev[p] >= 0 => prev[p] < p /\ hash3(prev[p]) = hash3(p)
              /\ \A q \in 0 .. p - 1 : hash3(q) = hash3(p) => q <= prev[p]
          BY <4>1 DEF CadenasCompletas
        <4> QED
          BY <1>2, <4>1, <4>2
      <3> QED
        BY <3>1, <3>2
    <2> QED
      BY <2>5, <2>6 DEF CadenasCompletas, hash3
  <1>4. CASE ~ ConHash(i)
    <2>1. head' = head /\ prev' = prev
      BY <1>4 DEF Insertar
    <2>2. Insertadas' = Insertadas
      BY <1>1, <1>2, <1>4 DEF Insertadas
    <2> QED
      BY <2>1, <2>2 DEF CadenasCompletas, hash3
  <1> QED
    BY <1>3, <1>4

-----------------------------------------------------------------------------
(* Emission.                                                               *)

LEMMA Anadida ==
    ASSUME NEW S, NEW s \in Seq(S), NEW e \in S, NEW k \in 1 .. Len(Append(s, e))
    PROVE  (k \in 1 .. Len(s) /\ Append(s, e)[k] = s[k]) \/ Append(s, e)[k] = e
  OBVIOUS

LEMMA PasoLiteral == InvCompresor /\ EmitirLiteral => InvCompresor'
  <1> SUFFICES ASSUME InvCompresor, EmitirLiteral PROVE InvCompresor'
    OBVIOUS
  <1> DEFINE f == Ficha(1, 0)
  <1>1. /\ i \in Nat /\ n \in Nat /\ i < n /\ i' = i + 1 /\ fase' = "mirar" /\ Insertar
        /\ i \in Posiciones /\ entrada[i] \in Byte
        /\ UNCHANGED <<entrada, n, cand, pasos, mejorLen, mejorDist, fin>>
    BY DEF EmitirLiteral, InvCompresor, TypeOK, Lugar, Posiciones
  <1>2. /\ fichas' = Append(fichas, f) /\ inflado' = Append(inflado, entrada[i])
    BY DEF EmitirLiteral
  <1>3. /\ head' \in [Cubos -> -1 .. n - 1] /\ prev' \in [Posiciones -> -1 .. n - 1]
        /\ \A h \in Cubos : head'[h] < i + 1
        /\ \A p \in Posiciones : prev'[p] < p
    BY <1>1, InsertarEs
  <1>4. fichas \in Seq([en : Nat, lon : Nat, dist : Nat]) /\ inflado \in Seq(Byte)
        /\ f \in [en : Nat, lon : Nat, dist : Nat]
    BY <1>1 DEF InvCompresor, TypeOK, Ficha
  <1>5. TypeOK'
    <2>1. fichas' \in Seq([en : Nat, lon : Nat, dist : Nat]) /\ inflado' \in Seq(Byte)
      BY <1>1, <1>2, <1>4
    <2>2. Posiciones' = Posiciones
      BY <1>1 DEF Posiciones
    <2>3. i' \in 0 .. n /\ fase' \in {"mirar", "buscar", "insertar"}
      BY <1>1
    <2> HIDE DEF f
    <2> QED
      BY <1>1, <1>3, <2>1, <2>2, <2>3 DEF InvCompresor, TypeOK
  <1>6. Anteriores' /\ Lugar' /\ Hallada' /\ Cubierta'
    <2>1. Anteriores'
      BY <1>1, <1>3 DEF Anteriores, Posiciones
    <2>2. Lugar' /\ Hallada' /\ Cubierta'
      BY <1>1 DEF Lugar, Hallada, Cubierta
    <2> QED
      BY <2>1, <2>2
  <1>7. Fiel'
    BY <1>1, <1>2, <1>4 DEF InvCompresor, Fiel
  <1>8. FichasValidas'
    <2> HIDE DEF f
    <2>1. ASSUME NEW k \in 1 .. Len(fichas') PROVE
            (k \in 1 .. Len(fichas) /\ fichas'[k] = fichas[k]) \/ fichas'[k] = f
      BY <1>2, <1>4, Anadida
    <2>2. f.lon = 1 /\ f.dist = 0
      BY DEF f, Ficha
    <2> QED
      BY <1>1, <2>1, <2>2 DEF InvCompresor, FichasValidas
  <1> QED
    BY <1>5, <1>6, <1>7, <1>8 DEF InvCompresor

LEMMA PasoCoincidencia == InvCompresor /\ EmitirCoincidencia => InvCompresor'
  <1> SUFFICES ASSUME InvCompresor, EmitirCoincidencia PROVE InvCompresor'
    OBVIOUS
  <1> DEFINE ficha == Ficha(mejorLen, mejorDist)
  <1>1. /\ i \in Nat /\ n \in Nat /\ i < n /\ fase' = "insertar" /\ fin' = i + mejorLen
        /\ mejorLen \in Nat /\ mejorLen >= 3 /\ mejorLen <= MaxMatch /\ mejorLen <= n - i
        /\ mejorDist \in 1 .. i /\ mejorDist <= MaxDist /\ Coincide(i - mejorDist, i, mejorLen)
        /\ MinMatch = 3 /\ MaxMatch \in Nat /\ MaxDist \in Nat
    BY CompresorAssumption
    DEF CompresorAssumption, EmitirCoincidencia, InvCompresor, TypeOK, Lugar, Hallada, Limite
  <1>2. /\ UNCHANGED <<entrada, n, i, cand, pasos, mejorLen, mejorDist, head, prev, inflado>>
        /\ fichas' = Append(fichas, ficha)
    BY DEF EmitirCoincidencia
  <1>3. fichas \in Seq([en : Nat, lon : Nat, dist : Nat])
        /\ ficha \in [en : Nat, lon : Nat, dist : Nat]
    BY <1>1 DEF InvCompresor, TypeOK, Ficha
  <1>4. TypeOK'
    <2>1. fichas' \in Seq([en : Nat, lon : Nat, dist : Nat])
      BY <1>2, <1>3
    <2>2. fin' \in 0 .. n' /\ fase' \in {"mirar", "buscar", "insertar"}
      BY <1>1, <1>2
    <2>3. Posiciones' = Posiciones
      BY <1>2 DEF Posiciones
    <2> HIDE DEF ficha
    <2>4. /\ entrada' \in Entradas /\ n' \in Nat /\ entrada' \in [Posiciones' -> Byte]
          /\ i' \in 0 .. n' /\ cand' \in -1 .. n' - 1 /\ pasos' \in 0 .. MaxCadena
      BY <1>2, <2>3 DEF InvCompresor, TypeOK
    <2>5. /\ mejorLen' \in 0 .. MaxMatch /\ mejorDist' \in 0 .. n'
          /\ head' \in [Cubos -> -1 .. n' - 1] /\ prev' \in [Posiciones' -> -1 .. n' - 1]
          /\ inflado' \in Seq(Byte)
      BY <1>2, <2>3 DEF InvCompresor, TypeOK
    <2> QED
      BY <2>1, <2>2, <2>4, <2>5 DEF TypeOK
  <1>5. Anteriores' /\ Lugar' /\ Hallada' /\ Fiel'
    <2>1. Anteriores'
      BY <1>1, <1>2 DEF InvCompresor, Anteriores, Posiciones
    <2>2. Lugar' /\ Hallada'
      BY <1>1, <1>2 DEF Lugar, Hallada
    <2>3. Fiel'
      BY <1>2 DEF InvCompresor, Fiel
    <2> QED
      BY <2>1, <2>2, <2>3
  <1>6. Cubierta'
    <2>1. ASSUME NEW p \in i .. i + mejorLen - 1
          PROVE  entrada[p] = entrada[p - mejorDist]
      <3>1. p - i \in 0 .. mejorLen - 1 /\ i + (p - i) = p
            /\ i - mejorDist + (p - i) = p - mejorDist
        BY <1>1
      <3> QED
        BY <1>1, <3>1 DEF Coincide
    <2> QED
      BY <1>1, <1>2, <2>1 DEF Cubierta
  <1>7. FichasValidas'
    <2>1. ASSUME NEW k \in 1 .. Len(fichas') PROVE
            (k \in 1 .. Len(fichas) /\ fichas'[k] = fichas[k]) \/ fichas'[k] = ficha
      BY <1>2, <1>3, Anadida
    <2>2. /\ ficha.lon \in MinMatch .. MaxMatch /\ ficha.en + ficha.lon <= n
          /\ ficha.dist \in 1 .. MaxDist /\ ficha.dist <= ficha.en
      BY <1>1 DEF Ficha
    <2> HIDE DEF ficha
    <2> QED
      BY <1>1, <1>2, <2>1, <2>2 DEF InvCompresor, FichasValidas
  <1> QED
    BY <1>4, <1>5, <1>6, <1>7 DEF InvCompresor

LEMMA PasoCubierta == InvCompresor /\ InsertarCubierta => InvCompresor'
  <1> SUFFICES ASSUME InvCompresor, InsertarCubierta PROVE InvCompresor'
    OBVIOUS
  <1> DEFINE copia == inflado[Len(inflado) + 1 - mejorDist]
  <1>1. /\ i \in Nat /\ n \in Nat /\ fin \in 0 .. n /\ i < fin /\ i < n /\ i' = i + 1
        /\ Insertar /\ fase = "insertar" /\ i \in Posiciones /\ entrada[i] \in Byte
        /\ UNCHANGED <<entrada, n, cand, pasos, mejorLen, mejorDist, fin, fichas>>
        /\ inflado' = Append(inflado, copia)
        /\ fase' = IF i + 1 < fin THEN "insertar" ELSE "mirar"
    BY DEF InsertarCubierta, InvCompresor, TypeOK, Lugar, Posiciones
  <1>2. /\ mejorDist \in 1 .. i /\ \A p \in i .. fin - 1 : entrada[p] = entrada[p - mejorDist]
        /\ Len(inflado) = i /\ inflado \in Seq(Byte)
        /\ \A p \in 0 .. i - 1 : inflado[p + 1] = entrada[p]
    BY <1>1 DEF InvCompresor, TypeOK, Cubierta, Fiel
  <1>3. copia = entrada[i]
    <2>1. i - mejorDist \in 0 .. i - 1 /\ i + 1 - mejorDist = i - mejorDist + 1
          /\ i \in i .. fin - 1
      BY <1>1, <1>2
    <2>2. inflado[i - mejorDist + 1] = entrada[i - mejorDist]
      BY <1>2, <2>1
    <2> QED
      BY <1>2, <2>1, <2>2
  <1> HIDE DEF copia
  <1>4. /\ head' \in [Cubos -> -1 .. n - 1] /\ prev' \in [Posiciones -> -1 .. n - 1]
        /\ \A h \in Cubos : head'[h] < i + 1
        /\ \A p \in Posiciones : prev'[p] < p
    BY <1>1, InsertarEs
  <1>5. TypeOK'
    <2>1. inflado' \in Seq(Byte)
      BY <1>1, <1>2, <1>3
    <2>2. Posiciones' = Posiciones
      BY <1>1 DEF Posiciones
    <2>3. i' \in 0 .. n /\ fase' \in {"mirar", "buscar", "insertar"}
      BY <1>1
    <2> QED
      BY <1>1, <1>4, <2>1, <2>2, <2>3 DEF InvCompresor, TypeOK
  <1>6. Anteriores' /\ Lugar' /\ Hallada'
    <2>1. Anteriores'
      BY <1>1, <1>4 DEF Anteriores, Posiciones
    <2>2. Lugar' /\ Hallada'
      BY <1>1 DEF Lugar, Hallada
    <2> QED
      BY <2>1, <2>2
  <1>7. Cubierta'
    BY <1>1, <1>2 DEF Cubierta
  <1>8. Fiel'
    BY <1>1, <1>2, <1>3 DEF Fiel
  <1>9. FichasValidas'
    BY <1>1 DEF InvCompresor, FichasValidas
  <1> QED
    BY <1>5, <1>6, <1>7, <1>8, <1>9 DEF InvCompresor

-----------------------------------------------------------------------------
LEMMA CompresorPaso ==
    InvCompresor /\ CadenasCompletas /\ [Next]_varsCompresor => InvCompresor' /\ CadenasCompletas'
  <1> SUFFICES ASSUME InvCompresor, CadenasCompletas, [Next]_varsCompresor
               PROVE  InvCompresor' /\ CadenasCompletas'
    OBVIOUS
  <1>1. CASE Mirar \/ Probar \/ EmitirCoincidencia
    <2>1. UNCHANGED <<entrada, n, i, head, prev>>
      BY <1>1 DEF Mirar, Probar, EmitirCoincidencia
    <2>2. CadenasCompletas'
      BY <2>1 DEF CadenasCompletas, Insertadas, ConHash, hash3
    <2> QED
      BY <1>1, <2>2, PasoMirar, PasoProbar, PasoCoincidencia
  <1>2. CASE EmitirLiteral \/ InsertarCubierta
    <2>1. Insertar /\ i' = i + 1 /\ UNCHANGED <<entrada, n>>
      BY <1>2 DEF EmitirLiteral, InsertarCubierta
    <2>2. i < n
      BY <1>2 DEF EmitirLiteral, InsertarCubierta, InvCompresor, TypeOK, Lugar
    <2> QED
      BY <1>2, <2>1, <2>2, InsertarCompleta, PasoLiteral, PasoCubierta
  <1>3. CASE UNCHANGED varsCompresor
    BY <1>3 DEF varsCompresor, InvCompresor, TypeOK, Anteriores, Lugar, Hallada, Cubierta, Fiel,
                FichasValidas, CadenasCompletas, Insertadas, ConHash, hash3, Limite, Coincide,
                Posiciones
  <1> QED
    BY <1>1, <1>2, <1>3 DEF Next

LEMMA CompresorInvariante == Spec => [](InvCompresor /\ CadenasCompletas)
  BY CompresorInit, CompresorPaso, PTL DEF Spec

\* The state of comprimirZlib keeps its types: no index leaves its array.
THEOREM TipoCompresor == Spec => []TypeOK
  <1>1. InvCompresor => TypeOK
    BY DEF InvCompresor
  <1> QED
    BY <1>1, CompresorInvariante, PTL

\* Whatever the buffer, what comprimirZlib emits inflates to it.
THEOREM CompresorFiel == Spec => []Fiel
  <1>1. InvCompresor => Fiel
    BY DEF InvCompresor
  <1> QED
    BY <1>1, CompresorInvariante, PTL

\* Whatever the buffer, every repetition stays within the limits of the format
\* and within what was already emitted.
THEOREM FichasSiempreValidas == Spec => []FichasValidas
  <1>1. InvCompresor => FichasValidas
    BY DEF InvCompresor
  <1> QED
    BY <1>1, CompresorInvariante, PTL

\* Whatever the hash and its collisions, no position is lost from its chain.
THEOREM CadenasSiempreCompletas == Spec => []CadenasCompletas
  BY CompresorInvariante, PTL

-----------------------------------------------------------------------------
(* The search.                                                             *)

\* The positions before p with its hash.
Mismas(p) == {q \in 0 .. p - 1 : hash3(q) = hash3(p)}

\* What Voraz says of a token at p that repeats, or could repeat, tope bytes.
Vista(p, tope) ==
    LET l == IF n - p < MaxMatch THEN n - p ELSE MaxMatch
    IN  ConHash(p) => \A q \in Candidatas(p) : Comun(q, p, l) <= tope

\* The search goes down the chain of the position without leaving one out: what
\* it has passed is what it has counted, and none of it repeats more than the
\* best it keeps.
Busqueda ==
    fase = "buscar" /\ ConHash(i) =>
        /\ cand >= 0 => cand \in Mismas(i)
        /\ Cardinality({r \in Mismas(i) : r > cand}) = MaxCadena - pasos
        /\ \A q \in Mismas(i) : q > cand => Comun(q, i, Limite) <= mejorLen

InvVoraz == Busqueda /\ Voraz

LEMMA MismasFinitas ==
    ASSUME NEW p \in Nat, NEW c
    PROVE  /\ IsFiniteSet({r \in Mismas(p) : r > c})
           /\ Cardinality({r \in Mismas(p) : r > c}) \in Nat
  <1>1. IsFiniteSet(0 .. p - 1)
    BY FS_Interval
  <1>2. {r \in Mismas(p) : r > c} \subseteq 0 .. p - 1
    BY DEF Mismas
  <1>3. IsFiniteSet({r \in Mismas(p) : r > c})
    BY <1>1, <1>2, FS_Subset
  <1> QED
    BY <1>3, FS_CardinalityType

\* Of the buffer depend the comparison and the candidates, and nothing else.
LEMMA MismoBufer ==
    ASSUME UNCHANGED <<entrada, n>>
    PROVE  /\ \A p, q, l : Comun(p, q, l)' = Comun(p, q, l)
           /\ \A p : Mismas(p)' = Mismas(p) /\ ConHash(p)' = ConHash(p)
           /\ \A p, tope : Vista(p, tope)' = Vista(p, tope)
  <1>1. \A p, q, l : Comun(p, q, l)' = Comun(p, q, l)
    BY DEF Comun, Coincide
  <1>2. \A p : Mismas(p)' = Mismas(p) /\ ConHash(p)' = ConHash(p)
    BY DEF Mismas, ConHash, hash3
  <1>3. \A p, tope : Vista(p, tope)' = Vista(p, tope)
    BY DEF Vista, Candidatas, ConHash, hash3, Comun, Coincide
  <1> QED
    BY <1>1, <1>2, <1>3

\* Voraz, token by token, with the position and the length as values.
Tope(f) == IF f.dist = 0 THEN MinMatch - 1 ELSE f.lon

Voraces ==
    \A k \in 1 .. Len(fichas) : \A p, tope :
        p = fichas[k].en /\ tope = Tope(fichas[k]) => Vista(p, tope)

LEMMA VorazEs == Voraz <=> Voraces
  BY DEF Voraz, Voraces, Vista, Tope

\* The steps that emit nothing.
LEMMA VorazIgual ==
    ASSUME Voraz, UNCHANGED <<entrada, n, fichas>>
    PROVE  Voraz'
  <1>1. \A p, tope : Vista(p, tope)' = Vista(p, tope)
    BY MismoBufer
  <1>2. Voraces'
    BY <1>1, VorazEs DEF Voraces, Tope
  <1>3. Voraces' => Voraz'
    BY VorazEs, PTL
  <1> QED
    BY <1>2, <1>3

\* When the search ends, no candidate repeats more than the best it keeps: what
\* it did not visit is too far, or too deep in the chain, or cannot be longer.
LEMMA BusquedaAcabada ==
    ASSUME InvCompresor, Busqueda, fase = "buscar", ~ SigueBuscando
    PROVE  Vista(i, mejorLen)
  <1> SUFFICES ASSUME ConHash(i), NEW q \in Candidatas(i)
               PROVE  Comun(q, i, Limite) <= mejorLen
    BY DEF Vista, Limite
  <1>1. /\ i \in Nat /\ n \in Nat /\ i < n /\ cand \in Int /\ cand < i
        /\ pasos \in Nat /\ mejorLen \in Nat /\ MaxDist \in Nat /\ MaxCadena \in Nat
        /\ Limite \in Nat
    BY CompresorAssumption
    DEF CompresorAssumption, InvCompresor, TypeOK, Anteriores, Lugar, Limite
  <1>2. /\ q \in Mismas(i) /\ q \in Nat /\ i - q <= MaxDist
        /\ Cardinality({r \in Mismas(i) : r > q}) < MaxCadena
    BY DEF Candidatas, Mismas
  <1>3. /\ Cardinality({r \in Mismas(i) : r > cand}) = MaxCadena - pasos
        /\ q > cand => Comun(q, i, Limite) <= mejorLen
    BY <1>2 DEF Busqueda
  <1>4. CASE q > cand
    BY <1>3, <1>4
  <1>5. CASE ~ (q > cand)
    <2>1. cand >= 0 /\ i - cand <= MaxDist
      BY <1>1, <1>2, <1>5
    <2>2. pasos > 0
      <3> DEFINE A == {r \in Mismas(i) : r > cand}
                 B == {r \in Mismas(i) : r > q}
      <3>1. A \subseteq B
        BY <1>1, <1>2, <1>5 DEF Mismas
      <3>2. IsFiniteSet(B) /\ Cardinality(A) \in Nat /\ Cardinality(B) \in Nat
        BY <1>1, MismasFinitas
      <3>3. Cardinality(A) <= Cardinality(B)
        BY <3>1, <3>2, FS_Subset
      <3>4. Cardinality(A) = MaxCadena - pasos /\ Cardinality(B) < MaxCadena
        BY <1>2, <1>3
      <3> HIDE DEF A, B
      <3> QED
        BY <1>1, <3>2, <3>3, <3>4
    <2>3. Limite <= mejorLen
      BY <1>1, <2>1, <2>2 DEF SigueBuscando
    <2>4. Comun(q, i, Limite) \in 0 .. Limite
      <3>1. q \in Int /\ i \in Int
        BY <1>1, <1>2
      <3> HIDE DEF Limite
      <3> QED
        BY <1>1, <3>1, ComunEs
    <2> QED
      BY <1>1, <2>3, <2>4
  <1> QED
    BY <1>4, <1>5

LEMMA VorazMirar == InvCompresor /\ CadenasCompletas /\ InvVoraz /\ Mirar => InvVoraz'
  <1> SUFFICES ASSUME InvCompresor, CadenasCompletas, InvVoraz, Mirar PROVE InvVoraz'
    OBVIOUS
  <1>1. /\ UNCHANGED <<entrada, n, i, fichas>>
        /\ pasos' = MaxCadena /\ mejorLen' = 0
        /\ ConHash(i) => cand' = head[hash3(i)]
    BY DEF Mirar
  <1>2. i \in Nat /\ n \in Nat /\ MaxCadena \in Nat
    BY CompresorAssumption DEF CompresorAssumption, InvCompresor, TypeOK
  <1>3. Voraz'
    BY <1>1, VorazIgual DEF InvVoraz
  <1>4. ASSUME ConHash(i)
        PROVE  /\ cand' >= 0 => cand' \in Mismas(i)
               /\ \A q \in Mismas(i) : ~ (q > cand')
    <2>1. hash3(i) \in Cubos
      BY <1>2, <1>4, HashEs, CompresorAssumption DEF InvCompresor, TypeOK
    <2>2. \A q \in 0 .. i - 1 : q \in Insertadas
      BY <1>2, <1>4, CompresorAssumption DEF CompresorAssumption, Insertadas, ConHash
    <2>3. /\ cand' >= 0 => cand' \in Insertadas /\ hash3(cand') = hash3(i)
          /\ \A q \in Insertadas : hash3(q) = hash3(i) => q <= cand'
          /\ cand' \in Int
      BY <1>1, <1>4, <2>1 DEF CadenasCompletas, InvCompresor, TypeOK
    <2>4. cand' >= 0 => cand' \in Mismas(i)
      BY <2>3 DEF Mismas, Insertadas
    <2>5. \A q \in Mismas(i) : q \in Int /\ q <= cand'
      BY <2>2, <2>3 DEF Mismas
    <2> QED
      BY <2>3, <2>4, <2>5
  <1>5. Busqueda'
    <2> SUFFICES ASSUME ConHash(i)
                 PROVE  /\ cand' >= 0 => cand' \in Mismas(i)
                        /\ Cardinality({r \in Mismas(i) : r > cand'}) = 0
                        /\ \A q \in Mismas(i) : ~ (q > cand')
      <3>1. \A q : Mismas(q)' = Mismas(q) /\ ConHash(q)' = ConHash(q)
        BY <1>1, MismoBufer
      <3>2. MaxCadena - pasos' = 0
        BY <1>1, <1>2
      <3>3. Mismas(i)' = Mismas(i) /\ ConHash(i)' = ConHash(i)
        BY <1>1, <3>1
      <3> QED
        BY <1>1, <3>2, <3>3 DEF Busqueda
    <2>1. {r \in Mismas(i) : r > cand'} = {}
      BY <1>4
    <2> QED
      BY <1>4, <2>1, FS_EmptySet
  <1> QED
    BY <1>3, <1>5 DEF InvVoraz

LEMMA VorazProbar == InvCompresor /\ CadenasCompletas /\ InvVoraz /\ Probar => InvVoraz'
  <1> SUFFICES ASSUME InvCompresor, CadenasCompletas, InvVoraz, Probar PROVE InvVoraz'
    OBVIOUS
  <1> DEFINE len == Comun(cand, i, Limite)
             A == {r \in Mismas(i) : r > cand}
             B == {r \in Mismas(i) : r > cand'}
  <1>1. /\ UNCHANGED <<entrada, n, i, fase, fichas>>
        /\ cand' = prev[cand] /\ pasos' = pasos - 1
        /\ fase = "buscar"
    BY DEF Probar
  <1>2. /\ i \in Nat /\ n \in Nat /\ cand \in Nat /\ cand < i /\ i < n
        /\ pasos \in Nat /\ MaxCadena \in Nat /\ mejorLen \in Nat
        /\ cand \in Posiciones
    BY CompresorAssumption
    DEF CompresorAssumption, InvCompresor, TypeOK, Anteriores, Lugar, Probar, SigueBuscando,
        Posiciones
  <1>3. cand' \in Int /\ cand' < cand
    BY <1>1, <1>2 DEF InvCompresor, TypeOK, Anteriores, Posiciones
  <1>4. len \in Nat
    <2>1. Limite \in Nat
      BY <1>2, CompresorAssumption DEF CompresorAssumption, Limite
    <2>2. cand \in Int /\ i \in Int
      BY <1>2
    <2> HIDE DEF Limite
    <2>3. len \in 0 .. Limite
      BY <2>1, <2>2, ComunEs
    <2> HIDE DEF len
    <2> QED
      BY <2>1, <2>3
  <1>5. mejorLen' \in Nat /\ len <= mejorLen' /\ mejorLen <= mejorLen'
    <2>1. \/ len > mejorLen /\ mejorLen' = len
          \/ ~ (len > mejorLen) /\ mejorLen' = mejorLen
      BY DEF Probar
    <2> HIDE DEF len
    <2> QED
      BY <1>2, <1>4, <2>1
  <1>6. Voraz'
    BY <1>1, VorazIgual DEF InvVoraz
  <1>7. ASSUME ConHash(i)
        PROVE  /\ cand \in Mismas(i) /\ Cardinality(A) = MaxCadena - pasos
               /\ \A q \in Mismas(i) : q > cand => Comun(q, i, Limite) <= mejorLen
               /\ cand' >= 0 => cand' \in Mismas(i)
               /\ \A q \in Mismas(i) : q > cand' => q = cand \/ q > cand
    <2>1. /\ cand \in Mismas(i) /\ Cardinality(A) = MaxCadena - pasos
          /\ \A q \in Mismas(i) : q > cand => Comun(q, i, Limite) <= mejorLen
      BY <1>1, <1>2, <1>7 DEF InvVoraz, Busqueda
    <2>2. hash3(cand) = hash3(i) /\ cand \in Insertadas
      BY <1>2, <1>7, <2>1, CompresorAssumption
      DEF CompresorAssumption, Mismas, Insertadas, ConHash
    <2>3. /\ cand' >= 0 => hash3(cand') = hash3(cand)
          /\ \A q \in 0 .. cand - 1 : hash3(q) = hash3(cand) => q <= cand'
      BY <1>1, <2>2 DEF CadenasCompletas
    <2>4. cand' >= 0 => cand' \in Mismas(i)
      BY <1>2, <1>3, <2>2, <2>3 DEF Mismas
    <2>5. ASSUME NEW q \in Mismas(i), q > cand', q # cand, ~ (q > cand) PROVE FALSE
      <3>1. q \in 0 .. cand - 1 /\ hash3(q) = hash3(cand)
        BY <1>2, <2>2, <2>5 DEF Mismas
      <3> QED
        BY <1>3, <2>3, <2>5, <3>1
    <2> QED
      BY <2>1, <2>4, <2>5
  <1>8. Busqueda'
    <2> SUFFICES ASSUME ConHash(i)
                 PROVE  /\ cand' >= 0 => cand' \in Mismas(i)
                        /\ Cardinality(B) = MaxCadena - pasos'
                        /\ \A q \in Mismas(i) : q > cand' => Comun(q, i, Limite) <= mejorLen'
      <3>1. /\ \A p, q, l : Comun(p, q, l)' = Comun(p, q, l)
            /\ \A p : Mismas(p)' = Mismas(p) /\ ConHash(p)' = ConHash(p)
        BY <1>1, MismoBufer
      <3>2. i' = i /\ Limite' = Limite
        BY <1>1 DEF Limite
      <3> QED
        BY <3>1, <3>2 DEF Busqueda
    <2>1. B = A \cup {cand} /\ cand \notin A
      BY <1>2, <1>3, <1>7 DEF Mismas
    <2>2. IsFiniteSet(A) /\ Cardinality(A) \in Nat
      BY <1>2, MismasFinitas
    <2>3. Cardinality(B) = Cardinality(A) + 1
      BY <2>1, <2>2, FS_AddElement
    <2>4. Cardinality(A) = MaxCadena - pasos /\ (cand' >= 0 => cand' \in Mismas(i))
      BY <1>7
    <2>5. ASSUME NEW q \in Mismas(i), q > cand' PROVE Comun(q, i, Limite) <= mejorLen'
      <3>1. CASE q = cand
        BY <1>5, <3>1
      <3>2. CASE q > cand
        <4>1. Comun(q, i, Limite) <= mejorLen
          BY <1>7, <3>2
        <4>2. Comun(q, i, Limite) \in Int
          <5>1. Limite \in Nat /\ q \in Int /\ i \in Int
            BY <1>2, CompresorAssumption DEF CompresorAssumption, Limite, Mismas
          <5> HIDE DEF Limite
          <5>2. Comun(q, i, Limite) \in 0 .. Limite
            BY <5>1, ComunEs
          <5> QED
            BY <5>1, <5>2
        <4> QED
          BY <1>2, <1>5, <4>1, <4>2
      <3> QED
        BY <1>7, <2>5, <3>1, <3>2
    <2> HIDE DEF A, B
    <2>6. Cardinality(B) = MaxCadena - pasos'
      BY <1>1, <1>2, <2>2, <2>3, <2>4
    <2> QED
      BY <2>4, <2>5, <2>6
  <1> QED
    BY <1>6, <1>8 DEF InvVoraz

\* A token is added, at the position coded.
LEMMA VorazMas ==
    ASSUME InvCompresor, Voraz, NEW f \in [en : Nat, lon : Nat, dist : Nat],
           fichas' = Append(fichas, f), Vista(f.en, Tope(f)), UNCHANGED <<entrada, n>>
    PROVE  Voraz'
  <1>1. fichas \in Seq([en : Nat, lon : Nat, dist : Nat])
    BY DEF InvCompresor, TypeOK
  <1>2. \A k \in 1 .. Len(fichas') :
          (k \in 1 .. Len(fichas) /\ fichas'[k] = fichas[k]) \/ fichas'[k] = f
    BY <1>1, Anadida
  <1>3. \A p, tope : Vista(p, tope)' = Vista(p, tope)
    BY MismoBufer
  <1>4. ASSUME NEW k \in 1 .. Len(fichas'), NEW p, NEW tope,
               p = fichas'[k].en, tope = Tope(fichas'[k])
        PROVE  Vista(p, tope)
    <2>1. CASE k \in 1 .. Len(fichas) /\ fichas'[k] = fichas[k]
      BY <1>4, <2>1, VorazEs DEF Voraces
    <2>2. CASE fichas'[k] = f
      BY <1>4, <2>2
    <2> QED
      BY <1>2, <2>1, <2>2
  <1>5. Voraces'
    BY <1>3, <1>4 DEF Voraces, Tope
  <1>6. Voraces' => Voraz'
    BY VorazEs, PTL
  <1> QED
    BY <1>5, <1>6

LEMMA VorazEmitir ==
    ASSUME InvCompresor, InvVoraz, EmitirLiteral \/ EmitirCoincidencia
    PROVE  InvVoraz'
  <1>1. fase = "buscar" /\ ~ SigueBuscando /\ fase' # "buscar" /\ UNCHANGED <<entrada, n>>
    BY DEF EmitirLiteral, EmitirCoincidencia
  <1>2. Vista(i, mejorLen)
    BY <1>1, BusquedaAcabada DEF InvVoraz
  <1>3. /\ i \in Nat /\ mejorLen \in Nat /\ mejorDist \in Nat /\ MinMatch = 3
    BY CompresorAssumption DEF CompresorAssumption, InvCompresor, TypeOK
  <1>4. CASE EmitirLiteral
    <2> DEFINE f == Ficha(1, 0)
    <2>1. f \in [en : Nat, lon : Nat, dist : Nat] /\ fichas' = Append(fichas, f)
          /\ f.en = i /\ Tope(f) = 2 /\ mejorLen <= 2
      BY <1>3, <1>4 DEF EmitirLiteral, Ficha, Tope
    <2> HIDE DEF f
    <2>2. Vista(i, 2)
      <3> SUFFICES ASSUME ConHash(i), NEW q \in Candidatas(i) PROVE Comun(q, i, Limite) <= 2
        BY DEF Vista, Limite
      <3>1. Comun(q, i, Limite) <= mejorLen
        BY <1>2 DEF Vista, Limite
      <3>2. Comun(q, i, Limite) \in Int
        <4>1. Limite \in Nat /\ q \in Int /\ i \in Int
          BY <1>3, CompresorAssumption
          DEF CompresorAssumption, InvCompresor, TypeOK, Limite, Candidatas
        <4> HIDE DEF Limite
        <4>2. Comun(q, i, Limite) \in 0 .. Limite
          BY <4>1, ComunEs
        <4> QED
          BY <4>1, <4>2
      <3> QED
        BY <1>3, <2>1, <3>1, <3>2
    <2> QED
      BY <1>1, <2>1, <2>2, VorazMas DEF InvVoraz, Busqueda
  <1>5. CASE EmitirCoincidencia
    <2> DEFINE f == Ficha(mejorLen, mejorDist)
    <2>1. mejorDist # 0
      BY <1>1, <1>3, <1>5 DEF EmitirCoincidencia, InvCompresor, Hallada
    <2>2. f \in [en : Nat, lon : Nat, dist : Nat] /\ fichas' = Append(fichas, f)
          /\ f.en = i /\ Tope(f) = mejorLen
      BY <1>3, <1>5, <2>1 DEF EmitirCoincidencia, Ficha, Tope
    <2> HIDE DEF f
    <2> QED
      BY <1>1, <1>2, <2>2, VorazMas DEF InvVoraz, Busqueda
  <1> QED
    BY <1>4, <1>5

LEMMA VorazQuieto ==
    ASSUME InvVoraz, InsertarCubierta \/ UNCHANGED varsCompresor
    PROVE  InvVoraz'
  <1>1. UNCHANGED <<entrada, n, fichas>>
    BY DEF InsertarCubierta, varsCompresor
  <1>2. Voraz'
    BY <1>1, VorazIgual DEF InvVoraz
  <1>3. CASE InsertarCubierta
    <2>1. fase' # "buscar"
      BY <1>3 DEF InsertarCubierta
    <2> QED
      BY <1>2, <2>1 DEF InvVoraz, Busqueda
  <1>4. CASE UNCHANGED varsCompresor
    <2>1. /\ UNCHANGED <<fase, i, cand, pasos, mejorLen>>
          /\ Limite' = Limite /\ (\A p : Mismas(p)' = Mismas(p) /\ ConHash(p)' = ConHash(p))
          /\ \A p, q, l : Comun(p, q, l)' = Comun(p, q, l)
      BY <1>1, <1>4, MismoBufer DEF varsCompresor, Limite
    <2> QED
      BY <1>2, <2>1 DEF InvVoraz, Busqueda
  <1> QED
    BY <1>3, <1>4

\* The search is greedy: among the candidates it may look at, within MaxDist and
\* MaxCadena steps of the chain, none repeats more than what was emitted,
\* whatever the buffer, the hash and its collisions.
THEOREM SiempreVoraz == Spec => []Voraz
  <1>1. Init => InvVoraz
    BY DEF Init, InvVoraz, Busqueda, Voraz
  <1>2. InvCompresor /\ CadenasCompletas /\ InvVoraz /\ [Next]_varsCompresor => InvVoraz'
    BY VorazMirar, VorazProbar, VorazEmitir, VorazQuieto DEF Next
  <1>3. InvVoraz => Voraz
    BY DEF InvVoraz
  <1> QED
    BY <1>1, <1>2, <1>3, CompresorInvariante, PTL DEF Spec

-----------------------------------------------------------------------------
(* The tokens.                                                             *)

\* FichasExactas, and where the repetition being inserted ends.
InvExactas == FichasExactas /\ (fase = "insertar" => fin = FinDe(Len(fichas)))

\* The tokens so far are not touched by one more.
LEMMA ExactasMas ==
    ASSUME InvCompresor, NEW f \in [en : Nat, lon : Nat, dist : Nat],
           fichas' = Append(fichas, f), UNCHANGED entrada,
           FichasExactas, f.en = FinDe(Len(fichas)),
           f.dist > 0 => \A p \in f.en .. f.en + f.lon - 1 : entrada[p] = entrada[p - f.dist]
    PROVE  /\ \A k \in 1 .. Len(fichas') :
                 /\ fichas'[k].en = FinDe(k - 1)'
                 /\ fichas'[k].dist > 0 =>
                       \A p \in fichas'[k].en .. fichas'[k].en + fichas'[k].lon - 1 :
                          entrada'[p] = entrada'[p - fichas'[k].dist]
           /\ FinDe(Len(fichas))' = f.en + f.lon
  <1> DEFINE m == Len(fichas)
  <1>1. /\ m \in Nat /\ Len(fichas') = m + 1 /\ fichas'[m + 1] = f
        /\ \A k \in 1 .. m : fichas'[k] = fichas[k]
    BY DEF InvCompresor, TypeOK
  <1>2. FinDe(Len(fichas))' = f.en + f.lon
    BY <1>1 DEF FinDe
  <1>3. \A k \in 0 .. m : FinDe(k)' = FinDe(k)
    BY <1>1 DEF FinDe
  <1>4. ASSUME NEW k \in 1 .. m + 1
        PROVE  /\ fichas'[k].en = FinDe(k - 1)'
               /\ fichas'[k].dist > 0 =>
                     \A p \in fichas'[k].en .. fichas'[k].en + fichas'[k].lon - 1 :
                        entrada[p] = entrada[p - fichas'[k].dist]
    <2>1. k - 1 \in 0 .. m /\ (k = m + 1 => k - 1 = m) /\ (k = m + 1 \/ k \in 1 .. m)
      BY <1>1
    <2>2. FinDe(k - 1)' = FinDe(k - 1)
      BY <1>3, <2>1
    <2>3. CASE k = m + 1
      BY <1>1, <2>1, <2>2, <2>3
    <2>4. CASE k \in 1 .. m
      BY <1>1, <2>2, <2>4 DEF FichasExactas
    <2> QED
      BY <2>1, <2>3, <2>4
  <1> QED
    BY <1>1, <1>2, <1>4

LEMMA ExactasInit == Init => InvExactas
  BY DEF Init, InvExactas, FichasExactas, FinDe

LEMMA ExactasPaso == InvCompresor /\ InvExactas /\ [Next]_varsCompresor => InvExactas'
  <1> SUFFICES ASSUME InvCompresor, InvExactas, [Next]_varsCompresor PROVE InvExactas'
    OBVIOUS
  <1>1. CASE Mirar \/ Probar \/ UNCHANGED varsCompresor
    <2>1. UNCHANGED <<entrada, i, fin, fichas>> /\ (fase' = "insertar" <=> fase = "insertar")
      BY <1>1 DEF Mirar, Probar, varsCompresor
    <2> QED
      BY <2>1 DEF InvExactas, FichasExactas, FinDe
  <1>2. CASE EmitirLiteral
    <2> DEFINE f == Ficha(1, 0)
    <2>1. /\ i \in Nat /\ i' = i + 1 /\ fase' = "mirar" /\ entrada' = entrada
          /\ fichas' = Append(fichas, f) /\ i = FinDe(Len(fichas))
      BY <1>2 DEF EmitirLiteral, InvCompresor, TypeOK, InvExactas, FichasExactas
    <2>2. f \in [en : Nat, lon : Nat, dist : Nat] /\ f.en = i /\ f.lon = 1 /\ f.dist = 0
      BY <2>1 DEF Ficha
    <2> HIDE DEF f
    <2> QED
      BY <2>1, <2>2, ExactasMas DEF InvExactas, FichasExactas
  <1>3. CASE EmitirCoincidencia
    <2> DEFINE f == Ficha(mejorLen, mejorDist)
    <2>1. /\ i \in Nat /\ fase' = "insertar" /\ entrada' = entrada /\ i' = i
          /\ fin' = i + mejorLen /\ mejorLen \in Nat /\ mejorDist \in Nat
          /\ fichas' = Append(fichas, f) /\ i = FinDe(Len(fichas))
      BY <1>3 DEF EmitirCoincidencia, InvCompresor, TypeOK, InvExactas, FichasExactas
    <2>2. f \in [en : Nat, lon : Nat, dist : Nat] /\ f.en = i /\ f.lon = mejorLen
          /\ f.dist = mejorDist
      BY <2>1 DEF Ficha
    <2> HIDE DEF f
    <2>3. \A p \in i .. i + mejorLen - 1 : entrada[p] = entrada[p - mejorDist]
      <3>1. Cubierta'
        BY <1>3, PasoCoincidencia DEF InvCompresor
      <3>2. mejorDist' = mejorDist
        BY <1>3 DEF EmitirCoincidencia
      <3> QED
        BY <2>1, <3>1, <3>2 DEF Cubierta
    <2> QED
      BY <2>1, <2>2, <2>3, ExactasMas DEF InvExactas, FichasExactas
  <1>4. CASE InsertarCubierta
    <2>1. /\ UNCHANGED <<entrada, fin, fichas>> /\ i' = i + 1
          /\ fase' = IF i + 1 < fin THEN "insertar" ELSE "mirar"
          /\ i \in Nat /\ fin \in Nat /\ i < fin /\ fin = FinDe(Len(fichas))
      BY <1>4 DEF InsertarCubierta, InvCompresor, TypeOK, Lugar, InvExactas
    <2>2. fase' # "insertar" => i' = fin
      BY <2>1
    <2> QED
      BY <2>1, <2>2 DEF InvExactas, FichasExactas, FinDe
  <1> QED
    BY <1>1, <1>2, <1>3, <1>4 DEF Next

\* Whatever the buffer, the tokens tile it and tell each of its bytes: an inflate
\* that follows them cannot give anything else.
THEOREM FichasSiempreExactas == Spec => []FichasExactas
  <1>1. InvExactas => FichasExactas
    BY DEF InvExactas
  <1> QED
    BY <1>1, ExactasInit, ExactasPaso, CompresorInvariante, PTL DEF Spec

-----------------------------------------------------------------------------
(* The end of the loops.                                                   *)

\* How many turns of its loops comprimirZlib has left, at most: for each byte to
\* come, its look, its search, its token and its insertion; and what is left of
\* the present one.
Rango ==
    (n - i) * (MaxCadena + 3)
        + (CASE fase = "mirar" -> MaxCadena + 2 [] fase = "buscar" -> pasos + 1 [] OTHER -> 0)

\* A byte less is MaxCadena + 3 turns less.
LEMMA UnByteMenos ==
    ASSUME NEW m \in Nat, NEW c \in Nat, m > 0
    PROVE  /\ m * (c + 3) \in Nat
           /\ (m - 1) * (c + 3) = m * (c + 3) - (c + 3)
           /\ (m - 1) * (c + 3) \in Nat
  <1>1. m - 1 \in Nat
    OBVIOUS
  <1> QED
    BY <1>1

LEMMA RangoNatural == InvCompresor => Rango \in Nat
  <1> SUFFICES ASSUME InvCompresor PROVE Rango \in Nat
    OBVIOUS
  <1>1. n - i \in Nat /\ MaxCadena \in Nat /\ pasos \in Nat
    BY CompresorAssumption DEF CompresorAssumption, InvCompresor, TypeOK
  <1> DEFINE a == (n - i) * (MaxCadena + 3)
             b == CASE fase = "mirar" -> MaxCadena + 2 [] fase = "buscar" -> pasos + 1
                    [] OTHER -> 0
  <1>2. a \in Nat
    BY <1>1
  <1>3. b \in Nat
    BY <1>1
  <1>4. Rango = a + b
    BY DEF Rango
  <1> HIDE DEF a, b
  <1> QED
    BY <1>2, <1>3, <1>4

LEMMA RangoBaja == InvCompresor /\ Next => Rango' < Rango
  <1> SUFFICES ASSUME InvCompresor, Next PROVE Rango' < Rango
    OBVIOUS
  <1> DEFINE a == (n - i) * (MaxCadena + 3)
             b == CASE fase = "mirar" -> MaxCadena + 2 [] fase = "buscar" -> pasos + 1
                    [] OTHER -> 0
  <1>1. /\ i \in Nat /\ n \in Nat /\ MaxCadena \in Nat /\ pasos \in Nat /\ i <= n
        /\ fin \in 0 .. n
    BY CompresorAssumption DEF CompresorAssumption, InvCompresor, TypeOK
  <1>2. a \in Nat
    <2>1. n - i \in Nat
      BY <1>1
    <2> QED
      BY <1>1, <2>1
  <1>3. Rango = a + b
    BY DEF Rango
  <1>4. CASE Mirar
    <2>1. /\ UNCHANGED <<n, i>> /\ fase = "mirar" /\ fase' = "buscar" /\ pasos' = MaxCadena
      BY <1>4 DEF Mirar
    <2>2. Rango' = a + (MaxCadena + 1) /\ b = MaxCadena + 2
      BY <2>1 DEF Rango
    <2> HIDE DEF a, b
    <2> QED
      BY <1>1, <1>2, <1>3, <2>2
  <1>5. CASE Probar
    <2>1. UNCHANGED <<n, i, fase>> /\ fase = "buscar" /\ pasos' = pasos - 1
      BY <1>5 DEF Probar
    <2>2. Rango' = a + ((pasos - 1) + 1) /\ b = pasos + 1
      BY <2>1 DEF Rango
    <2> HIDE DEF a, b
    <2> QED
      BY <1>1, <1>2, <1>3, <2>2
  <1>6. CASE EmitirCoincidencia
    <2>1. UNCHANGED <<n, i, pasos>> /\ fase = "buscar" /\ fase' = "insertar"
      BY <1>6 DEF EmitirCoincidencia
    <2>2. Rango' = a + 0 /\ b = pasos + 1
      BY <2>1 DEF Rango
    <2> HIDE DEF a, b
    <2> QED
      BY <1>1, <1>2, <1>3, <2>2
  <1>7. CASE EmitirLiteral \/ InsertarCubierta
    <2>1. /\ n' = n /\ i' = i + 1 /\ fase \in {"buscar", "insertar"}
          /\ fase' \in {"mirar", "insertar"} /\ i < n
      BY <1>1, <1>7 DEF EmitirLiteral, InsertarCubierta, InvCompresor, Lugar
    <2> DEFINE a1 == ((n - i) - 1) * (MaxCadena + 3)
               b1 == IF fase' = "mirar" THEN MaxCadena + 2 ELSE 0
    <2>2. a1 = a - (MaxCadena + 3)
      <3>1. n - i \in Nat /\ n - i > 0
        BY <1>1, <2>1
      <3> QED
        BY <1>1, <3>1, UnByteMenos
    <2>3. n' - i' = (n - i) - 1
      BY <1>1, <2>1
    <2>4. Rango' = a1 + b1
      BY <2>1, <2>3 DEF Rango
    <2>5. b \in Nat /\ b1 \in Nat /\ b1 <= MaxCadena + 2
      BY <1>1
    <2> HIDE DEF a, b, a1, b1
    <2> QED
      BY <1>1, <1>2, <1>3, <2>2, <2>4, <2>5
  <1> QED
    BY <1>4, <1>5, <1>6, <1>7 DEF Next

\* Every turn of the loops of comprimirZlib brings their end nearer, in a
\* count that begins at (n + 1) * (MaxCadena + 3) - 1 and is never negative: they
\* cannot go on for ever, whatever the buffer, the hash and the limits.
THEOREM BucleAcotado == Spec => [](Rango \in Nat) /\ [][Rango' < Rango]_varsCompresor
  <1>1. InvCompresor => Rango \in Nat
    BY RangoNatural
  <1>2. InvCompresor /\ [Next]_varsCompresor => [Rango' < Rango]_varsCompresor
    BY RangoBaja
  <1> QED
    BY <1>1, <1>2, CompresorInvariante, PTL DEF Spec
==============================================================================
