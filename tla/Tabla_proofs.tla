----------------------------- MODULE Tabla_proofs -----------------------------
(***************************************************************************)
(* What holds of a compressed table on its way, for every buffer of any    *)
(* size, every key, every split into fragments and every order of their    *)
(* arrival: the records are read as they were grouped, the codes leave no  *)
(* gap, the stream fits the callers' buffers, the stored stream gives back *)
(* its input, and the client inflates the table that was compressed.       *)
(*                                                                         *)
(* The codecs are recursive functions over sequences.  What they compute   *)
(* takes an induction, and no prover here takes one as a rule: Induccion   *)
(* states it for a set of numbers, from the least element that Menor       *)
(* gives, and Iterada and HayAdelante say, with it, that a function which  *)
(* goes on from one position to a later one exists, and so that the        *)
(* recursive definition is the function its equation describes.            *)
(***************************************************************************)
EXTENDS Tabla, Compresor_proofs, SequenceTheorems

LEMMA Induccion ==
    ASSUME NEW n0 \in Nat, NEW T, 0 \in T, \A k \in 0 .. n0 - 1 : k \in T => k + 1 \in T
    PROVE  0 .. n0 \subseteq T
  <1> DEFINE Fuera == (0 .. n0) \ T
  <1> SUFFICES ASSUME Fuera # {} PROVE FALSE
    OBVIOUS
  <1>1. Fuera \subseteq Nat
    OBVIOUS
  <1>2. PICK x \in Fuera : \A y \in Fuera : x <= y
    BY <1>1, Menor
  <1>3. x \in 1 .. n0 /\ x - 1 \notin Fuera
    BY <1>2
  <1>4. x - 1 \in T /\ x - 1 \in 0 .. n0 - 1
    BY <1>3
  <1>5. (x - 1) + 1 \in T
    BY <1>4
  <1> QED
    BY <1>2, <1>5

\* f iterates paso from base on, n0 times.
Iteracion(f, S, n0, base, paso) ==
    /\ f \in [0 .. n0 -> S] /\ f[0] = base
    /\ \A k \in 1 .. n0 : f[k] = paso[<<f[k - 1], k>>]

LEMMA Iterada ==
    ASSUME NEW S, NEW n0 \in Nat, NEW base \in S, NEW paso \in [S \X (1 .. n0) -> S]
    PROVE  \E f : Iteracion(f, S, n0, base, paso)
  <1> DEFINE Bien(m, f) == f[0] = base /\ \A k \in 1 .. m : f[k] = paso[<<f[k - 1], k>>]
             T == {m \in 0 .. n0 : \E f \in [0 .. n0 -> S] : Bien(m, f)}
  <1>1. 0 \in T
    <2> DEFINE f == [k \in 0 .. n0 |-> base]
    <2>1. f \in [0 .. n0 -> S] /\ Bien(0, f)
      OBVIOUS
    <2> HIDE DEF f
    <2> QED
      BY <2>1
  <1>2. ASSUME NEW m \in 0 .. n0 - 1, m \in T PROVE m + 1 \in T
    <2>1. PICK f \in [0 .. n0 -> S] : Bien(m, f)
      BY <1>2
    <2> DEFINE g == [f EXCEPT ![m + 1] = paso[<<f[m], m + 1>>]]
    <2>2. <<f[m], m + 1>> \in S \X (1 .. n0)
      OBVIOUS
    <2>3. g \in [0 .. n0 -> S]
      BY <2>2
    <2>4. g[0] = base
      BY <2>1
    <2>5. ASSUME NEW k \in 1 .. m + 1 PROVE g[k] = paso[<<g[k - 1], k>>]
      <3>1. CASE k = m + 1
        <4>1. g[k - 1] = f[m] /\ g[k] = paso[<<f[m], m + 1>>]
          BY <3>1
        <4> QED
          BY <4>1, <3>1
      <3>2. CASE k # m + 1
        <4>1. k \in 1 .. m /\ g[k] = f[k] /\ g[k - 1] = f[k - 1]
          BY <3>2
        <4> QED
          BY <4>1, <2>1
      <3> QED
        BY <3>1, <3>2
    <2>6. Bien(m + 1, g)
      BY <2>4, <2>5
    <2> HIDE DEF g, Bien
    <2> QED
      BY <2>3, <2>6
  <1>3. 0 .. n0 \subseteq T
    <2> HIDE DEF T
    <2> QED
      BY <1>1, <1>2, Induccion
  <1>4. n0 \in T
    BY <1>3
  <1>5. PICK f \in [0 .. n0 -> S] : Bien(n0, f)
    BY <1>4
  <1> QED
    BY <1>5 DEF Iteracion

\* digits
LEMMA Digitos ==
    ASSUME NEW v \in Octeto
    PROVE  v = (v % 2) + 2 * ((v \div 2) % 2) + 4 * ((v \div 4) % 2) + 8 * ((v \div 8) % 2)
               + 16 * ((v \div 16) % 2) + 32 * ((v \div 32) % 2) + 64 * ((v \div 64) % 2)
               + 128 * ((v \div 128) % 2)
  BY SMT DEF Octeto

Suma8(a, b, c, d, e, f, g, h) == a + 2*b + 4*c + 8*d + 16*e + 32*f + 64*g + 128*h

LEMMA DeDigitos ==
    ASSUME NEW a \in 0 .. 1, NEW b \in 0 .. 1, NEW c \in 0 .. 1, NEW d \in 0 .. 1,
           NEW e \in 0 .. 1, NEW f \in 0 .. 1, NEW g \in 0 .. 1, NEW h \in 0 .. 1
    PROVE  LET v == Suma8(a, b, c, d, e, f, g, h) IN
           /\ v \in Octeto
           /\ v % 2 = a /\ (v \div 2) % 2 = b /\ (v \div 4) % 2 = c /\ (v \div 8) % 2 = d
           /\ (v \div 16) % 2 = e /\ (v \div 32) % 2 = f /\ (v \div 64) % 2 = g
           /\ (v \div 128) % 2 = h
  BY SMT DEF Octeto, Suma8

Peso(a, b, k) == IF (a \div k) % 2 = (b \div k) % 2 THEN 0 ELSE 1

LEMMA XorPesos ==
    ASSUME NEW a \in Octeto, NEW b \in Octeto
    PROVE  XorOcteto(a, b) = Suma8(Peso(a, b, 1), Peso(a, b, 2), Peso(a, b, 4), Peso(a, b, 8),
                             Peso(a, b, 16), Peso(a, b, 32), Peso(a, b, 64), Peso(a, b, 128))
  <1>1. \A k \in Nat : Peso(a, b, k) \in {0, 1}
    BY DEF Peso
  <1>2. ASSUME NEW k \in Nat 
        PROVE (IF (a \div k) % 2 = (b \div k) % 2 THEN 0 ELSE k) = k * Peso(a, b, k)
    BY SMT DEF Peso
  <1> HIDE DEF Peso
  <1>3. XorOcteto(a, b) = 1 * Peso(a, b, 1) + 2 * Peso(a, b, 2) + 4 * Peso(a, b, 4) + 8 * Peso(a, b, 8)
                + 16 * Peso(a, b, 16) + 32 * Peso(a, b, 32) + 64 * Peso(a, b, 64) + 128 * Peso(a, b, 128)
    BY <1>2, SMT DEF XorOcteto
  <1> QED
    BY <1>1, <1>3, SMT DEF Suma8
LEMMA XorEs ==
    ASSUME NEW a \in Octeto, NEW b \in Octeto
    PROVE  XorOcteto(a, b) \in Octeto /\ XorOcteto(XorOcteto(a, b), b) = a
  <1> DEFINE x == XorOcteto(a, b)
             P(k) == Peso(a, b, k)
  <1>1. \A k \in Nat : P(k) \in 0 .. 1
    BY DEF Peso
  <1>2. x = Suma8(P(1), P(2), P(4), P(8), P(16), P(32), P(64), P(128))
    BY XorPesos
  <1> HIDE DEF P, x
  <1>3. /\ x \in Octeto
        /\ x % 2 = P(1) /\ (x \div 2) % 2 = P(2) /\ (x \div 4) % 2 = P(4)
        /\ (x \div 8) % 2 = P(8) /\ (x \div 16) % 2 = P(16) /\ (x \div 32) % 2 = P(32)
        /\ (x \div 64) % 2 = P(64) /\ (x \div 128) % 2 = P(128)
    BY <1>1, <1>2, DeDigitos
  <1>4. (x \div 1) % 2 = P(1)
    BY <1>3, SMT DEF Octeto
  <1>5. ASSUME NEW k \in {1, 2, 4, 8, 16, 32, 64, 128} PROVE Peso(x, b, k) = (a \div k) % 2
    <2>1. (x \div k) % 2 = P(k)
      BY <1>3, <1>4
    <2>2. (a \div k) % 2 \in 0 .. 1 /\ (b \div k) % 2 \in 0 .. 1
      BY SMT DEF Octeto
    <2> QED
      BY <2>1, <2>2 DEF P, Peso
  <1>6. XorOcteto(x, b) = Suma8(Peso(x, b, 1), Peso(x, b, 2), Peso(x, b, 4), Peso(x, b, 8),
                             Peso(x, b, 16), Peso(x, b, 32), Peso(x, b, 64), Peso(x, b, 128))
    BY <1>3, XorPesos
  <1>7. XorOcteto(x, b) = Suma8((a \div 1) % 2, (a \div 2) % 2, (a \div 4) % 2, (a \div 8) % 2,
                       (a \div 16) % 2, (a \div 32) % 2, (a \div 64) % 2, (a \div 128) % 2)
    BY <1>5, <1>6
  <1>8. (a \div 1) % 2 = a % 2
    BY SMT DEF Octeto
  <1>9. XorOcteto(x, b) = a
    BY <1>7, <1>8, Digitos, SMT DEF Suma8, Octeto
  <1> QED
    BY <1>3, <1>9 DEF x

Clave == [1 .. 4 -> Octeto]

LEMMA MascaradaEs ==
    ASSUME NEW K \in Clave, NEW j \in Nat \ {0}, NEW a \in Octeto
    PROVE  Mascarada(K, j, a) \in Octeto
  <1>1. (((j - 1) \div 4) % 4) + 1 \in 1 .. 4 /\ (j - 1) % 256 \in Octeto
    BY SMT DEF Octeto
  <1>2. K[(((j - 1) \div 4) % 4) + 1] \in Octeto
    BY <1>1 DEF Clave
  <1>3. XorOcteto(K[(((j - 1) \div 4) % 4) + 1], (j - 1) % 256) \in Octeto
    BY <1>1, <1>2, XorEs
  <1> QED
    BY <1>3, XorEs DEF Mascarada

\* What enciphering gives: as many bytes, each from the enciphered one before it.
Anterior(c, j) == IF j = 1 THEN SEMILLA ELSE c[j - 1]

LEMMA AnteriorEs ==
    ASSUME NEW c \in Seq(Octeto), NEW j \in 1 .. Len(c) + 1
    PROVE  Anterior(c, j) \in Octeto
  <1>1. SEMILLA \in Octeto
    BY DEF SEMILLA, Octeto
  <1>2. j # 1 => c[j - 1] \in Octeto
    OBVIOUS
  <1> QED
    BY <1>1, <1>2 DEF Anterior

LEMMA CifrarEs ==
    ASSUME NEW p \in Seq(Octeto), NEW K \in Clave
    PROVE  /\ cifrar(p, K) \in Seq(Octeto) /\ Len(cifrar(p, K)) = Len(p)
           /\ \A j \in 1 .. Len(p) :
                 cifrar(p, K)[j] = XorOcteto(p[j], Mascarada(K, j, Anterior(cifrar(p, K), j)))
  <1> DEFINE Sig(s, j) == Append(s, XorOcteto(p[j], Mascarada(K, j, IF j = 1 THEN SEMILLA ELSE s[j - 1])))
             Bien(f, m) == /\ f \in [0 .. Len(p) -> Seq(Octeto)]
                           /\ \A j \in 0 .. m : Len(f[j]) = j
                           /\ \A j \in 0 .. m : f[j] = IF j = 0 THEN << >> ELSE Sig(f[j - 1], j)
             T == {m \in 0 .. Len(p) : \E f : Bien(f, m)}
             c[j \in 0 .. Len(p)] ==
                IF j = 0 THEN << >>
                ELSE LET antes == c[j - 1] IN
                     Append(antes, XorOcteto(p[j], Mascarada(K, j, IF j = 1 THEN SEMILLA ELSE antes[j - 1])))
  <1>0. cifrar(p, K) = c[Len(p)]
    BY DEF cifrar
  <1>1. 0 \in T
    <2> DEFINE f == [k \in 0 .. Len(p) |-> << >>]
    <2>1. Bien(f, 0)
      OBVIOUS
    <2> QED
      BY <2>1
  <1>2. ASSUME NEW m \in 0 .. Len(p) - 1, m \in T PROVE m + 1 \in T
    <2>1. PICK f : Bien(f, m)
      BY <1>2
    <2>2. p[m + 1] \in Octeto /\ f[m] \in Seq(Octeto) /\ Len(f[m]) = m
      BY <2>1
    <2>3. Anterior(f[m], m + 1) \in Octeto
      BY <2>2, AnteriorEs
    <2>4. Sig(f[m], m + 1) \in Seq(Octeto) /\ Len(Sig(f[m], m + 1)) = m + 1
      <3>1. XorOcteto(p[m + 1], Mascarada(K, m + 1, Anterior(f[m], m + 1))) \in Octeto
        BY <2>2, <2>3, MascaradaEs, XorEs
      <3> QED
        BY <3>1, <2>2 DEF Anterior
    <2> DEFINE g == [f EXCEPT ![m + 1] = Sig(f[m], m + 1)]
    <2> HIDE DEF Sig
    <2>5. g \in [0 .. Len(p) -> Seq(Octeto)] /\ \A j \in 0 .. m : g[j] = f[j]
      BY <2>1, <2>4
    <2>6. g[m + 1] = Sig(g[m], m + 1) /\ Len(g[m + 1]) = m + 1
      BY <2>1, <2>4, <2>5
    <2> HIDE DEF g
    <2>7. ASSUME NEW j \in 0 .. m + 1
          PROVE  Len(g[j]) = j /\ g[j] = IF j = 0 THEN << >> ELSE Sig(g[j - 1], j)
      <3>1. CASE j = m + 1
        BY <3>1, <2>6
      <3>2. CASE j \in 0 .. m
        BY <3>2, <2>1, <2>5
      <3> QED
        BY <3>1, <3>2
    <2>8. Bien(g, m + 1)
      BY <2>5, <2>7
    <2> HIDE DEF Bien
    <2> QED
      BY <2>8
  <1>3. 0 .. Len(p) \subseteq T
    <2> HIDE DEF T
    <2> QED
      BY <1>1, <1>2, Induccion
  <1>4. PICK f : Bien(f, Len(p))
    <2>1. Len(p) \in T
      <3> HIDE DEF T
      <3> QED
        BY <1>3
    <2> HIDE DEF Bien
    <2> QED
      BY <2>1
  <1>5. f = [j \in 0 .. Len(p) |-> IF j = 0 THEN << >> ELSE Sig(f[j - 1], j)]
    <2> HIDE DEF Sig
    <2> QED
      BY <1>4
  <1>6. c = [j \in 0 .. Len(p) |-> IF j = 0 THEN << >> ELSE Sig(c[j - 1], j)]
    BY <1>5
  <1> DEFINE Cifrados(m) ==
                /\ c[m] \in Seq(Octeto) /\ Len(c[m]) = m
                /\ \A j \in 1 .. m : c[m][j] = XorOcteto(p[j], Mascarada(K, j, Anterior(c[m], j)))
             U == {m \in 0 .. Len(p) : Cifrados(m)}
  <1> HIDE DEF c, Sig
  <1>7. 0 \in U
    <2>1. c[0] = << >>
      BY <1>6
    <2>2. c[0] \in Seq(Octeto) /\ Len(c[0]) = 0
      BY <2>1
    <2>3. Cifrados(0)
      BY <2>2
    <2> HIDE DEF Cifrados
    <2> QED
      BY <2>3
  <1>8. ASSUME NEW m \in 0 .. Len(p) - 1, m \in U PROVE m + 1 \in U
    <2>1. c[m] \in Seq(Octeto) /\ Len(c[m]) = m
      BY <1>8
    <2> DEFINE b == XorOcteto(p[m + 1], Mascarada(K, m + 1, Anterior(c[m], m + 1)))
    <2>2. Anterior(c[m], m + 1) \in Octeto
      BY <2>1, AnteriorEs
    <2>3. b \in Octeto
      BY <2>2, MascaradaEs, XorEs
    <2>4. c[m + 1] = Append(c[m], b)
      <3>1. m + 1 \in 0 .. Len(p) /\ m + 1 # 0 /\ (m + 1) - 1 = m
        OBVIOUS
      <3>2. c[m + 1] = Sig(c[m], m + 1)
        BY <1>6, <3>1
      <3>3. Sig(c[m], m + 1) = Append(c[m], b)
        BY DEF Anterior, Sig
      <3> QED
        BY <3>2, <3>3
    <2> HIDE DEF b
    <2>5. c[m + 1] \in Seq(Octeto) /\ Len(c[m + 1]) = m + 1 /\ c[m + 1][m + 1] = b
      BY <2>1, <2>3, <2>4
    <2>6. \A j \in 1 .. m : c[m + 1][j] = c[m][j]
      BY <2>1, <2>3, <2>4
    <2>7. \A j \in 1 .. m + 1 : Anterior(c[m + 1], j) = Anterior(c[m], j)
      BY <2>6 DEF Anterior
    <2>8. ASSUME NEW j \in 1 .. m + 1
          PROVE c[m + 1][j] = XorOcteto(p[j], Mascarada(K, j, Anterior(c[m + 1], j)))
      <3>1. CASE j = m + 1
        BY <3>1, <2>5, <2>7 DEF b
      <3>2. CASE j \in 1 .. m
        BY <3>2, <2>6, <2>7, <1>8
      <3> QED
        BY <3>1, <3>2
    <2>9. Cifrados(m + 1)
      BY <2>5, <2>8
    <2> QED
      BY <2>9
  <1>9. 0 .. Len(p) \subseteq U
    <2> HIDE DEF U
    <2> QED
      BY <1>7, <1>8, Induccion
  <1>10. Cifrados(Len(p))
    BY <1>9
  <1> QED
    BY <1>0, <1>10

\* The client reads what the server wrote, and the other way round.
LEMMA DescifrarEs ==
    ASSUME NEW p \in Seq(Octeto), NEW K \in Clave
    PROVE  descifrar(cifrar(p, K), K) = p
  <1> DEFINE c == cifrar(p, K)
  <1>1. /\ c \in Seq(Octeto) /\ Len(c) = Len(p)
        /\ \A j \in 1 .. Len(p) : c[j] = XorOcteto(p[j], Mascarada(K, j, Anterior(c, j)))
    BY CifrarEs
  <1> HIDE DEF c
  <1>2. ASSUME NEW j \in 1 .. Len(p) PROVE XorOcteto(c[j], Mascarada(K, j, Anterior(c, j))) = p[j]
    <2>1. Anterior(c, j) \in Octeto
      BY <1>1, AnteriorEs
    <2> QED
      BY <1>1, <2>1, MascaradaEs, XorEs
  <1>3. descifrar(c, K) = [j \in 1 .. Len(p) |-> p[j]]
    BY <1>1, <1>2 DEF descifrar, Anterior
  <1> QED
    BY <1>3 DEF c

-----------------------------------------------------------------------------
(* Bits.                                                                   *)

LEMMA Potencias ==
    /\ 2^0 = 1
    /\ 2^1 = 2
    /\ 2^2 = 4
    /\ 2^3 = 8
    /\ 2^4 = 16
    /\ 2^5 = 32
    /\ 2^6 = 64
    /\ 2^7 = 128
    /\ 2^8 = 256
    /\ 2^9 = 512
    /\ 2^10 = 1024
    /\ 2^11 = 2048
    /\ 2^12 = 4096
    /\ 2^13 = 8192
  BY SMT

LEMMA PotenciaEs ==
    ASSUME NEW k \in 0 .. 13
    PROVE  2^k \in Nat \ {0}
  <1>0. CASE k = 0
    BY <1>0, Potencias
  <1>1. CASE k = 1
    BY <1>1, Potencias
  <1>2. CASE k = 2
    BY <1>2, Potencias
  <1>3. CASE k = 3
    BY <1>3, Potencias
  <1>4. CASE k = 4
    BY <1>4, Potencias
  <1>5. CASE k = 5
    BY <1>5, Potencias
  <1>6. CASE k = 6
    BY <1>6, Potencias
  <1>7. CASE k = 7
    BY <1>7, Potencias
  <1>8. CASE k = 8
    BY <1>8, Potencias
  <1>9. CASE k = 9
    BY <1>9, Potencias
  <1>10. CASE k = 10
    BY <1>10, Potencias
  <1>11. CASE k = 11
    BY <1>11, Potencias
  <1>12. CASE k = 12
    BY <1>12, Potencias
  <1>13. CASE k = 13
    BY <1>13, Potencias
  <1> QED
    BY <1>0, <1>1, <1>2, <1>3, <1>4, <1>5, <1>6, <1>7, <1>8, <1>9, <1>10, <1>11, <1>12, <1>13

\* A number is its low digits and the digits above them.
LEMMA CifraEs ==
    ASSUME NEW w \in Nat, NEW k \in 1 .. 13
    PROVE  /\ (w \div 2^(k - 1)) % 2 \in 0 .. 1
           /\ w % 2^(k - 1) \in Nat
           /\ (w % 2^(k - 1)) + ((w \div 2^(k - 1)) % 2) * 2^(k - 1) = w % 2^k
  <1>1. CASE k = 1
    <2>1. 2^(k - 1) = 1 /\ 2^k = 2
      BY <1>1, Potencias
    <2>2. (w % 1) + ((w \div 1) % 2) * 1 = w % 2
      BY SMT
    <2> QED
      BY <2>1, <2>2
  <1>2. CASE k = 2
    <2>1. 2^(k - 1) = 2 /\ 2^k = 4
      BY <1>2, Potencias
    <2>2. (w % 2) + ((w \div 2) % 2) * 2 = w % 4
      BY SMT
    <2> QED
      BY <2>1, <2>2
  <1>3. CASE k = 3
    <2>1. 2^(k - 1) = 4 /\ 2^k = 8
      BY <1>3, Potencias
    <2>2. (w % 4) + ((w \div 4) % 2) * 4 = w % 8
      BY SMT
    <2> QED
      BY <2>1, <2>2
  <1>4. CASE k = 4
    <2>1. 2^(k - 1) = 8 /\ 2^k = 16
      BY <1>4, Potencias
    <2>2. (w % 8) + ((w \div 8) % 2) * 8 = w % 16
      BY SMT
    <2> QED
      BY <2>1, <2>2
  <1>5. CASE k = 5
    <2>1. 2^(k - 1) = 16 /\ 2^k = 32
      BY <1>5, Potencias
    <2>2. (w % 16) + ((w \div 16) % 2) * 16 = w % 32
      BY SMT
    <2> QED
      BY <2>1, <2>2
  <1>6. CASE k = 6
    <2>1. 2^(k - 1) = 32 /\ 2^k = 64
      BY <1>6, Potencias
    <2>2. (w % 32) + ((w \div 32) % 2) * 32 = w % 64
      BY SMT
    <2> QED
      BY <2>1, <2>2
  <1>7. CASE k = 7
    <2>1. 2^(k - 1) = 64 /\ 2^k = 128
      BY <1>7, Potencias
    <2>2. (w % 64) + ((w \div 64) % 2) * 64 = w % 128
      BY SMT
    <2> QED
      BY <2>1, <2>2
  <1>8. CASE k = 8
    <2>1. 2^(k - 1) = 128 /\ 2^k = 256
      BY <1>8, Potencias
    <2>2. (w % 128) + ((w \div 128) % 2) * 128 = w % 256
      BY SMT
    <2> QED
      BY <2>1, <2>2
  <1>9. CASE k = 9
    <2>1. 2^(k - 1) = 256 /\ 2^k = 512
      BY <1>9, Potencias
    <2>2. (w % 256) + ((w \div 256) % 2) * 256 = w % 512
      BY SMT
    <2> QED
      BY <2>1, <2>2
  <1>10. CASE k = 10
    <2>1. 2^(k - 1) = 512 /\ 2^k = 1024
      BY <1>10, Potencias
    <2>2. (w % 512) + ((w \div 512) % 2) * 512 = w % 1024
      BY SMT
    <2> QED
      BY <2>1, <2>2
  <1>11. CASE k = 11
    <2>1. 2^(k - 1) = 1024 /\ 2^k = 2048
      BY <1>11, Potencias
    <2>2. (w % 1024) + ((w \div 1024) % 2) * 1024 = w % 2048
      BY SMT
    <2> QED
      BY <2>1, <2>2
  <1>12. CASE k = 12
    <2>1. 2^(k - 1) = 2048 /\ 2^k = 4096
      BY <1>12, Potencias
    <2>2. (w % 2048) + ((w \div 2048) % 2) * 2048 = w % 4096
      BY SMT
    <2> QED
      BY <2>1, <2>2
  <1>13. CASE k = 13
    <2>1. 2^(k - 1) = 4096 /\ 2^k = 8192
      BY <1>13, Potencias
    <2>2. (w % 4096) + ((w \div 4096) % 2) * 4096 = w % 8192
      BY SMT
    <2> QED
      BY <2>1, <2>2
  <1> QED
    BY <1>1, <1>2, <1>3, <1>4, <1>5, <1>6, <1>7, <1>8, <1>9, <1>10, <1>11, <1>12, <1>13

Bit(z, p) == IF p \div 8 < Len(z) THEN (z[p \div 8 + 1] \div 2^(p % 8)) % 2 ELSE 0

\* What is read low bit first.
LEMMA BitsBajosEs ==
    ASSUME NEW z, NEW b \in Nat, NEW l \in 0 .. 13, NEW w \in Nat,
           \A k \in 1 .. l : Bit(z, b + k - 1) = (w \div 2^(k - 1)) % 2
    PROVE  BitsBajos(z, b, l) = w % 2^l
  <1> DEFINE v[k \in 0 .. l] == IF k = 0 THEN 0 ELSE v[k - 1] + Bit(z, b + k - 1) * 2^(k - 1)
             f == [k \in 0 .. l |-> w % 2^k]
  <1>1. BitsBajos(z, b, l) = v[l]
    BY DEF BitsBajos, Bit
  <1>2. f = [k \in 0 .. l |-> IF k = 0 THEN 0 ELSE f[k - 1] + Bit(z, b + k - 1) * 2^(k - 1)]
    <2>1. w % 2^0 = 0
      BY Potencias
    <2>2. ASSUME NEW k \in 1 .. l
          PROVE  w % 2^k = (w % 2^(k - 1)) + Bit(z, b + k - 1) * 2^(k - 1)
      <3>1. k \in 1 .. 13
        OBVIOUS
      <3>2. (w % 2^(k - 1)) + ((w \div 2^(k - 1)) % 2) * 2^(k - 1) = w % 2^k
        BY <3>1, CifraEs
      <3> QED
        BY <3>2
    <2>3. ASSUME NEW k \in 0 .. l
          PROVE  f[k] = IF k = 0 THEN 0 ELSE f[k - 1] + Bit(z, b + k - 1) * 2^(k - 1)
      <3>1. CASE k = 0
        BY <3>1, <2>1
      <3>2. CASE k \in 1 .. l
        <4>1. f[k] = w % 2^k /\ f[k - 1] = w % 2^(k - 1)
          BY <3>2
        <4> QED
          BY <4>1, <3>2, <2>2
      <3> QED
        BY <3>1, <3>2
    <2> QED
      BY <2>3
  <1>3. v = [k \in 0 .. l |-> IF k = 0 THEN 0 ELSE v[k - 1] + Bit(z, b + k - 1) * 2^(k - 1)]
    <2> HIDE DEF f
    <2> QED
      BY <1>2
  <1> DEFINE U == {k \in 0 .. l : v[k] = w % 2^k}
  <1> HIDE DEF v
  <1>4. 0 \in U
    BY <1>3, Potencias
  <1>5. ASSUME NEW k \in 0 .. l - 1, k \in U PROVE k + 1 \in U
    <2>1. k + 1 \in 1 .. l /\ (k + 1) - 1 = k
      OBVIOUS
    <2>2. v[k + 1] = v[k] + Bit(z, b + (k + 1) - 1) * 2^k
      BY <1>3, <2>1
    <2>3. v[k + 1] = (w % 2^k) + ((w \div 2^k) % 2) * 2^k
      BY <2>1, <2>2, <1>5
    <2>4. (w % 2^k) + ((w \div 2^k) % 2) * 2^k = w % 2^(k + 1)
      <3>1. k + 1 \in 1 .. 13
        OBVIOUS
      <3>2. (w % 2^((k + 1) - 1)) + ((w \div 2^((k + 1) - 1)) % 2) * 2^((k + 1) - 1) = w % 2^(k + 1)
        BY <3>1, CifraEs
      <3> QED
        BY <3>2, <2>1
    <2> QED
      BY <2>3, <2>4
  <1>6. 0 .. l \subseteq U
    <2> HIDE DEF U
    <2> QED
      BY <1>4, <1>5, Induccion
  <1> QED
    BY <1>1, <1>6


\* The loop of invertir, as the sequence of its values.
LEMMA InvertirBucle ==
    ASSUME NEW v \in Nat, NEW l \in 0 .. 13
    PROVE  \E r : /\ invertir(v, l) = r[l] /\ r[0] = 0
                  /\ \A k \in 1 .. l : r[k] = 2 * r[k - 1] + ((v \div 2^(k - 1)) % 2)
  <1> DEFINE bit(k) == (v \div 2^(k - 1)) % 2
             paso == [x \in Nat \X (1 .. l) |-> 2 * x[1] + bit(x[2])]
  <1>1. \A k \in 1 .. l : bit(k) \in Nat
    BY CifraEs
  <1> HIDE DEF bit
  <1>2. paso \in [Nat \X (1 .. l) -> Nat]
    BY <1>1
  <1>3. PICK f : Iteracion(f, Nat, l, 0, paso)
    <2> HIDE DEF paso
    <2>1. l \in Nat /\ 0 \in Nat
      OBVIOUS
    <2> QED
      BY <1>2, <2>1, Iterada
  <1>4. ASSUME NEW k \in 1 .. l PROVE f[k] = 2 * f[k - 1] + bit(k)
    <2>1. <<f[k - 1], k>> \in Nat \X (1 .. l)
      BY <1>3 DEF Iteracion
    <2>2. f[k] = paso[<<f[k - 1], k>>]
      BY <1>3 DEF Iteracion
    <2> QED
      BY <2>1, <2>2
  <1> HIDE DEF paso
  <1>5. f = [k \in 0 .. l |-> IF k = 0 THEN 0 ELSE 2 * f[k - 1] + bit(k)]
    BY <1>3, <1>4 DEF Iteracion
  <1> DEFINE r[k \in 0 .. l] == IF k = 0 THEN 0 ELSE 2 * r[k - 1] + ((v \div 2^(k - 1)) % 2)
  <1>6. r = [k \in 0 .. l |-> IF k = 0 THEN 0 ELSE 2 * r[k - 1] + bit(k)]
    BY <1>5 DEF bit
  <1>7. invertir(v, l) = r[l]
    BY DEF invertir
  <1> HIDE DEF r
  <1>8. r[0] = 0 /\ \A k \in 1 .. l : r[k] = 2 * r[k - 1] + bit(k)
    BY <1>6
  <1> QED
    BY <1>7, <1>8 DEF bit


LEMMA Cifras5 ==
    ASSUME NEW b0 \in 0 .. 1, NEW b1 \in 0 .. 1, NEW b2 \in 0 .. 1, NEW b3 \in 0 .. 1, NEW b4 \in 0 .. 1
    PROVE  LET s == 16 * b0 + 8 * b1 + 4 * b2 + 2 * b3 + 1 * b4 IN
           /\ s \in 0 .. 31
           /\ (s \div 1) % 2 = b4 /\ (s \div 2) % 2 = b3 /\ (s \div 4) % 2 = b2 /\ (s \div 8) % 2 = b1 /\ (s \div 16) % 2 = b0
  BY SMT

\* 5 bits, back to front.
LEMMA Invertir5 ==
    ASSUME NEW v \in Nat
    PROVE  /\ invertir(v, 5) \in 0 .. 31
           /\ \A k \in 1 .. 5 : (invertir(v, 5) \div 2^(k - 1)) % 2 = (v \div 2^(5 - k)) % 2
  <1> DEFINE bit(k) == (v \div 2^(k - 1)) % 2
             w == invertir(v, 5)
  <1>1. \A k \in 1 .. 5 : bit(k) \in 0 .. 1
    BY CifraEs
  <1>2. PICK r : /\ w = r[5] /\ r[0] = 0
                 /\ \A k \in 1 .. 5 : r[k] = 2 * r[k - 1] + bit(k)
    <2>1. 5 \in 0 .. 13
      OBVIOUS
    <2> QED
      BY <2>1, InvertirBucle
  <1> HIDE DEF bit, w
  <1>3. r[1] = 1 * bit(1)
    BY <1>1, <1>2
  <1>4. r[2] = 2 * bit(1) + 1 * bit(2)
    BY <1>1, <1>2, <1>3
  <1>5. r[3] = 4 * bit(1) + 2 * bit(2) + 1 * bit(3)
    BY <1>1, <1>2, <1>4
  <1>6. r[4] = 8 * bit(1) + 4 * bit(2) + 2 * bit(3) + 1 * bit(4)
    BY <1>1, <1>2, <1>5
  <1>7. r[5] = 16 * bit(1) + 8 * bit(2) + 4 * bit(3) + 2 * bit(4) + 1 * bit(5)
    BY <1>1, <1>2, <1>6
  <1>8. /\ w \in 0 .. 31
        /\ (w \div 1) % 2 = bit(5) /\ (w \div 2) % 2 = bit(4) /\ (w \div 4) % 2 = bit(3) /\ (w \div 8) % 2 = bit(2) /\ (w \div 16) % 2 = bit(1)
    BY <1>1, <1>2, <1>7, Cifras5
  <1>9. (w \div 2^(1 - 1)) % 2 = bit(5 - 1 + 1)
    BY <1>8, Potencias
  <1>10. (w \div 2^(2 - 1)) % 2 = bit(5 - 2 + 1)
    BY <1>8, Potencias
  <1>11. (w \div 2^(3 - 1)) % 2 = bit(5 - 3 + 1)
    BY <1>8, Potencias
  <1>12. (w \div 2^(4 - 1)) % 2 = bit(5 - 4 + 1)
    BY <1>8, Potencias
  <1>13. (w \div 2^(5 - 1)) % 2 = bit(5 - 5 + 1)
    BY <1>8, Potencias
  <1>14. ASSUME NEW k \in 1 .. 5 PROVE (w \div 2^(k - 1)) % 2 = bit(5 - k + 1)
    <2>1. CASE k = 1
      BY <2>1, <1>9
    <2>2. CASE k = 2
      BY <2>2, <1>10
    <2>3. CASE k = 3
      BY <2>3, <1>11
    <2>4. CASE k = 4
      BY <2>4, <1>12
    <2>5. CASE k = 5
      BY <2>5, <1>13
    <2> QED
      BY <2>1, <2>2, <2>3, <2>4, <2>5
  <1>15. \A k \in 1 .. 5 : 5 - k + 1 - 1 = 5 - k
    OBVIOUS
  <1> QED
    BY <1>8, <1>14, <1>15 DEF bit, w

LEMMA Cifras7 ==
    ASSUME NEW b0 \in 0 .. 1, NEW b1 \in 0 .. 1, NEW b2 \in 0 .. 1, NEW b3 \in 0 .. 1, NEW b4 \in 0 .. 1, NEW b5 \in 0 .. 1, NEW b6 \in 0 .. 1
    PROVE  LET s == 64 * b0 + 32 * b1 + 16 * b2 + 8 * b3 + 4 * b4 + 2 * b5 + 1 * b6 IN
           /\ s \in 0 .. 127
           /\ (s \div 1) % 2 = b6 /\ (s \div 2) % 2 = b5 /\ (s \div 4) % 2 = b4 /\ (s \div 8) % 2 = b3 /\ (s \div 16) % 2 = b2 /\ (s \div 32) % 2 = b1 /\ (s \div 64) % 2 = b0
  BY SMT

\* 7 bits, back to front.
LEMMA Invertir7 ==
    ASSUME NEW v \in Nat
    PROVE  /\ invertir(v, 7) \in 0 .. 127
           /\ \A k \in 1 .. 7 : (invertir(v, 7) \div 2^(k - 1)) % 2 = (v \div 2^(7 - k)) % 2
  <1> DEFINE bit(k) == (v \div 2^(k - 1)) % 2
             w == invertir(v, 7)
  <1>1. \A k \in 1 .. 7 : bit(k) \in 0 .. 1
    BY CifraEs
  <1>2. PICK r : /\ w = r[7] /\ r[0] = 0
                 /\ \A k \in 1 .. 7 : r[k] = 2 * r[k - 1] + bit(k)
    <2>1. 7 \in 0 .. 13
      OBVIOUS
    <2> QED
      BY <2>1, InvertirBucle
  <1> HIDE DEF bit, w
  <1>3. r[1] = 1 * bit(1)
    BY <1>1, <1>2
  <1>4. r[2] = 2 * bit(1) + 1 * bit(2)
    BY <1>1, <1>2, <1>3
  <1>5. r[3] = 4 * bit(1) + 2 * bit(2) + 1 * bit(3)
    BY <1>1, <1>2, <1>4
  <1>6. r[4] = 8 * bit(1) + 4 * bit(2) + 2 * bit(3) + 1 * bit(4)
    BY <1>1, <1>2, <1>5
  <1>7. r[5] = 16 * bit(1) + 8 * bit(2) + 4 * bit(3) + 2 * bit(4) + 1 * bit(5)
    BY <1>1, <1>2, <1>6
  <1>8. r[6] = 32 * bit(1) + 16 * bit(2) + 8 * bit(3) + 4 * bit(4) + 2 * bit(5) + 1 * bit(6)
    BY <1>1, <1>2, <1>7
  <1>9. r[7] = 64 * bit(1) + 32 * bit(2) + 16 * bit(3) + 8 * bit(4) + 4 * bit(5) + 2 * bit(6) + 1 * bit(7)
    BY <1>1, <1>2, <1>8
  <1>10. /\ w \in 0 .. 127
        /\ (w \div 1) % 2 = bit(7) /\ (w \div 2) % 2 = bit(6) /\ (w \div 4) % 2 = bit(5) /\ (w \div 8) % 2 = bit(4) /\ (w \div 16) % 2 = bit(3) /\ (w \div 32) % 2 = bit(2) /\ (w \div 64) % 2 = bit(1)
    BY <1>1, <1>2, <1>9, Cifras7
  <1>11. (w \div 2^(1 - 1)) % 2 = bit(7 - 1 + 1)
    BY <1>10, Potencias
  <1>12. (w \div 2^(2 - 1)) % 2 = bit(7 - 2 + 1)
    BY <1>10, Potencias
  <1>13. (w \div 2^(3 - 1)) % 2 = bit(7 - 3 + 1)
    BY <1>10, Potencias
  <1>14. (w \div 2^(4 - 1)) % 2 = bit(7 - 4 + 1)
    BY <1>10, Potencias
  <1>15. (w \div 2^(5 - 1)) % 2 = bit(7 - 5 + 1)
    BY <1>10, Potencias
  <1>16. (w \div 2^(6 - 1)) % 2 = bit(7 - 6 + 1)
    BY <1>10, Potencias
  <1>17. (w \div 2^(7 - 1)) % 2 = bit(7 - 7 + 1)
    BY <1>10, Potencias
  <1>18. ASSUME NEW k \in 1 .. 7 PROVE (w \div 2^(k - 1)) % 2 = bit(7 - k + 1)
    <2>1. CASE k = 1
      BY <2>1, <1>11
    <2>2. CASE k = 2
      BY <2>2, <1>12
    <2>3. CASE k = 3
      BY <2>3, <1>13
    <2>4. CASE k = 4
      BY <2>4, <1>14
    <2>5. CASE k = 5
      BY <2>5, <1>15
    <2>6. CASE k = 6
      BY <2>6, <1>16
    <2>7. CASE k = 7
      BY <2>7, <1>17
    <2> QED
      BY <2>1, <2>2, <2>3, <2>4, <2>5, <2>6, <2>7
  <1>19. \A k \in 1 .. 7 : 7 - k + 1 - 1 = 7 - k
    OBVIOUS
  <1> QED
    BY <1>10, <1>18, <1>19 DEF bit, w

LEMMA Cifras8 ==
    ASSUME NEW b0 \in 0 .. 1, NEW b1 \in 0 .. 1, NEW b2 \in 0 .. 1, NEW b3 \in 0 .. 1, NEW b4 \in 0 .. 1, NEW b5 \in 0 .. 1, NEW b6 \in 0 .. 1, NEW b7 \in 0 .. 1
    PROVE  LET s == 128 * b0 + 64 * b1 + 32 * b2 + 16 * b3 + 8 * b4 + 4 * b5 + 2 * b6 + 1 * b7 IN
           /\ s \in 0 .. 255
           /\ (s \div 1) % 2 = b7 /\ (s \div 2) % 2 = b6 /\ (s \div 4) % 2 = b5 /\ (s \div 8) % 2 = b4 /\ (s \div 16) % 2 = b3 /\ (s \div 32) % 2 = b2 /\ (s \div 64) % 2 = b1 /\ (s \div 128) % 2 = b0
  BY SMT

\* 8 bits, back to front.
LEMMA Invertir8 ==
    ASSUME NEW v \in Nat
    PROVE  /\ invertir(v, 8) \in 0 .. 255
           /\ \A k \in 1 .. 8 : (invertir(v, 8) \div 2^(k - 1)) % 2 = (v \div 2^(8 - k)) % 2
  <1> DEFINE bit(k) == (v \div 2^(k - 1)) % 2
             w == invertir(v, 8)
  <1>1. \A k \in 1 .. 8 : bit(k) \in 0 .. 1
    BY CifraEs
  <1>2. PICK r : /\ w = r[8] /\ r[0] = 0
                 /\ \A k \in 1 .. 8 : r[k] = 2 * r[k - 1] + bit(k)
    <2>1. 8 \in 0 .. 13
      OBVIOUS
    <2> QED
      BY <2>1, InvertirBucle
  <1> HIDE DEF bit, w
  <1>3. r[1] = 1 * bit(1)
    BY <1>1, <1>2
  <1>4. r[2] = 2 * bit(1) + 1 * bit(2)
    BY <1>1, <1>2, <1>3
  <1>5. r[3] = 4 * bit(1) + 2 * bit(2) + 1 * bit(3)
    BY <1>1, <1>2, <1>4
  <1>6. r[4] = 8 * bit(1) + 4 * bit(2) + 2 * bit(3) + 1 * bit(4)
    BY <1>1, <1>2, <1>5
  <1>7. r[5] = 16 * bit(1) + 8 * bit(2) + 4 * bit(3) + 2 * bit(4) + 1 * bit(5)
    BY <1>1, <1>2, <1>6
  <1>8. r[6] = 32 * bit(1) + 16 * bit(2) + 8 * bit(3) + 4 * bit(4) + 2 * bit(5) + 1 * bit(6)
    BY <1>1, <1>2, <1>7
  <1>9. r[7] = 64 * bit(1) + 32 * bit(2) + 16 * bit(3) + 8 * bit(4) + 4 * bit(5) + 2 * bit(6) + 1 * bit(7)
    BY <1>1, <1>2, <1>8
  <1>10. r[8] = 128 * bit(1) + 64 * bit(2) + 32 * bit(3) + 16 * bit(4) + 8 * bit(5) + 4 * bit(6) + 2 * bit(7) + 1 * bit(8)
    BY <1>1, <1>2, <1>9
  <1>11. /\ w \in 0 .. 255
        /\ (w \div 1) % 2 = bit(8) /\ (w \div 2) % 2 = bit(7) /\ (w \div 4) % 2 = bit(6) /\ (w \div 8) % 2 = bit(5) /\ (w \div 16) % 2 = bit(4) /\ (w \div 32) % 2 = bit(3) /\ (w \div 64) % 2 = bit(2) /\ (w \div 128) % 2 = bit(1)
    BY <1>1, <1>2, <1>10, Cifras8
  <1>12. (w \div 2^(1 - 1)) % 2 = bit(8 - 1 + 1)
    BY <1>11, Potencias
  <1>13. (w \div 2^(2 - 1)) % 2 = bit(8 - 2 + 1)
    BY <1>11, Potencias
  <1>14. (w \div 2^(3 - 1)) % 2 = bit(8 - 3 + 1)
    BY <1>11, Potencias
  <1>15. (w \div 2^(4 - 1)) % 2 = bit(8 - 4 + 1)
    BY <1>11, Potencias
  <1>16. (w \div 2^(5 - 1)) % 2 = bit(8 - 5 + 1)
    BY <1>11, Potencias
  <1>17. (w \div 2^(6 - 1)) % 2 = bit(8 - 6 + 1)
    BY <1>11, Potencias
  <1>18. (w \div 2^(7 - 1)) % 2 = bit(8 - 7 + 1)
    BY <1>11, Potencias
  <1>19. (w \div 2^(8 - 1)) % 2 = bit(8 - 8 + 1)
    BY <1>11, Potencias
  <1>20. ASSUME NEW k \in 1 .. 8 PROVE (w \div 2^(k - 1)) % 2 = bit(8 - k + 1)
    <2>1. CASE k = 1
      BY <2>1, <1>12
    <2>2. CASE k = 2
      BY <2>2, <1>13
    <2>3. CASE k = 3
      BY <2>3, <1>14
    <2>4. CASE k = 4
      BY <2>4, <1>15
    <2>5. CASE k = 5
      BY <2>5, <1>16
    <2>6. CASE k = 6
      BY <2>6, <1>17
    <2>7. CASE k = 7
      BY <2>7, <1>18
    <2>8. CASE k = 8
      BY <2>8, <1>19
    <2> QED
      BY <2>1, <2>2, <2>3, <2>4, <2>5, <2>6, <2>7, <2>8
  <1>21. \A k \in 1 .. 8 : 8 - k + 1 - 1 = 8 - k
    OBVIOUS
  <1> QED
    BY <1>11, <1>20, <1>21 DEF bit, w

LEMMA Cifras9 ==
    ASSUME NEW b0 \in 0 .. 1, NEW b1 \in 0 .. 1, NEW b2 \in 0 .. 1, NEW b3 \in 0 .. 1, NEW b4 \in 0 .. 1, NEW b5 \in 0 .. 1, NEW b6 \in 0 .. 1, NEW b7 \in 0 .. 1, NEW b8 \in 0 .. 1
    PROVE  LET s == 256 * b0 + 128 * b1 + 64 * b2 + 32 * b3 + 16 * b4 + 8 * b5 + 4 * b6 + 2 * b7 + 1 * b8 IN
           /\ s \in 0 .. 511
           /\ (s \div 1) % 2 = b8 /\ (s \div 2) % 2 = b7 /\ (s \div 4) % 2 = b6 /\ (s \div 8) % 2 = b5 /\ (s \div 16) % 2 = b4 /\ (s \div 32) % 2 = b3 /\ (s \div 64) % 2 = b2 /\ (s \div 128) % 2 = b1 /\ (s \div 256) % 2 = b0
  BY SMT

\* 9 bits, back to front.
LEMMA Invertir9 ==
    ASSUME NEW v \in Nat
    PROVE  /\ invertir(v, 9) \in 0 .. 511
           /\ \A k \in 1 .. 9 : (invertir(v, 9) \div 2^(k - 1)) % 2 = (v \div 2^(9 - k)) % 2
  <1> DEFINE bit(k) == (v \div 2^(k - 1)) % 2
             w == invertir(v, 9)
  <1>1. \A k \in 1 .. 9 : bit(k) \in 0 .. 1
    BY CifraEs
  <1>2. PICK r : /\ w = r[9] /\ r[0] = 0
                 /\ \A k \in 1 .. 9 : r[k] = 2 * r[k - 1] + bit(k)
    <2>1. 9 \in 0 .. 13
      OBVIOUS
    <2> QED
      BY <2>1, InvertirBucle
  <1> HIDE DEF bit, w
  <1>3. r[1] = 1 * bit(1)
    BY <1>1, <1>2
  <1>4. r[2] = 2 * bit(1) + 1 * bit(2)
    BY <1>1, <1>2, <1>3
  <1>5. r[3] = 4 * bit(1) + 2 * bit(2) + 1 * bit(3)
    BY <1>1, <1>2, <1>4
  <1>6. r[4] = 8 * bit(1) + 4 * bit(2) + 2 * bit(3) + 1 * bit(4)
    BY <1>1, <1>2, <1>5
  <1>7. r[5] = 16 * bit(1) + 8 * bit(2) + 4 * bit(3) + 2 * bit(4) + 1 * bit(5)
    BY <1>1, <1>2, <1>6
  <1>8. r[6] = 32 * bit(1) + 16 * bit(2) + 8 * bit(3) + 4 * bit(4) + 2 * bit(5) + 1 * bit(6)
    BY <1>1, <1>2, <1>7
  <1>9. r[7] = 64 * bit(1) + 32 * bit(2) + 16 * bit(3) + 8 * bit(4) + 4 * bit(5) + 2 * bit(6) + 1 * bit(7)
    BY <1>1, <1>2, <1>8
  <1>10. r[8] = 128 * bit(1) + 64 * bit(2) + 32 * bit(3) + 16 * bit(4) + 8 * bit(5) + 4 * bit(6) + 2 * bit(7) + 1 * bit(8)
    BY <1>1, <1>2, <1>9
  <1>11. r[9] = 256 * bit(1) + 128 * bit(2) + 64 * bit(3) + 32 * bit(4) + 16 * bit(5) + 8 * bit(6) + 4 * bit(7) + 2 * bit(8) + 1 * bit(9)
    BY <1>1, <1>2, <1>10
  <1>12. /\ w \in 0 .. 511
        /\ (w \div 1) % 2 = bit(9) /\ (w \div 2) % 2 = bit(8) /\ (w \div 4) % 2 = bit(7) /\ (w \div 8) % 2 = bit(6) /\ (w \div 16) % 2 = bit(5) /\ (w \div 32) % 2 = bit(4) /\ (w \div 64) % 2 = bit(3) /\ (w \div 128) % 2 = bit(2) /\ (w \div 256) % 2 = bit(1)
    BY <1>1, <1>2, <1>11, Cifras9
  <1>13. (w \div 2^(1 - 1)) % 2 = bit(9 - 1 + 1)
    BY <1>12, Potencias
  <1>14. (w \div 2^(2 - 1)) % 2 = bit(9 - 2 + 1)
    BY <1>12, Potencias
  <1>15. (w \div 2^(3 - 1)) % 2 = bit(9 - 3 + 1)
    BY <1>12, Potencias
  <1>16. (w \div 2^(4 - 1)) % 2 = bit(9 - 4 + 1)
    BY <1>12, Potencias
  <1>17. (w \div 2^(5 - 1)) % 2 = bit(9 - 5 + 1)
    BY <1>12, Potencias
  <1>18. (w \div 2^(6 - 1)) % 2 = bit(9 - 6 + 1)
    BY <1>12, Potencias
  <1>19. (w \div 2^(7 - 1)) % 2 = bit(9 - 7 + 1)
    BY <1>12, Potencias
  <1>20. (w \div 2^(8 - 1)) % 2 = bit(9 - 8 + 1)
    BY <1>12, Potencias
  <1>21. (w \div 2^(9 - 1)) % 2 = bit(9 - 9 + 1)
    BY <1>12, Potencias
  <1>22. ASSUME NEW k \in 1 .. 9 PROVE (w \div 2^(k - 1)) % 2 = bit(9 - k + 1)
    <2>1. CASE k = 1
      BY <2>1, <1>13
    <2>2. CASE k = 2
      BY <2>2, <1>14
    <2>3. CASE k = 3
      BY <2>3, <1>15
    <2>4. CASE k = 4
      BY <2>4, <1>16
    <2>5. CASE k = 5
      BY <2>5, <1>17
    <2>6. CASE k = 6
      BY <2>6, <1>18
    <2>7. CASE k = 7
      BY <2>7, <1>19
    <2>8. CASE k = 8
      BY <2>8, <1>20
    <2>9. CASE k = 9
      BY <2>9, <1>21
    <2> QED
      BY <2>1, <2>2, <2>3, <2>4, <2>5, <2>6, <2>7, <2>8, <2>9
  <1>23. \A k \in 1 .. 9 : 9 - k + 1 - 1 = 9 - k
    OBVIOUS
  <1> QED
    BY <1>12, <1>22, <1>23 DEF bit, w

Largos == {5, 7, 8, 9}

LEMMA InvertirEs ==
    ASSUME NEW v \in Nat, NEW l \in Largos
    PROVE  /\ invertir(v, l) \in Nat /\ invertir(v, l) < 2^l
           /\ \A k \in 1 .. l : (invertir(v, l) \div 2^(k - 1)) % 2 = (v \div 2^(l - k)) % 2
  <1>1. CASE l = 5
    <2>1. 2^l = 32
      BY <1>1, Potencias
    <2>2. /\ invertir(v, 5) \in Nat /\ invertir(v, 5) < 32
          /\ \A k \in 1 .. 5 : (invertir(v, 5) \div 2^(k - 1)) % 2 = (v \div 2^(5 - k)) % 2
      <3>1. invertir(v, 5) \in 0 .. 31
        BY Invertir5
      <3>2. \A k \in 1 .. 5 : (invertir(v, 5) \div 2^(k - 1)) % 2 = (v \div 2^(5 - k)) % 2
        BY Invertir5, Zenon
      <3>3. invertir(v, 5) \in Nat /\ invertir(v, 5) < 32
        BY <3>1
      <3> QED
        BY <3>2, <3>3, Zenon
    <2> QED
      BY <1>1, <2>1, <2>2, Zenon
  <1>2. CASE l = 7
    <2>1. 2^l = 128
      BY <1>2, Potencias
    <2>2. /\ invertir(v, 7) \in Nat /\ invertir(v, 7) < 128
          /\ \A k \in 1 .. 7 : (invertir(v, 7) \div 2^(k - 1)) % 2 = (v \div 2^(7 - k)) % 2
      <3>1. invertir(v, 7) \in 0 .. 127
        BY Invertir7
      <3>2. \A k \in 1 .. 7 : (invertir(v, 7) \div 2^(k - 1)) % 2 = (v \div 2^(7 - k)) % 2
        BY Invertir7, Zenon
      <3>3. invertir(v, 7) \in Nat /\ invertir(v, 7) < 128
        BY <3>1
      <3> QED
        BY <3>2, <3>3, Zenon
    <2> QED
      BY <1>2, <2>1, <2>2, Zenon
  <1>3. CASE l = 8
    <2>1. 2^l = 256
      BY <1>3, Potencias
    <2>2. /\ invertir(v, 8) \in Nat /\ invertir(v, 8) < 256
          /\ \A k \in 1 .. 8 : (invertir(v, 8) \div 2^(k - 1)) % 2 = (v \div 2^(8 - k)) % 2
      <3>1. invertir(v, 8) \in 0 .. 255
        BY Invertir8
      <3>2. \A k \in 1 .. 8 : (invertir(v, 8) \div 2^(k - 1)) % 2 = (v \div 2^(8 - k)) % 2
        BY Invertir8, Zenon
      <3>3. invertir(v, 8) \in Nat /\ invertir(v, 8) < 256
        BY <3>1
      <3> QED
        BY <3>2, <3>3, Zenon
    <2> QED
      BY <1>3, <2>1, <2>2, Zenon
  <1>4. CASE l = 9
    <2>1. 2^l = 512
      BY <1>4, Potencias
    <2>2. /\ invertir(v, 9) \in Nat /\ invertir(v, 9) < 512
          /\ \A k \in 1 .. 9 : (invertir(v, 9) \div 2^(k - 1)) % 2 = (v \div 2^(9 - k)) % 2
      <3>1. invertir(v, 9) \in 0 .. 511
        BY Invertir9
      <3>2. \A k \in 1 .. 9 : (invertir(v, 9) \div 2^(k - 1)) % 2 = (v \div 2^(9 - k)) % 2
        BY Invertir9, Zenon
      <3>3. invertir(v, 9) \in Nat /\ invertir(v, 9) < 512
        BY <3>1
      <3> QED
        BY <3>2, <3>3, Zenon
    <2> QED
      BY <1>4, <2>1, <2>2, Zenon
  <1> QED
    BY <1>1, <1>2, <1>3, <1>4 DEF Largos

\* A number of l bits is known by them.
LEMMA MismosBits ==
    ASSUME NEW v \in Nat, NEW w \in Nat, NEW l \in 0 .. 13, v < 2^l, w < 2^l,
           \A k \in 1 .. l : (v \div 2^(k - 1)) % 2 = (w \div 2^(k - 1)) % 2
    PROVE  v = w
  <1> DEFINE U == {k \in 0 .. l : v % 2^k = w % 2^k}
  <1>1. 0 \in U
    BY Potencias
  <1>2. ASSUME NEW k \in 0 .. l - 1, k \in U PROVE k + 1 \in U
    <2>1. k + 1 \in 1 .. 13 /\ (k + 1) - 1 = k /\ k + 1 \in 1 .. l
      OBVIOUS
    <2>2. /\ (v % 2^k) + ((v \div 2^k) % 2) * 2^k = v % 2^(k + 1)
          /\ (w % 2^k) + ((w \div 2^k) % 2) * 2^k = w % 2^(k + 1)
      BY <2>1, CifraEs
    <2>3. (v \div 2^k) % 2 = (w \div 2^k) % 2
      BY <2>1
    <2>4. v % 2^k = w % 2^k
      BY <1>2
    <2>5. v % 2^(k + 1) = w % 2^(k + 1)
      BY <2>2, <2>3, <2>4
    <2> QED
      BY <2>1, <2>5
  <1>3. 0 .. l \subseteq U
    <2> HIDE DEF U
    <2> QED
      BY <1>1, <1>2, Induccion
  <1>4. v % 2^l = w % 2^l
    BY <1>3
  <1>5. v % 2^l = v /\ w % 2^l = w
    BY PotenciaEs
  <1> QED
    BY <1>4, <1>5

\* A code, high bit first, is read as it was written.
LEMMA CodigoEs ==
    ASSUME NEW z, NEW b \in Nat, NEW l \in Largos, NEW v \in Nat, v < 2^l,
           \A k \in 1 .. l : Bit(z, b + k - 1) = (v \div 2^(l - k)) % 2
    PROVE  Codigo(z, b, l) = v
  <1> DEFINE w == invertir(v, l)
             u == invertir(w, l)
  <1>0. l \in 0 .. 13 /\ l \in Nat
    BY DEF Largos
  <1>1. /\ w \in Nat /\ w < 2^l
        /\ \A k \in 1 .. l : (w \div 2^(k - 1)) % 2 = (v \div 2^(l - k)) % 2
    BY InvertirEs
  <1> HIDE DEF w
  <1>2. /\ u \in Nat /\ u < 2^l
        /\ \A k \in 1 .. l : (u \div 2^(k - 1)) % 2 = (w \div 2^(l - k)) % 2
    BY <1>1, InvertirEs
  <1> HIDE DEF u
  <1>3. \A k \in 1 .. l : Bit(z, b + k - 1) = (w \div 2^(k - 1)) % 2
    BY <1>1
  <1>4. BitsBajos(z, b, l) = w % 2^l
    BY <1>0, <1>1, <1>3, BitsBajosEs
  <1>5. w % 2^l = w
    <2>1. 2^l \in Nat \ {0}
      BY <1>0, PotenciaEs
    <2> QED
      BY <1>1, <2>1
  <1>6. ASSUME NEW k \in 1 .. l PROVE (u \div 2^(k - 1)) % 2 = (v \div 2^(k - 1)) % 2
    <2>1. l - k + 1 \in 1 .. l /\ (l - k + 1) - 1 = l - k /\ l - (l - k + 1) = k - 1
      BY <1>0
    <2>2. (w \div 2^((l - k + 1) - 1)) % 2 = (v \div 2^(l - (l - k + 1))) % 2
      BY <1>1, <2>1
    <2>3. (w \div 2^(l - k)) % 2 = (v \div 2^(k - 1)) % 2
      BY <2>1, <2>2
    <2> QED
      BY <1>2, <2>3
  <1>7. u = v
    BY <1>0, <1>2, <1>6, MismosBits
  <1> QED
    BY <1>4, <1>5, <1>7 DEF Codigo, u

-----------------------------------------------------------------------------
(* What is written, and what is read of it.                                *)

Bits == Seq(0 .. 1)

\* From position a (from 0) on, e has the l bits of v, the high one first; the
\* low one first.
Alta(e, a, v, l) == \A k \in 1 .. l : e[a + k] = (v \div 2^(l - k)) % 2
Baja(e, a, v, l) == \A k \in 1 .. l : e[a + k] = (v \div 2^(k - 1)) % 2

\* g goes on where e ends.
Sigue(e, g) == Len(e) <= Len(g) /\ \A p \in 1 .. Len(e) : g[p] = e[p]

LEMMA Pegada ==
    ASSUME NEW S, NEW s \in Seq(S), NEW t \in Seq(S)
    PROVE  /\ s \o t \in Seq(S) /\ Len(s \o t) = Len(s) + Len(t)
           /\ \A p \in 1 .. Len(s) : (s \o t)[p] = s[p]
           /\ \A p \in 1 .. Len(t) : (s \o t)[Len(s) + p] = t[p]
  OBVIOUS

LEMMA PegadaOctetos ==
    ASSUME NEW s \in Seq(Octeto), NEW t \in Seq(Octeto)
    PROVE  /\ s \o t \in Seq(Octeto) /\ Len(s \o t) = Len(s) + Len(t)
           /\ \A p \in 1 .. Len(s) : (s \o t)[p] = s[p]
           /\ \A p \in 1 .. Len(t) : (s \o t)[Len(s) + p] = t[p]
  OBVIOUS

LEMMA PutEs ==
    ASSUME NEW e \in Bits, NEW v \in Nat, NEW l \in 0 .. 13
    PROVE  /\ Put(e, v, l) \in Bits /\ Len(Put(e, v, l)) = Len(e) + l
           /\ Sigue(e, Put(e, v, l)) /\ Baja(Put(e, v, l), Len(e), v, l)
  <1> DEFINE t == [k \in 1 .. l |-> (v \div 2^(k - 1)) % 2]
  <1>1. \A k \in 1 .. l : (v \div 2^(k - 1)) % 2 \in 0 .. 1
    BY CifraEs
  <1>2. t \in Seq(0 .. 1) /\ Len(t) = l /\ \A k \in 1 .. l : t[k] = (v \div 2^(k - 1)) % 2
    BY <1>1
  <1>3. Put(e, v, l) = e \o t
    BY DEF Put
  <1> HIDE DEF t
  <1>4. /\ e \o t \in Bits /\ Len(e \o t) = Len(e) + l
        /\ \A p \in 1 .. Len(e) : (e \o t)[p] = e[p]
        /\ \A k \in 1 .. l : (e \o t)[Len(e) + k] = t[k]
    BY <1>2, Pegada DEF Bits
  <1>5. Len(e) \in Nat
    BY DEF Bits
  <1> QED
    BY <1>2, <1>3, <1>4, <1>5 DEF Sigue, Baja

LEMMA PutInvertido ==
    ASSUME NEW e \in Bits, NEW v \in Nat, NEW l \in Largos
    PROVE  LET g == Put(e, invertir(v, l), l) IN
           g \in Bits /\ Len(g) = Len(e) + l /\ Sigue(e, g) /\ Alta(g, Len(e), v, l)
  <1> DEFINE w == invertir(v, l)
             g == Put(e, w, l)
  <1>1. /\ w \in Nat
        /\ \A k \in 1 .. l : (w \div 2^(k - 1)) % 2 = (v \div 2^(l - k)) % 2
    BY InvertirEs
  <1>2. l \in 0 .. 13
    BY DEF Largos
  <1> HIDE DEF w
  <1>3. g \in Bits /\ Len(g) = Len(e) + l /\ Sigue(e, g) /\ Baja(g, Len(e), w, l)
    BY <1>1, <1>2, PutEs
  <1> HIDE DEF g
  <1>4. Alta(g, Len(e), v, l)
    BY <1>1, <1>3 DEF Alta, Baja
  <1> QED
    BY <1>3, <1>4 DEF g, w

LEMMA FlushEs ==
    ASSUME NEW e \in Bits
    PROVE  /\ Flush(e) \in Bits /\ Sigue(e, Flush(e))
           /\ Len(Flush(e)) % 8 = 0 /\ Len(Flush(e)) <= Len(e) + 7
  <1> DEFINE r == (8 - (Len(e) % 8)) % 8
             t == [k \in 1 .. r |-> 0]
  <1>1. Len(e) \in Nat
    BY DEF Bits
  <1>2. r \in 0 .. 7 /\ (Len(e) + r) % 8 = 0
    BY <1>1
  <1>3. Flush(e) = e \o t
    BY DEF Flush
  <1> HIDE DEF r
  <1>4. t \in Seq(0 .. 1) /\ Len(t) = r
    BY <1>2
  <1> HIDE DEF t
  <1>5. e \o t \in Bits /\ Len(e \o t) = Len(e) + r /\ \A p \in 1 .. Len(e) : (e \o t)[p] = e[p]
    BY <1>4, Pegada DEF Bits
  <1> QED
    BY <1>1, <1>2, <1>3, <1>5 DEF Sigue

\* One byte of what was written.
Ocho(e, q) == Suma8(e[8*q + 1], e[8*q + 2], e[8*q + 3], e[8*q + 4],
                    e[8*q + 5], e[8*q + 6], e[8*q + 7], e[8*q + 8])

LEMMA OchoEs ==
    ASSUME NEW e \in Bits, NEW q \in Nat, 8 * q + 8 <= Len(e)
    PROVE  /\ Ocho(e, q) \in Octeto
           /\ \A r \in 0 .. 7 : (Ocho(e, q) \div 2^r) % 2 = e[8 * q + r + 1]
  <1>0. Len(e) \in Nat
    BY DEF Bits
  <1>1. \A r \in 1 .. 8 : e[8 * q + r] \in 0 .. 1
    BY <1>0 DEF Bits
  <1> DEFINE v == Ocho(e, q)
  <1>2. /\ v \in Octeto
        /\ v % 2 = e[8*q + 1] /\ (v \div 2) % 2 = e[8*q + 2] /\ (v \div 4) % 2 = e[8*q + 3]
        /\ (v \div 8) % 2 = e[8*q + 4] /\ (v \div 16) % 2 = e[8*q + 5] /\ (v \div 32) % 2 = e[8*q + 6]
        /\ (v \div 64) % 2 = e[8*q + 7] /\ (v \div 128) % 2 = e[8*q + 8]
    <2> DEFINE b(r) == e[8 * q + r]
    <2>1. \A r \in 1 .. 8 : b(r) \in 0 .. 1
      BY <1>1
    <2>2. v = Suma8(b(1), b(2), b(3), b(4), b(5), b(6), b(7), b(8))
      BY DEF Ocho
    <2> HIDE DEF b, v
    <2>3. /\ v \in Octeto
          /\ v % 2 = b(1) /\ (v \div 2) % 2 = b(2) /\ (v \div 4) % 2 = b(3)
          /\ (v \div 8) % 2 = b(4) /\ (v \div 16) % 2 = b(5) /\ (v \div 32) % 2 = b(6)
          /\ (v \div 64) % 2 = b(7) /\ (v \div 128) % 2 = b(8)
      BY <2>1, <2>2, DeDigitos
    <2> QED
      BY <2>3 DEF b
  <1> HIDE DEF v
  <1>3. (v \div 2^0) % 2 = e[8 * q + 1]
    BY <1>2, Potencias DEF Octeto
  <1>4. ASSUME NEW r \in 0 .. 7 PROVE (v \div 2^r) % 2 = e[8 * q + r + 1]
    <2>1. CASE r = 0
      BY <2>1, <1>3
    <2>2. CASE r = 1
      BY <2>2, <1>2, Potencias
    <2>3. CASE r = 2
      BY <2>3, <1>2, Potencias
    <2>4. CASE r = 3
      BY <2>4, <1>2, Potencias
    <2>5. CASE r = 4
      BY <2>5, <1>2, Potencias
    <2>6. CASE r = 5
      BY <2>6, <1>2, Potencias
    <2>7. CASE r = 6
      BY <2>7, <1>2, Potencias
    <2>8. CASE r = 7
      BY <2>8, <1>2, Potencias
    <2> QED
      BY <2>1, <2>2, <2>3, <2>4, <2>5, <2>6, <2>7, <2>8
  <1> QED
    BY <1>2, <1>4 DEF v

LEMMA EscritoEs ==
    ASSUME NEW e \in Bits
    PROVE  /\ Escrito(e) \in Seq(Octeto) /\ Len(Escrito(e)) = Len(e) \div 8
           /\ \A q \in 0 .. (Len(e) \div 8) - 1 : Escrito(e)[q + 1] = Ocho(e, q)
  <1> DEFINE l == Len(e) \div 8
             Byte8(k) == LET b(j) == e[8 * (k - 1) + j + 1] IN
                b(0) + 2 * b(1) + 4 * b(2) + 8 * b(3) + 16 * b(4) + 32 * b(5) + 64 * b(6) + 128 * b(7)
  <1>0. Len(e) \in Nat /\ l \in Nat /\ 8 * l <= Len(e)
    BY DEF Bits
  <1>1. Escrito(e) = [k \in 1 .. l |-> Byte8(k)]
    BY DEF Escrito
  <1>2. ASSUME NEW k \in 1 .. l PROVE Byte8(k) = Ocho(e, k - 1)
    <2>1. k - 1 \in Nat /\ \A j \in 0 .. 7 : 8 * (k - 1) + j + 1 = 8 * (k - 1) + (j + 1)
      BY <1>0
    <2> QED
      BY <2>1 DEF Ocho, Suma8
  <1> HIDE DEF Byte8, l
  <1>3. ASSUME NEW k \in 1 .. l PROVE Ocho(e, k - 1) \in Octeto
    <2>1. k - 1 \in Nat /\ 8 * (k - 1) + 8 <= Len(e)
      BY <1>0
    <2> QED
      BY <2>1, OchoEs
  <1>4. Escrito(e) = [k \in 1 .. l |-> Ocho(e, k - 1)]
    BY <1>1, <1>2
  <1>5. Escrito(e) \in Seq(Octeto) /\ Len(Escrito(e)) = l
    BY <1>0, <1>3, <1>4
  <1>6. ASSUME NEW q \in 0 .. l - 1 PROVE Escrito(e)[q + 1] = Ocho(e, q)
    <2>1. q + 1 \in 1 .. l /\ (q + 1) - 1 = q
      BY <1>0
    <2> QED
      BY <2>1, <1>4
  <1> QED
    BY <1>5, <1>6 DEF l

\* z is a stream: two bytes, those of the bits e, and a tail.
EsFlujo(z, e) ==
    /\ e \in Bits /\ Len(e) % 8 = 0
    /\ \E c \in Seq(Octeto), t \in Seq(Octeto) : Len(c) = 2 /\ z = c \o Escrito(e) \o t

LEMMA BitEscrito ==
    ASSUME NEW e, NEW z, EsFlujo(z, e), NEW p \in 1 .. Len(e)
    PROVE  Bit(z, 15 + p) = e[p]
  <1> DEFINE q == (p - 1) \div 8
             r == (p - 1) % 8
             s == Escrito(e)
  <1>1. PICK c \in Seq(Octeto), t \in Seq(Octeto) : Len(c) = 2 /\ z = c \o s \o t
    BY DEF EsFlujo
  <1>2. e \in Bits /\ Len(e) \in Nat /\ Len(e) % 8 = 0
    BY DEF EsFlujo, Bits
  <1>3. /\ p \in Nat /\ q \in Nat /\ r \in 0 .. 7 /\ p = 8 * q + r + 1
        /\ q \in 0 .. (Len(e) \div 8) - 1 /\ 8 * q + 8 <= Len(e)
        /\ (15 + p) \div 8 = q + 2 /\ (15 + p) % 8 = r
    BY <1>2
  <1> HIDE DEF q, r
  <1>4. /\ s \in Seq(Octeto) /\ Len(s) = Len(e) \div 8 /\ s[q + 1] = Ocho(e, q)
    BY <1>2, <1>3, EscritoEs
  <1> HIDE DEF s
  <1>5. q + 1 \in 1 .. Len(s)
    BY <1>2, <1>3, <1>4
  <1> DEFINE cs == c \o s
  <1>6. cs \in Seq(Octeto) /\ Len(cs) = 2 + Len(s) /\ cs[2 + (q + 1)] = s[q + 1]
    <2>1. /\ cs \in Seq(Octeto) /\ Len(cs) = Len(c) + Len(s)
          /\ \A x \in 1 .. Len(s) : cs[Len(c) + x] = s[x]
      BY <1>1, <1>4, PegadaOctetos
    <2> HIDE DEF cs
    <2> QED
      BY <1>1, <1>5, <2>1
  <1> HIDE DEF cs
  <1>7. 2 + (q + 1) \in 1 .. Len(cs) /\ 2 + (q + 1) = q + 2 + 1
    BY <1>5, <1>6, <1>3
  <1>8. Len(z) = Len(cs) + Len(t) /\ z[q + 2 + 1] = s[q + 1]
    <2>1. z = cs \o t
      BY <1>1 DEF cs
    <2>2. Len(cs \o t) = Len(cs) + Len(t) /\ \A x \in 1 .. Len(cs) : (cs \o t)[x] = cs[x]
      BY <1>1, <1>6, PegadaOctetos
    <2> QED
      BY <1>6, <1>7, <2>1, <2>2
  <1>9. q + 2 < Len(z)
    BY <1>7, <1>8, <1>3
  <1>10. (Ocho(e, q) \div 2^r) % 2 = e[8 * q + r + 1]
    BY <1>2, <1>3, OchoEs
  <1> QED
    BY <1>3, <1>4, <1>8, <1>9, <1>10 DEF Bit

LEMMA LeerAlta ==
    ASSUME NEW e, NEW z, EsFlujo(z, e), NEW a \in Nat, NEW l \in Largos, NEW v \in Nat,
           v < 2^l, a + l <= Len(e), Alta(e, a, v, l)
    PROVE  Codigo(z, 16 + a, l) = v
  <1>1. Len(e) \in Nat /\ l \in Nat
    <2>1. e \in Bits
      BY DEF EsFlujo
    <2>3. Len(e) \in Nat
      BY <2>1 DEF Bits
    <2>2. l \in Nat
      BY DEF Largos
    <2> QED
      BY <2>3, <2>2
  <1>2. ASSUME NEW k \in 1 .. l PROVE Bit(z, 16 + a + k - 1) = (v \div 2^(l - k)) % 2
    <2>1. a + k \in 1 .. Len(e) /\ 16 + a + k - 1 = 15 + (a + k)
      BY <1>1
    <2>2. Bit(z, 15 + (a + k)) = e[a + k]
      BY <2>1, BitEscrito
    <2> QED
      BY <2>1, <2>2 DEF Alta
  <1> QED
    BY <1>2, CodigoEs

\* From bit b on, z has the l bits of w, the low one first.
BitsDe(z, b, w, l) == \A k \in 1 .. l : Bit(z, b + k - 1) = (w \div 2^(k - 1)) % 2

LEMMA BitsBajosDe ==
    ASSUME NEW z, NEW b \in Nat, NEW l \in 0 .. 13, NEW w \in Nat, BitsDe(z, b, w, l)
    PROVE  BitsBajos(z, b, l) = w % 2^l
  BY BitsBajosEs DEF BitsDe

LEMMA LeerBaja ==
    ASSUME NEW e, NEW z, EsFlujo(z, e), NEW a \in Nat, NEW l \in 0 .. 13, NEW v \in Nat,
           v < 2^l, a + l <= Len(e), Baja(e, a, v, l)
    PROVE  BitsBajos(z, 16 + a, l) = v
  <1>1. Len(e) \in Nat /\ l \in Nat
    BY DEF EsFlujo, Bits
  <1>2. ASSUME NEW k \in 1 .. l PROVE Bit(z, 16 + a + k - 1) = (v \div 2^(k - 1)) % 2
    <2>1. a + k \in 1 .. Len(e) /\ 16 + a + k - 1 = 15 + (a + k)
      BY <1>1
    <2>2. Bit(z, 15 + (a + k)) = e[a + k]
      BY <2>1, BitEscrito
    <2> QED
      BY <2>1, <2>2 DEF Baja
  <1>3. BitsBajos(z, 16 + a, l) = v % 2^l
    <2> DEFINE b == 16 + a
    <2>1. b \in Nat /\ BitsDe(z, b, v, l)
      BY <1>2 DEF BitsDe
    <2> HIDE DEF b
    <2>2. BitsBajos(z, b, l) = v % 2^l
      BY <2>1, BitsBajosDe
    <2> QED
      BY <2>2 DEF b
  <1>4. 2^l \in Nat \ {0}
    BY PotenciaEs
  <1>5. v % 2^l = v
    BY <1>4
  <1> QED
    BY <1>3, <1>5

-----------------------------------------------------------------------------
(* Symbols.                                                                *)

\* The code of a symbol and how many bits it has.
Ancho(sym) == IF sym <= 143 THEN 8 ELSE IF sym <= 255 THEN 9 ELSE IF sym <= 279 THEN 7 ELSE 8
Valor(sym) == IF sym <= 143 THEN 48 + sym ELSE IF sym <= 255 THEN 400 + sym - 144
              ELSE IF sym <= 279 THEN sym - 256 ELSE 192 + sym - 280

LEMMA AnchoEs ==
    ASSUME NEW sym \in 0 .. 287
    PROVE  Ancho(sym) \in Largos /\ Ancho(sym) \in 7 .. 9 /\ Valor(sym) \in Nat /\ Valor(sym) < 2^Ancho(sym)
  <1>1. CASE sym <= 143
    BY <1>1, Potencias DEF Ancho, Valor, Largos
  <1>2. CASE sym > 143 /\ sym <= 255
    BY <1>2, Potencias DEF Ancho, Valor, Largos
  <1>3. CASE sym > 255 /\ sym <= 279
    BY <1>3, Potencias DEF Ancho, Valor, Largos
  <1>4. CASE sym > 279
    BY <1>4, Potencias DEF Ancho, Valor, Largos
  <1> QED
    BY <1>1, <1>2, <1>3, <1>4

LEMMA EmitirEs ==
    ASSUME NEW e \in Bits, NEW sym \in 0 .. 287
    PROVE  LET g == emitirSimbolo(e, sym) IN
           /\ g \in Bits /\ Len(g) = Len(e) + Ancho(sym)
           /\ Sigue(e, g) /\ Alta(g, Len(e), Valor(sym), Ancho(sym))
  <1>1. emitirSimbolo(e, sym) = Put(e, invertir(Valor(sym), Ancho(sym)), Ancho(sym))
    BY DEF emitirSimbolo, Valor, Ancho
  <1> QED
    BY <1>1, AnchoEs, PutInvertido

\* The first bits of a code are those of its quotient.
LEMMA Principio8 ==
    ASSUME NEW e, NEW a, NEW v \in Nat, Alta(e, a, v, 8)
    PROVE  Alta(e, a, v \div 2, 7)
  <1> SUFFICES ASSUME NEW k \in 1 .. 7 PROVE e[a + k] = ((v \div 2) \div 2^(7 - k)) % 2
    BY DEF Alta
  <1>0. e[a + k] = (v \div 2^(8 - k)) % 2
    <2>1. k \in 1 .. 8
      OBVIOUS
    <2> QED
      BY <2>1, Zenon DEF Alta
  <1>1. CASE k = 1
    <2>1. (v \div 128) % 2 = ((v \div 2) \div 64) % 2
      BY SMT
    <2> QED
      BY <1>0, <1>1, <2>1, Potencias
  <1>2. CASE k = 2
    <2>1. (v \div 64) % 2 = ((v \div 2) \div 32) % 2
      BY SMT
    <2> QED
      BY <1>0, <1>2, <2>1, Potencias
  <1>3. CASE k = 3
    <2>1. (v \div 32) % 2 = ((v \div 2) \div 16) % 2
      BY SMT
    <2> QED
      BY <1>0, <1>3, <2>1, Potencias
  <1>4. CASE k = 4
    <2>1. (v \div 16) % 2 = ((v \div 2) \div 8) % 2
      BY SMT
    <2> QED
      BY <1>0, <1>4, <2>1, Potencias
  <1>5. CASE k = 5
    <2>1. (v \div 8) % 2 = ((v \div 2) \div 4) % 2
      BY SMT
    <2> QED
      BY <1>0, <1>5, <2>1, Potencias
  <1>6. CASE k = 6
    <2>1. (v \div 4) % 2 = ((v \div 2) \div 2) % 2
      BY SMT
    <2> QED
      BY <1>0, <1>6, <2>1, Potencias
  <1>7. CASE k = 7
    <2>1. (v \div 2) % 2 = ((v \div 2) \div 1) % 2
      BY SMT
    <2> QED
      BY <1>0, <1>7, <2>1, Potencias
  <1> QED
    BY <1>1, <1>2, <1>3, <1>4, <1>5, <1>6, <1>7

LEMMA Principio9 ==
    ASSUME NEW e, NEW a, NEW v \in Nat, Alta(e, a, v, 9)
    PROVE  Alta(e, a, v \div 4, 7)
  <1> SUFFICES ASSUME NEW k \in 1 .. 7 PROVE e[a + k] = ((v \div 4) \div 2^(7 - k)) % 2
    BY DEF Alta
  <1>0. e[a + k] = (v \div 2^(9 - k)) % 2
    <2>1. k \in 1 .. 9
      OBVIOUS
    <2> QED
      BY <2>1, Zenon DEF Alta
  <1>1. CASE k = 1
    <2>1. (v \div 256) % 2 = ((v \div 4) \div 64) % 2
      BY SMT
    <2> QED
      BY <1>0, <1>1, <2>1, Potencias
  <1>2. CASE k = 2
    <2>1. (v \div 128) % 2 = ((v \div 4) \div 32) % 2
      BY SMT
    <2> QED
      BY <1>0, <1>2, <2>1, Potencias
  <1>3. CASE k = 3
    <2>1. (v \div 64) % 2 = ((v \div 4) \div 16) % 2
      BY SMT
    <2> QED
      BY <1>0, <1>3, <2>1, Potencias
  <1>4. CASE k = 4
    <2>1. (v \div 32) % 2 = ((v \div 4) \div 8) % 2
      BY SMT
    <2> QED
      BY <1>0, <1>4, <2>1, Potencias
  <1>5. CASE k = 5
    <2>1. (v \div 16) % 2 = ((v \div 4) \div 4) % 2
      BY SMT
    <2> QED
      BY <1>0, <1>5, <2>1, Potencias
  <1>6. CASE k = 6
    <2>1. (v \div 8) % 2 = ((v \div 4) \div 2) % 2
      BY SMT
    <2> QED
      BY <1>0, <1>6, <2>1, Potencias
  <1>7. CASE k = 7
    <2>1. (v \div 4) % 2 = ((v \div 4) \div 1) % 2
      BY SMT
    <2> QED
      BY <1>0, <1>7, <2>1, Potencias
  <1> QED
    BY <1>1, <1>2, <1>3, <1>4, <1>5, <1>6, <1>7


LEMMA LeerSiete ==
    ASSUME NEW e, NEW z, EsFlujo(z, e), NEW a \in Nat, NEW u \in 0 .. 127,
           a + 7 <= Len(e), Alta(e, a, u, 7)
    PROVE  Codigo(z, 16 + a, 7) = u
  <1> DEFINE l == 7
  <1>1. l \in Largos /\ 2^l = 128 /\ a + l <= Len(e) /\ Alta(e, a, u, l)
    BY Potencias DEF Largos
  <1> HIDE DEF l
  <1>2. u \in Nat /\ u < 2^l
    BY <1>1
  <1>3. Codigo(z, 16 + a, l) = u
    BY <1>1, <1>2, LeerAlta
  <1> QED
    BY <1>3 DEF l

\* The client takes the symbol that was written.
LEMMA LeerSimbolo ==
    ASSUME NEW e, NEW z, EsFlujo(z, e), NEW a \in Nat, NEW sym \in 0 .. 287,
           a + Ancho(sym) <= Len(e), Alta(e, a, Valor(sym), Ancho(sym))
    PROVE  Simbolo(z, 16 + a) = [es |-> sym, fin |-> 16 + a + Ancho(sym)]
  <1> DEFINE c == Codigo(z, 16 + a, 7)
             v == Valor(sym)
             l == Ancho(sym)
  <1>0. /\ l \in Largos /\ v \in Nat /\ v < 2^l
        /\ Len(e) \in Nat
    <2>1. e \in Bits
      BY DEF EsFlujo
    <2>2. Len(e) \in Nat
      BY <2>1 DEF Bits
    <2> QED
      BY <2>2, AnchoEs
  <1>1. Codigo(z, 16 + a, l) = v
    BY <1>0, LeerAlta
  <1>2. CASE sym <= 143
    <2>1. l = 8 /\ v = 48 + sym
      BY <1>2 DEF Ancho, Valor
    <2> DEFINE u == v \div 2
    <2>2. Alta(e, a, u, 7)
      BY <1>0, <2>1, Principio8
    <2>3. u \in 24 .. 95 /\ a + 7 <= Len(e)
      BY <1>0, <2>1, <1>2
    <2> HIDE DEF u
    <2>4. c = u
      <3>1. u \in 0 .. 127
        BY <2>3
      <3> QED
        BY <2>2, <2>3, <3>1, LeerSiete
    <2> HIDE DEF c
    <2>5. ~ (c < 24) /\ c \in 24 .. 95 /\ c \notin 96 .. 99
      BY <2>3, <2>4
    <2>6. Simbolo(z, 16 + a) = [es |-> Codigo(z, 16 + a, 8) - 48, fin |-> 16 + a + 8]
      BY <2>5 DEF Simbolo, c
    <2> QED
      BY <2>6, <1>1, <2>1
  <1>3. CASE sym > 143 /\ sym <= 255
    <2>1. l = 9 /\ v = 400 + sym - 144
      BY <1>3 DEF Ancho, Valor
    <2> DEFINE u == v \div 4
    <2>2. Alta(e, a, u, 7)
      BY <1>0, <2>1, Principio9
    <2>3. u \in 100 .. 127 /\ a + 7 <= Len(e)
      BY <1>0, <2>1, <1>3
    <2> HIDE DEF u
    <2>4. c = u
      <3>1. u \in 0 .. 127
        BY <2>3
      <3> QED
        BY <2>2, <2>3, <3>1, LeerSiete
    <2> HIDE DEF c
    <2>5. ~ (c < 24) /\ c \notin 24 .. 95 /\ c \notin 96 .. 99
      BY <2>3, <2>4
    <2>6. Simbolo(z, 16 + a) = [es |-> 144 + Codigo(z, 16 + a, 9) - 400, fin |-> 16 + a + 9]
      BY <2>5 DEF Simbolo, c
    <2> QED
      BY <2>6, <1>1, <2>1
  <1>4. CASE sym > 255 /\ sym <= 279
    <2>1. l = 7 /\ v = sym - 256
      BY <1>4 DEF Ancho, Valor
    <2>2. c = v
      BY <1>1, <2>1
    <2> HIDE DEF c
    <2>3. c < 24 /\ c \notin 24 .. 95 /\ c \notin 96 .. 99
      BY <2>1, <2>2, <1>4
    <2>4. Simbolo(z, 16 + a) = [es |-> 256 + c, fin |-> 16 + a + 7]
      BY <2>3 DEF Simbolo, c
    <2> QED
      BY <2>4, <2>2, <2>1
  <1>5. CASE sym > 279
    <2>1. l = 8 /\ v = 192 + sym - 280
      BY <1>5 DEF Ancho, Valor
    <2> DEFINE u == v \div 2
    <2>2. Alta(e, a, u, 7)
      BY <1>0, <2>1, Principio8
    <2>3. u \in 96 .. 99 /\ a + 7 <= Len(e)
      BY <1>0, <2>1, <1>5
    <2> HIDE DEF u
    <2>4. c = u
      <3>1. u \in 0 .. 127
        BY <2>3
      <3> QED
        BY <2>2, <2>3, <3>1, LeerSiete
    <2> HIDE DEF c
    <2>5. ~ (c < 24) /\ c \notin 24 .. 95 /\ c \in 96 .. 99
      BY <2>3, <2>4
    <2>6. Simbolo(z, 16 + a) = [es |-> 280 + Codigo(z, 16 + a, 8) - 192, fin |-> 16 + a + 8]
      BY <2>5 DEF Simbolo, c
    <2> QED
      BY <2>6, <1>1, <2>1
  <1> QED
    BY <1>2, <1>3, <1>4, <1>5


-----------------------------------------------------------------------------
(* The tables of lengths and distances.                                    *)

LEMMA Mayor ==
    ASSUME NEW l \in Nat, NEW T, T \subseteq 0 .. l, T # {}
    PROVE  \E x \in T : \A y \in T : y <= x
  <1> DEFINE R == {y \in 0 .. l : l - y \in T}
  <1>1. R \subseteq Nat
    OBVIOUS
  <1>2. R # {}
    <2>1. PICK t \in T : TRUE
      OBVIOUS
    <2>2. l - t \in 0 .. l /\ l - (l - t) = t
      OBVIOUS
    <2> QED
      BY <2>1, <2>2
  <1>3. PICK y \in R : \A x \in R : y <= x
    <2> HIDE DEF R
    <2> QED
      BY <1>1, <1>2, Menor
  <1>4. ASSUME NEW t \in T PROVE t <= l - y
    <2>1. l - t \in 0 .. l /\ l - (l - t) = t
      OBVIOUS
    <2>2. l - t \in R
      BY <2>1
    <2>3. y <= l - t
      BY <1>3, <2>2
    <2> QED
      BY <2>1, <2>3, <1>3
  <1> QED
    BY <1>3, <1>4

LEMMA IndiceEs ==
    ASSUME NEW bases \in Seq(Int), Len(bases) >= 1, NEW x \in Int, bases[1] <= x
    PROVE  LET k == Indice(bases, x) IN
    /\ k \in 0 .. Len(bases) - 1 /\ bases[k + 1] <= x
    /\ k < Len(bases) - 1 => x < bases[k + 2]
  <1> DEFINE l == Len(bases) - 1
             T == {m \in 0 .. l : bases[m + 1] <= x}
             Sirve(k) == /\ k = 0 \/ bases[k + 1] <= x
                         /\ \A m \in k + 1 .. l : bases[m + 1] > x
  <1>1. l \in Nat /\ T \subseteq 0 .. l /\ 0 \in T
    OBVIOUS
  <1>2. PICK k \in T : \A y \in T : y <= k
    <2> HIDE DEF T, l
    <2> QED
      BY <1>1, Mayor
  <1>3. ASSUME NEW m \in k + 1 .. l PROVE bases[m + 1] > x
    <2>1. m \in 0 .. l /\ m \notin T
      BY <1>2
    <2>2. bases[m + 1] \in Int
      BY <2>1
    <2> QED
      BY <2>1, <2>2
  <1>4. k \in 0 .. l /\ Sirve(k)
    BY <1>2, <1>3
  <1>5. Indice(bases, x) = CHOOSE j \in 0 .. l : Sirve(j)
    BY DEF Indice
  <1> HIDE DEF Sirve
  <1>6. Indice(bases, x) \in 0 .. l /\ Sirve(Indice(bases, x))
    BY <1>4, <1>5
  <1>7. bases[Indice(bases, x) + 1] <= x
    BY <1>6 DEF Sirve
  <1>8. ASSUME Indice(bases, x) < l PROVE x < bases[Indice(bases, x) + 2]
    <2> DEFINE j == Indice(bases, x)
    <2>1. j + 1 \in j + 1 .. l /\ (j + 1) + 1 = j + 2
      BY <1>6, <1>8
    <2> HIDE DEF j
    <2>2. bases[(j + 1) + 1] > x
      BY <2>1, <1>6 DEF Sirve, j
    <2>3. bases[j + 2] \in Int
      BY <1>6, <1>8 DEF j
    <2> QED
      BY <2>1, <2>2, <2>3 DEF j
  <1> QED
    BY <1>6, <1>7, <1>8

Pot(x) == 2^x

\* The longest distance of the format.
Lejos == 32768

\* The extra bits of a length code and its least length, as the client knows them.
ExtraLon(s) == IF s < 265 \/ s = 285 THEN 0 ELSE (s - 261) \div 4
BaseLon(s, x) == IF s < 265 THEN s - 254 ELSE IF s = 285 THEN 258
              ELSE (4 + ((s - 265) % 4)) * 2^x + 3
ExtraDist(d) == IF d < 4 THEN 0 ELSE (d - 2) \div 2
BaseDist(d, x) == IF d < 4 THEN d + 1 ELSE (2 + (d % 2)) * 2^x + 1

FilaLongitudes(k) ==
    /\ LEXTRA[k + 1] \in 0 .. 5 /\ LBASE[k + 1] \in 3 .. 258
    /\ k < 28 => LBASE[k + 2] - LBASE[k + 1] <= Pot(LEXTRA[k + 1])
    /\ k = 28 => LBASE[k + 1] = 258 /\ Pot(LEXTRA[k + 1]) = 1
    /\ ExtraLon(257 + k) = LEXTRA[k + 1] /\ BaseLon(257 + k, LEXTRA[k + 1]) = LBASE[k + 1]
    /\ Ancho(257 + k) + LEXTRA[k + 1] + 18 <= 9 * LBASE[k + 1]

LEMMA LongitudesBase ==
    /\ LBASE \in Seq(Int) /\ Len(LBASE) = 29
    /\ LBASE[1] = 3
    /\ LBASE[2] = 4
    /\ LBASE[3] = 5
    /\ LBASE[4] = 6
    /\ LBASE[5] = 7
    /\ LBASE[6] = 8
    /\ LBASE[7] = 9
    /\ LBASE[8] = 10
    /\ LBASE[9] = 11
    /\ LBASE[10] = 13
    /\ LBASE[11] = 15
    /\ LBASE[12] = 17
    /\ LBASE[13] = 19
    /\ LBASE[14] = 23
    /\ LBASE[15] = 27
    /\ LBASE[16] = 31
    /\ LBASE[17] = 35
    /\ LBASE[18] = 43
    /\ LBASE[19] = 51
    /\ LBASE[20] = 59
    /\ LBASE[21] = 67
    /\ LBASE[22] = 83
    /\ LBASE[23] = 99
    /\ LBASE[24] = 115
    /\ LBASE[25] = 131
    /\ LBASE[26] = 163
    /\ LBASE[27] = 195
    /\ LBASE[28] = 227
    /\ LBASE[29] = 258
  BY DEF LBASE

LEMMA LongitudesExtra ==
    /\ LEXTRA[1] = 0
    /\ LEXTRA[2] = 0
    /\ LEXTRA[3] = 0
    /\ LEXTRA[4] = 0
    /\ LEXTRA[5] = 0
    /\ LEXTRA[6] = 0
    /\ LEXTRA[7] = 0
    /\ LEXTRA[8] = 0
    /\ LEXTRA[9] = 1
    /\ LEXTRA[10] = 1
    /\ LEXTRA[11] = 1
    /\ LEXTRA[12] = 1
    /\ LEXTRA[13] = 2
    /\ LEXTRA[14] = 2
    /\ LEXTRA[15] = 2
    /\ LEXTRA[16] = 2
    /\ LEXTRA[17] = 3
    /\ LEXTRA[18] = 3
    /\ LEXTRA[19] = 3
    /\ LEXTRA[20] = 3
    /\ LEXTRA[21] = 4
    /\ LEXTRA[22] = 4
    /\ LEXTRA[23] = 4
    /\ LEXTRA[24] = 4
    /\ LEXTRA[25] = 5
    /\ LEXTRA[26] = 5
    /\ LEXTRA[27] = 5
    /\ LEXTRA[28] = 5
    /\ LEXTRA[29] = 0
  BY DEF LEXTRA

LEMMA Longitudes ==
    ASSUME NEW k \in 0 .. 28
    PROVE  FilaLongitudes(k)
  <1>0. CASE k = 0
    <2>1. LBASE[k + 1] = 3 /\ LEXTRA[k + 1] = 0 /\ LBASE[k + 2] = 4
      BY <1>0, LongitudesBase, LongitudesExtra
    <2>2. ExtraLon(257 + k) = 0 /\ Ancho(257 + k) = 7
      BY <1>0 DEF ExtraLon, Ancho
    <2>3. Pot(0) = 1 /\ BaseLon(257 + k, 0) = 3
      BY <1>0, Potencias DEF BaseLon, Pot
    <2> QED
      BY <1>0, <2>1, <2>2, <2>3 DEF FilaLongitudes
  <1>1. CASE k = 1
    <2>1. LBASE[k + 1] = 4 /\ LEXTRA[k + 1] = 0 /\ LBASE[k + 2] = 5
      BY <1>1, LongitudesBase, LongitudesExtra
    <2>2. ExtraLon(257 + k) = 0 /\ Ancho(257 + k) = 7
      BY <1>1 DEF ExtraLon, Ancho
    <2>3. Pot(0) = 1 /\ BaseLon(257 + k, 0) = 4
      BY <1>1, Potencias DEF BaseLon, Pot
    <2> QED
      BY <1>1, <2>1, <2>2, <2>3 DEF FilaLongitudes
  <1>2. CASE k = 2
    <2>1. LBASE[k + 1] = 5 /\ LEXTRA[k + 1] = 0 /\ LBASE[k + 2] = 6
      BY <1>2, LongitudesBase, LongitudesExtra
    <2>2. ExtraLon(257 + k) = 0 /\ Ancho(257 + k) = 7
      BY <1>2 DEF ExtraLon, Ancho
    <2>3. Pot(0) = 1 /\ BaseLon(257 + k, 0) = 5
      BY <1>2, Potencias DEF BaseLon, Pot
    <2> QED
      BY <1>2, <2>1, <2>2, <2>3 DEF FilaLongitudes
  <1>3. CASE k = 3
    <2>1. LBASE[k + 1] = 6 /\ LEXTRA[k + 1] = 0 /\ LBASE[k + 2] = 7
      BY <1>3, LongitudesBase, LongitudesExtra
    <2>2. ExtraLon(257 + k) = 0 /\ Ancho(257 + k) = 7
      BY <1>3 DEF ExtraLon, Ancho
    <2>3. Pot(0) = 1 /\ BaseLon(257 + k, 0) = 6
      BY <1>3, Potencias DEF BaseLon, Pot
    <2> QED
      BY <1>3, <2>1, <2>2, <2>3 DEF FilaLongitudes
  <1>4. CASE k = 4
    <2>1. LBASE[k + 1] = 7 /\ LEXTRA[k + 1] = 0 /\ LBASE[k + 2] = 8
      BY <1>4, LongitudesBase, LongitudesExtra
    <2>2. ExtraLon(257 + k) = 0 /\ Ancho(257 + k) = 7
      BY <1>4 DEF ExtraLon, Ancho
    <2>3. Pot(0) = 1 /\ BaseLon(257 + k, 0) = 7
      BY <1>4, Potencias DEF BaseLon, Pot
    <2> QED
      BY <1>4, <2>1, <2>2, <2>3 DEF FilaLongitudes
  <1>5. CASE k = 5
    <2>1. LBASE[k + 1] = 8 /\ LEXTRA[k + 1] = 0 /\ LBASE[k + 2] = 9
      BY <1>5, LongitudesBase, LongitudesExtra
    <2>2. ExtraLon(257 + k) = 0 /\ Ancho(257 + k) = 7
      BY <1>5 DEF ExtraLon, Ancho
    <2>3. Pot(0) = 1 /\ BaseLon(257 + k, 0) = 8
      BY <1>5, Potencias DEF BaseLon, Pot
    <2> QED
      BY <1>5, <2>1, <2>2, <2>3 DEF FilaLongitudes
  <1>6. CASE k = 6
    <2>1. LBASE[k + 1] = 9 /\ LEXTRA[k + 1] = 0 /\ LBASE[k + 2] = 10
      BY <1>6, LongitudesBase, LongitudesExtra
    <2>2. ExtraLon(257 + k) = 0 /\ Ancho(257 + k) = 7
      BY <1>6 DEF ExtraLon, Ancho
    <2>3. Pot(0) = 1 /\ BaseLon(257 + k, 0) = 9
      BY <1>6, Potencias DEF BaseLon, Pot
    <2> QED
      BY <1>6, <2>1, <2>2, <2>3 DEF FilaLongitudes
  <1>7. CASE k = 7
    <2>1. LBASE[k + 1] = 10 /\ LEXTRA[k + 1] = 0 /\ LBASE[k + 2] = 11
      BY <1>7, LongitudesBase, LongitudesExtra
    <2>2. ExtraLon(257 + k) = 0 /\ Ancho(257 + k) = 7
      BY <1>7 DEF ExtraLon, Ancho
    <2>3. Pot(0) = 1 /\ BaseLon(257 + k, 0) = 10
      BY <1>7, Potencias DEF BaseLon, Pot
    <2> QED
      BY <1>7, <2>1, <2>2, <2>3 DEF FilaLongitudes
  <1>8. CASE k = 8
    <2>1. LBASE[k + 1] = 11 /\ LEXTRA[k + 1] = 1 /\ LBASE[k + 2] = 13
      BY <1>8, LongitudesBase, LongitudesExtra
    <2>2. ExtraLon(257 + k) = 1 /\ Ancho(257 + k) = 7
      BY <1>8 DEF ExtraLon, Ancho
    <2>3. Pot(1) = 2 /\ BaseLon(257 + k, 1) = 11
      BY <1>8, Potencias DEF BaseLon, Pot
    <2> QED
      BY <1>8, <2>1, <2>2, <2>3 DEF FilaLongitudes
  <1>9. CASE k = 9
    <2>1. LBASE[k + 1] = 13 /\ LEXTRA[k + 1] = 1 /\ LBASE[k + 2] = 15
      BY <1>9, LongitudesBase, LongitudesExtra
    <2>2. ExtraLon(257 + k) = 1 /\ Ancho(257 + k) = 7
      BY <1>9 DEF ExtraLon, Ancho
    <2>3. Pot(1) = 2 /\ BaseLon(257 + k, 1) = 13
      BY <1>9, Potencias DEF BaseLon, Pot
    <2> QED
      BY <1>9, <2>1, <2>2, <2>3 DEF FilaLongitudes
  <1>10. CASE k = 10
    <2>1. LBASE[k + 1] = 15 /\ LEXTRA[k + 1] = 1 /\ LBASE[k + 2] = 17
      BY <1>10, LongitudesBase, LongitudesExtra
    <2>2. ExtraLon(257 + k) = 1 /\ Ancho(257 + k) = 7
      BY <1>10 DEF ExtraLon, Ancho
    <2>3. Pot(1) = 2 /\ BaseLon(257 + k, 1) = 15
      BY <1>10, Potencias DEF BaseLon, Pot
    <2> QED
      BY <1>10, <2>1, <2>2, <2>3 DEF FilaLongitudes
  <1>11. CASE k = 11
    <2>1. LBASE[k + 1] = 17 /\ LEXTRA[k + 1] = 1 /\ LBASE[k + 2] = 19
      BY <1>11, LongitudesBase, LongitudesExtra
    <2>2. ExtraLon(257 + k) = 1 /\ Ancho(257 + k) = 7
      BY <1>11 DEF ExtraLon, Ancho
    <2>3. Pot(1) = 2 /\ BaseLon(257 + k, 1) = 17
      BY <1>11, Potencias DEF BaseLon, Pot
    <2> QED
      BY <1>11, <2>1, <2>2, <2>3 DEF FilaLongitudes
  <1>12. CASE k = 12
    <2>1. LBASE[k + 1] = 19 /\ LEXTRA[k + 1] = 2 /\ LBASE[k + 2] = 23
      BY <1>12, LongitudesBase, LongitudesExtra
    <2>2. ExtraLon(257 + k) = 2 /\ Ancho(257 + k) = 7
      BY <1>12 DEF ExtraLon, Ancho
    <2>3. Pot(2) = 4 /\ BaseLon(257 + k, 2) = 19
      BY <1>12, Potencias DEF BaseLon, Pot
    <2> QED
      BY <1>12, <2>1, <2>2, <2>3 DEF FilaLongitudes
  <1>13. CASE k = 13
    <2>1. LBASE[k + 1] = 23 /\ LEXTRA[k + 1] = 2 /\ LBASE[k + 2] = 27
      BY <1>13, LongitudesBase, LongitudesExtra
    <2>2. ExtraLon(257 + k) = 2 /\ Ancho(257 + k) = 7
      BY <1>13 DEF ExtraLon, Ancho
    <2>3. Pot(2) = 4 /\ BaseLon(257 + k, 2) = 23
      BY <1>13, Potencias DEF BaseLon, Pot
    <2> QED
      BY <1>13, <2>1, <2>2, <2>3 DEF FilaLongitudes
  <1>14. CASE k = 14
    <2>1. LBASE[k + 1] = 27 /\ LEXTRA[k + 1] = 2 /\ LBASE[k + 2] = 31
      BY <1>14, LongitudesBase, LongitudesExtra
    <2>2. ExtraLon(257 + k) = 2 /\ Ancho(257 + k) = 7
      BY <1>14 DEF ExtraLon, Ancho
    <2>3. Pot(2) = 4 /\ BaseLon(257 + k, 2) = 27
      BY <1>14, Potencias DEF BaseLon, Pot
    <2> QED
      BY <1>14, <2>1, <2>2, <2>3 DEF FilaLongitudes
  <1>15. CASE k = 15
    <2>1. LBASE[k + 1] = 31 /\ LEXTRA[k + 1] = 2 /\ LBASE[k + 2] = 35
      BY <1>15, LongitudesBase, LongitudesExtra
    <2>2. ExtraLon(257 + k) = 2 /\ Ancho(257 + k) = 7
      BY <1>15 DEF ExtraLon, Ancho
    <2>3. Pot(2) = 4 /\ BaseLon(257 + k, 2) = 31
      BY <1>15, Potencias DEF BaseLon, Pot
    <2> QED
      BY <1>15, <2>1, <2>2, <2>3 DEF FilaLongitudes
  <1>16. CASE k = 16
    <2>1. LBASE[k + 1] = 35 /\ LEXTRA[k + 1] = 3 /\ LBASE[k + 2] = 43
      BY <1>16, LongitudesBase, LongitudesExtra
    <2>2. ExtraLon(257 + k) = 3 /\ Ancho(257 + k) = 7
      BY <1>16 DEF ExtraLon, Ancho
    <2>3. Pot(3) = 8 /\ BaseLon(257 + k, 3) = 35
      BY <1>16, Potencias DEF BaseLon, Pot
    <2> QED
      BY <1>16, <2>1, <2>2, <2>3 DEF FilaLongitudes
  <1>17. CASE k = 17
    <2>1. LBASE[k + 1] = 43 /\ LEXTRA[k + 1] = 3 /\ LBASE[k + 2] = 51
      BY <1>17, LongitudesBase, LongitudesExtra
    <2>2. ExtraLon(257 + k) = 3 /\ Ancho(257 + k) = 7
      BY <1>17 DEF ExtraLon, Ancho
    <2>3. Pot(3) = 8 /\ BaseLon(257 + k, 3) = 43
      BY <1>17, Potencias DEF BaseLon, Pot
    <2> QED
      BY <1>17, <2>1, <2>2, <2>3 DEF FilaLongitudes
  <1>18. CASE k = 18
    <2>1. LBASE[k + 1] = 51 /\ LEXTRA[k + 1] = 3 /\ LBASE[k + 2] = 59
      BY <1>18, LongitudesBase, LongitudesExtra
    <2>2. ExtraLon(257 + k) = 3 /\ Ancho(257 + k) = 7
      BY <1>18 DEF ExtraLon, Ancho
    <2>3. Pot(3) = 8 /\ BaseLon(257 + k, 3) = 51
      BY <1>18, Potencias DEF BaseLon, Pot
    <2> QED
      BY <1>18, <2>1, <2>2, <2>3 DEF FilaLongitudes
  <1>19. CASE k = 19
    <2>1. LBASE[k + 1] = 59 /\ LEXTRA[k + 1] = 3 /\ LBASE[k + 2] = 67
      BY <1>19, LongitudesBase, LongitudesExtra
    <2>2. ExtraLon(257 + k) = 3 /\ Ancho(257 + k) = 7
      BY <1>19 DEF ExtraLon, Ancho
    <2>3. Pot(3) = 8 /\ BaseLon(257 + k, 3) = 59
      BY <1>19, Potencias DEF BaseLon, Pot
    <2> QED
      BY <1>19, <2>1, <2>2, <2>3 DEF FilaLongitudes
  <1>20. CASE k = 20
    <2>1. LBASE[k + 1] = 67 /\ LEXTRA[k + 1] = 4 /\ LBASE[k + 2] = 83
      BY <1>20, LongitudesBase, LongitudesExtra
    <2>2. ExtraLon(257 + k) = 4 /\ Ancho(257 + k) = 7
      BY <1>20 DEF ExtraLon, Ancho
    <2>3. Pot(4) = 16 /\ BaseLon(257 + k, 4) = 67
      BY <1>20, Potencias DEF BaseLon, Pot
    <2> QED
      BY <1>20, <2>1, <2>2, <2>3 DEF FilaLongitudes
  <1>21. CASE k = 21
    <2>1. LBASE[k + 1] = 83 /\ LEXTRA[k + 1] = 4 /\ LBASE[k + 2] = 99
      BY <1>21, LongitudesBase, LongitudesExtra
    <2>2. ExtraLon(257 + k) = 4 /\ Ancho(257 + k) = 7
      BY <1>21 DEF ExtraLon, Ancho
    <2>3. Pot(4) = 16 /\ BaseLon(257 + k, 4) = 83
      BY <1>21, Potencias DEF BaseLon, Pot
    <2> QED
      BY <1>21, <2>1, <2>2, <2>3 DEF FilaLongitudes
  <1>22. CASE k = 22
    <2>1. LBASE[k + 1] = 99 /\ LEXTRA[k + 1] = 4 /\ LBASE[k + 2] = 115
      BY <1>22, LongitudesBase, LongitudesExtra
    <2>2. ExtraLon(257 + k) = 4 /\ Ancho(257 + k) = 7
      BY <1>22 DEF ExtraLon, Ancho
    <2>3. Pot(4) = 16 /\ BaseLon(257 + k, 4) = 99
      BY <1>22, Potencias DEF BaseLon, Pot
    <2> QED
      BY <1>22, <2>1, <2>2, <2>3 DEF FilaLongitudes
  <1>23. CASE k = 23
    <2>1. LBASE[k + 1] = 115 /\ LEXTRA[k + 1] = 4 /\ LBASE[k + 2] = 131
      BY <1>23, LongitudesBase, LongitudesExtra
    <2>2. ExtraLon(257 + k) = 4 /\ Ancho(257 + k) = 8
      BY <1>23 DEF ExtraLon, Ancho
    <2>3. Pot(4) = 16 /\ BaseLon(257 + k, 4) = 115
      BY <1>23, Potencias DEF BaseLon, Pot
    <2> QED
      BY <1>23, <2>1, <2>2, <2>3 DEF FilaLongitudes
  <1>24. CASE k = 24
    <2>1. LBASE[k + 1] = 131 /\ LEXTRA[k + 1] = 5 /\ LBASE[k + 2] = 163
      BY <1>24, LongitudesBase, LongitudesExtra
    <2>2. ExtraLon(257 + k) = 5 /\ Ancho(257 + k) = 8
      BY <1>24 DEF ExtraLon, Ancho
    <2>3. Pot(5) = 32 /\ BaseLon(257 + k, 5) = 131
      BY <1>24, Potencias DEF BaseLon, Pot
    <2> QED
      BY <1>24, <2>1, <2>2, <2>3 DEF FilaLongitudes
  <1>25. CASE k = 25
    <2>1. LBASE[k + 1] = 163 /\ LEXTRA[k + 1] = 5 /\ LBASE[k + 2] = 195
      BY <1>25, LongitudesBase, LongitudesExtra
    <2>2. ExtraLon(257 + k) = 5 /\ Ancho(257 + k) = 8
      BY <1>25 DEF ExtraLon, Ancho
    <2>3. Pot(5) = 32 /\ BaseLon(257 + k, 5) = 163
      BY <1>25, Potencias DEF BaseLon, Pot
    <2> QED
      BY <1>25, <2>1, <2>2, <2>3 DEF FilaLongitudes
  <1>26. CASE k = 26
    <2>1. LBASE[k + 1] = 195 /\ LEXTRA[k + 1] = 5 /\ LBASE[k + 2] = 227
      BY <1>26, LongitudesBase, LongitudesExtra
    <2>2. ExtraLon(257 + k) = 5 /\ Ancho(257 + k) = 8
      BY <1>26 DEF ExtraLon, Ancho
    <2>3. Pot(5) = 32 /\ BaseLon(257 + k, 5) = 195
      BY <1>26, Potencias DEF BaseLon, Pot
    <2> QED
      BY <1>26, <2>1, <2>2, <2>3 DEF FilaLongitudes
  <1>27. CASE k = 27
    <2>1. LBASE[k + 1] = 227 /\ LEXTRA[k + 1] = 5 /\ LBASE[k + 2] = 258
      BY <1>27, LongitudesBase, LongitudesExtra
    <2>2. ExtraLon(257 + k) = 5 /\ Ancho(257 + k) = 8
      BY <1>27 DEF ExtraLon, Ancho
    <2>3. Pot(5) = 32 /\ BaseLon(257 + k, 5) = 227
      BY <1>27, Potencias DEF BaseLon, Pot
    <2> QED
      BY <1>27, <2>1, <2>2, <2>3 DEF FilaLongitudes
  <1>28. CASE k = 28
    <2>1. LBASE[k + 1] = 258 /\ LEXTRA[k + 1] = 0
      BY <1>28, LongitudesBase, LongitudesExtra
    <2>2. ExtraLon(257 + k) = 0 /\ Ancho(257 + k) = 8
      BY <1>28 DEF ExtraLon, Ancho
    <2>3. Pot(0) = 1 /\ BaseLon(257 + k, 0) = 258
      BY <1>28, Potencias DEF BaseLon, Pot
    <2> QED
      BY <1>28, <2>1, <2>2, <2>3 DEF FilaLongitudes
  <1>29. CASE k <= 14
    BY <1>29, <1>0, <1>1, <1>2, <1>3, <1>4, <1>5, <1>6, <1>7, <1>8, <1>9, <1>10, <1>11, <1>12, <1>13, <1>14
  <1>30. CASE k > 14
    BY <1>30, <1>15, <1>16, <1>17, <1>18, <1>19, <1>20, <1>21, <1>22, <1>23, <1>24, <1>25, <1>26, <1>27, <1>28
  <1> QED
    BY <1>29, <1>30

FilaDistancias(k) ==
    /\ DEXTRA[k + 1] \in 0 .. 13 /\ DBASE[k + 1] \in Nat \ {0}
    /\ k < 29 => DBASE[k + 2] - DBASE[k + 1] <= Pot(DEXTRA[k + 1])
    /\ k = 29 => Lejos - DBASE[k + 1] < Pot(DEXTRA[k + 1])
    /\ ExtraDist(k) = DEXTRA[k + 1] /\ BaseDist(k, DEXTRA[k + 1]) = DBASE[k + 1]

LEMMA DistanciasBase ==
    /\ DBASE \in Seq(Int) /\ Len(DBASE) = 30
    /\ DBASE[1] = 1
    /\ DBASE[2] = 2
    /\ DBASE[3] = 3
    /\ DBASE[4] = 4
    /\ DBASE[5] = 5
    /\ DBASE[6] = 7
    /\ DBASE[7] = 9
    /\ DBASE[8] = 13
    /\ DBASE[9] = 17
    /\ DBASE[10] = 25
    /\ DBASE[11] = 33
    /\ DBASE[12] = 49
    /\ DBASE[13] = 65
    /\ DBASE[14] = 97
    /\ DBASE[15] = 129
    /\ DBASE[16] = 193
    /\ DBASE[17] = 257
    /\ DBASE[18] = 385
    /\ DBASE[19] = 513
    /\ DBASE[20] = 769
    /\ DBASE[21] = 1025
    /\ DBASE[22] = 1537
    /\ DBASE[23] = 2049
    /\ DBASE[24] = 3073
    /\ DBASE[25] = 4097
    /\ DBASE[26] = 6145
    /\ DBASE[27] = 8193
    /\ DBASE[28] = 12289
    /\ DBASE[29] = 16385
    /\ DBASE[30] = 24577
  BY DEF DBASE

LEMMA DistanciasExtra ==
    /\ DEXTRA[1] = 0
    /\ DEXTRA[2] = 0
    /\ DEXTRA[3] = 0
    /\ DEXTRA[4] = 0
    /\ DEXTRA[5] = 1
    /\ DEXTRA[6] = 1
    /\ DEXTRA[7] = 2
    /\ DEXTRA[8] = 2
    /\ DEXTRA[9] = 3
    /\ DEXTRA[10] = 3
    /\ DEXTRA[11] = 4
    /\ DEXTRA[12] = 4
    /\ DEXTRA[13] = 5
    /\ DEXTRA[14] = 5
    /\ DEXTRA[15] = 6
    /\ DEXTRA[16] = 6
    /\ DEXTRA[17] = 7
    /\ DEXTRA[18] = 7
    /\ DEXTRA[19] = 8
    /\ DEXTRA[20] = 8
    /\ DEXTRA[21] = 9
    /\ DEXTRA[22] = 9
    /\ DEXTRA[23] = 10
    /\ DEXTRA[24] = 10
    /\ DEXTRA[25] = 11
    /\ DEXTRA[26] = 11
    /\ DEXTRA[27] = 12
    /\ DEXTRA[28] = 12
    /\ DEXTRA[29] = 13
    /\ DEXTRA[30] = 13
  BY DEF DEXTRA

LEMMA Distancias ==
    ASSUME NEW k \in 0 .. 29
    PROVE  FilaDistancias(k)
  <1>0. CASE k = 0
    <2>1. DBASE[k + 1] = 1 /\ DEXTRA[k + 1] = 0 /\ DBASE[k + 2] = 2
      BY <1>0, DistanciasBase, DistanciasExtra
    <2>2. ExtraDist(k) = 0
      BY <1>0 DEF ExtraDist
    <2>3. Pot(0) = 1 /\ BaseDist(k, 0) = 1
      BY <1>0, Potencias DEF BaseDist, Pot
    <2> QED
      BY <1>0, <2>1, <2>2, <2>3 DEF FilaDistancias
  <1>1. CASE k = 1
    <2>1. DBASE[k + 1] = 2 /\ DEXTRA[k + 1] = 0 /\ DBASE[k + 2] = 3
      BY <1>1, DistanciasBase, DistanciasExtra
    <2>2. ExtraDist(k) = 0
      BY <1>1 DEF ExtraDist
    <2>3. Pot(0) = 1 /\ BaseDist(k, 0) = 2
      BY <1>1, Potencias DEF BaseDist, Pot
    <2> QED
      BY <1>1, <2>1, <2>2, <2>3 DEF FilaDistancias
  <1>2. CASE k = 2
    <2>1. DBASE[k + 1] = 3 /\ DEXTRA[k + 1] = 0 /\ DBASE[k + 2] = 4
      BY <1>2, DistanciasBase, DistanciasExtra
    <2>2. ExtraDist(k) = 0
      BY <1>2 DEF ExtraDist
    <2>3. Pot(0) = 1 /\ BaseDist(k, 0) = 3
      BY <1>2, Potencias DEF BaseDist, Pot
    <2> QED
      BY <1>2, <2>1, <2>2, <2>3 DEF FilaDistancias
  <1>3. CASE k = 3
    <2>1. DBASE[k + 1] = 4 /\ DEXTRA[k + 1] = 0 /\ DBASE[k + 2] = 5
      BY <1>3, DistanciasBase, DistanciasExtra
    <2>2. ExtraDist(k) = 0
      BY <1>3 DEF ExtraDist
    <2>3. Pot(0) = 1 /\ BaseDist(k, 0) = 4
      BY <1>3, Potencias DEF BaseDist, Pot
    <2> QED
      BY <1>3, <2>1, <2>2, <2>3 DEF FilaDistancias
  <1>4. CASE k = 4
    <2>1. DBASE[k + 1] = 5 /\ DEXTRA[k + 1] = 1 /\ DBASE[k + 2] = 7
      BY <1>4, DistanciasBase, DistanciasExtra
    <2>2. ExtraDist(k) = 1
      BY <1>4 DEF ExtraDist
    <2>3. Pot(1) = 2 /\ BaseDist(k, 1) = 5
      BY <1>4, Potencias DEF BaseDist, Pot
    <2> QED
      BY <1>4, <2>1, <2>2, <2>3 DEF FilaDistancias
  <1>5. CASE k = 5
    <2>1. DBASE[k + 1] = 7 /\ DEXTRA[k + 1] = 1 /\ DBASE[k + 2] = 9
      BY <1>5, DistanciasBase, DistanciasExtra
    <2>2. ExtraDist(k) = 1
      BY <1>5 DEF ExtraDist
    <2>3. Pot(1) = 2 /\ BaseDist(k, 1) = 7
      BY <1>5, Potencias DEF BaseDist, Pot
    <2> QED
      BY <1>5, <2>1, <2>2, <2>3 DEF FilaDistancias
  <1>6. CASE k = 6
    <2>1. DBASE[k + 1] = 9 /\ DEXTRA[k + 1] = 2 /\ DBASE[k + 2] = 13
      BY <1>6, DistanciasBase, DistanciasExtra
    <2>2. ExtraDist(k) = 2
      BY <1>6 DEF ExtraDist
    <2>3. Pot(2) = 4 /\ BaseDist(k, 2) = 9
      BY <1>6, Potencias DEF BaseDist, Pot
    <2> QED
      BY <1>6, <2>1, <2>2, <2>3 DEF FilaDistancias
  <1>7. CASE k = 7
    <2>1. DBASE[k + 1] = 13 /\ DEXTRA[k + 1] = 2 /\ DBASE[k + 2] = 17
      BY <1>7, DistanciasBase, DistanciasExtra
    <2>2. ExtraDist(k) = 2
      BY <1>7 DEF ExtraDist
    <2>3. Pot(2) = 4 /\ BaseDist(k, 2) = 13
      BY <1>7, Potencias DEF BaseDist, Pot
    <2> QED
      BY <1>7, <2>1, <2>2, <2>3 DEF FilaDistancias
  <1>8. CASE k = 8
    <2>1. DBASE[k + 1] = 17 /\ DEXTRA[k + 1] = 3 /\ DBASE[k + 2] = 25
      BY <1>8, DistanciasBase, DistanciasExtra
    <2>2. ExtraDist(k) = 3
      BY <1>8 DEF ExtraDist
    <2>3. Pot(3) = 8 /\ BaseDist(k, 3) = 17
      BY <1>8, Potencias DEF BaseDist, Pot
    <2> QED
      BY <1>8, <2>1, <2>2, <2>3 DEF FilaDistancias
  <1>9. CASE k = 9
    <2>1. DBASE[k + 1] = 25 /\ DEXTRA[k + 1] = 3 /\ DBASE[k + 2] = 33
      BY <1>9, DistanciasBase, DistanciasExtra
    <2>2. ExtraDist(k) = 3
      BY <1>9 DEF ExtraDist
    <2>3. Pot(3) = 8 /\ BaseDist(k, 3) = 25
      BY <1>9, Potencias DEF BaseDist, Pot
    <2> QED
      BY <1>9, <2>1, <2>2, <2>3 DEF FilaDistancias
  <1>10. CASE k = 10
    <2>1. DBASE[k + 1] = 33 /\ DEXTRA[k + 1] = 4 /\ DBASE[k + 2] = 49
      BY <1>10, DistanciasBase, DistanciasExtra
    <2>2. ExtraDist(k) = 4
      BY <1>10 DEF ExtraDist
    <2>3. Pot(4) = 16 /\ BaseDist(k, 4) = 33
      BY <1>10, Potencias DEF BaseDist, Pot
    <2> QED
      BY <1>10, <2>1, <2>2, <2>3 DEF FilaDistancias
  <1>11. CASE k = 11
    <2>1. DBASE[k + 1] = 49 /\ DEXTRA[k + 1] = 4 /\ DBASE[k + 2] = 65
      BY <1>11, DistanciasBase, DistanciasExtra
    <2>2. ExtraDist(k) = 4
      BY <1>11 DEF ExtraDist
    <2>3. Pot(4) = 16 /\ BaseDist(k, 4) = 49
      BY <1>11, Potencias DEF BaseDist, Pot
    <2> QED
      BY <1>11, <2>1, <2>2, <2>3 DEF FilaDistancias
  <1>12. CASE k = 12
    <2>1. DBASE[k + 1] = 65 /\ DEXTRA[k + 1] = 5 /\ DBASE[k + 2] = 97
      BY <1>12, DistanciasBase, DistanciasExtra
    <2>2. ExtraDist(k) = 5
      BY <1>12 DEF ExtraDist
    <2>3. Pot(5) = 32 /\ BaseDist(k, 5) = 65
      BY <1>12, Potencias DEF BaseDist, Pot
    <2> QED
      BY <1>12, <2>1, <2>2, <2>3 DEF FilaDistancias
  <1>13. CASE k = 13
    <2>1. DBASE[k + 1] = 97 /\ DEXTRA[k + 1] = 5 /\ DBASE[k + 2] = 129
      BY <1>13, DistanciasBase, DistanciasExtra
    <2>2. ExtraDist(k) = 5
      BY <1>13 DEF ExtraDist
    <2>3. Pot(5) = 32 /\ BaseDist(k, 5) = 97
      BY <1>13, Potencias DEF BaseDist, Pot
    <2> QED
      BY <1>13, <2>1, <2>2, <2>3 DEF FilaDistancias
  <1>14. CASE k = 14
    <2>1. DBASE[k + 1] = 129 /\ DEXTRA[k + 1] = 6 /\ DBASE[k + 2] = 193
      BY <1>14, DistanciasBase, DistanciasExtra
    <2>2. ExtraDist(k) = 6
      BY <1>14 DEF ExtraDist
    <2>3. Pot(6) = 64 /\ BaseDist(k, 6) = 129
      BY <1>14, Potencias DEF BaseDist, Pot
    <2> QED
      BY <1>14, <2>1, <2>2, <2>3 DEF FilaDistancias
  <1>15. CASE k = 15
    <2>1. DBASE[k + 1] = 193 /\ DEXTRA[k + 1] = 6 /\ DBASE[k + 2] = 257
      BY <1>15, DistanciasBase, DistanciasExtra
    <2>2. ExtraDist(k) = 6
      BY <1>15 DEF ExtraDist
    <2>3. Pot(6) = 64 /\ BaseDist(k, 6) = 193
      BY <1>15, Potencias DEF BaseDist, Pot
    <2> QED
      BY <1>15, <2>1, <2>2, <2>3 DEF FilaDistancias
  <1>16. CASE k = 16
    <2>1. DBASE[k + 1] = 257 /\ DEXTRA[k + 1] = 7 /\ DBASE[k + 2] = 385
      BY <1>16, DistanciasBase, DistanciasExtra
    <2>2. ExtraDist(k) = 7
      BY <1>16 DEF ExtraDist
    <2>3. Pot(7) = 128 /\ BaseDist(k, 7) = 257
      BY <1>16, Potencias DEF BaseDist, Pot
    <2> QED
      BY <1>16, <2>1, <2>2, <2>3 DEF FilaDistancias
  <1>17. CASE k = 17
    <2>1. DBASE[k + 1] = 385 /\ DEXTRA[k + 1] = 7 /\ DBASE[k + 2] = 513
      BY <1>17, DistanciasBase, DistanciasExtra
    <2>2. ExtraDist(k) = 7
      BY <1>17 DEF ExtraDist
    <2>3. Pot(7) = 128 /\ BaseDist(k, 7) = 385
      BY <1>17, Potencias DEF BaseDist, Pot
    <2> QED
      BY <1>17, <2>1, <2>2, <2>3 DEF FilaDistancias
  <1>18. CASE k = 18
    <2>1. DBASE[k + 1] = 513 /\ DEXTRA[k + 1] = 8 /\ DBASE[k + 2] = 769
      BY <1>18, DistanciasBase, DistanciasExtra
    <2>2. ExtraDist(k) = 8
      BY <1>18 DEF ExtraDist
    <2>3. Pot(8) = 256 /\ BaseDist(k, 8) = 513
      BY <1>18, Potencias DEF BaseDist, Pot
    <2> QED
      BY <1>18, <2>1, <2>2, <2>3 DEF FilaDistancias
  <1>19. CASE k = 19
    <2>1. DBASE[k + 1] = 769 /\ DEXTRA[k + 1] = 8 /\ DBASE[k + 2] = 1025
      BY <1>19, DistanciasBase, DistanciasExtra
    <2>2. ExtraDist(k) = 8
      BY <1>19 DEF ExtraDist
    <2>3. Pot(8) = 256 /\ BaseDist(k, 8) = 769
      BY <1>19, Potencias DEF BaseDist, Pot
    <2> QED
      BY <1>19, <2>1, <2>2, <2>3 DEF FilaDistancias
  <1>20. CASE k = 20
    <2>1. DBASE[k + 1] = 1025 /\ DEXTRA[k + 1] = 9 /\ DBASE[k + 2] = 1537
      BY <1>20, DistanciasBase, DistanciasExtra
    <2>2. ExtraDist(k) = 9
      BY <1>20 DEF ExtraDist
    <2>3. Pot(9) = 512 /\ BaseDist(k, 9) = 1025
      BY <1>20, Potencias DEF BaseDist, Pot
    <2> QED
      BY <1>20, <2>1, <2>2, <2>3 DEF FilaDistancias
  <1>21. CASE k = 21
    <2>1. DBASE[k + 1] = 1537 /\ DEXTRA[k + 1] = 9 /\ DBASE[k + 2] = 2049
      BY <1>21, DistanciasBase, DistanciasExtra
    <2>2. ExtraDist(k) = 9
      BY <1>21 DEF ExtraDist
    <2>3. Pot(9) = 512 /\ BaseDist(k, 9) = 1537
      BY <1>21, Potencias DEF BaseDist, Pot
    <2> QED
      BY <1>21, <2>1, <2>2, <2>3 DEF FilaDistancias
  <1>22. CASE k = 22
    <2>1. DBASE[k + 1] = 2049 /\ DEXTRA[k + 1] = 10 /\ DBASE[k + 2] = 3073
      BY <1>22, DistanciasBase, DistanciasExtra
    <2>2. ExtraDist(k) = 10
      BY <1>22 DEF ExtraDist
    <2>3. Pot(10) = 1024 /\ BaseDist(k, 10) = 2049
      BY <1>22, Potencias DEF BaseDist, Pot
    <2> QED
      BY <1>22, <2>1, <2>2, <2>3 DEF FilaDistancias
  <1>23. CASE k = 23
    <2>1. DBASE[k + 1] = 3073 /\ DEXTRA[k + 1] = 10 /\ DBASE[k + 2] = 4097
      BY <1>23, DistanciasBase, DistanciasExtra
    <2>2. ExtraDist(k) = 10
      BY <1>23 DEF ExtraDist
    <2>3. Pot(10) = 1024 /\ BaseDist(k, 10) = 3073
      BY <1>23, Potencias DEF BaseDist, Pot
    <2> QED
      BY <1>23, <2>1, <2>2, <2>3 DEF FilaDistancias
  <1>24. CASE k = 24
    <2>1. DBASE[k + 1] = 4097 /\ DEXTRA[k + 1] = 11 /\ DBASE[k + 2] = 6145
      BY <1>24, DistanciasBase, DistanciasExtra
    <2>2. ExtraDist(k) = 11
      BY <1>24 DEF ExtraDist
    <2>3. Pot(11) = 2048 /\ BaseDist(k, 11) = 4097
      BY <1>24, Potencias DEF BaseDist, Pot
    <2> QED
      BY <1>24, <2>1, <2>2, <2>3 DEF FilaDistancias
  <1>25. CASE k = 25
    <2>1. DBASE[k + 1] = 6145 /\ DEXTRA[k + 1] = 11 /\ DBASE[k + 2] = 8193
      BY <1>25, DistanciasBase, DistanciasExtra
    <2>2. ExtraDist(k) = 11
      BY <1>25 DEF ExtraDist
    <2>3. Pot(11) = 2048 /\ BaseDist(k, 11) = 6145
      BY <1>25, Potencias DEF BaseDist, Pot
    <2> QED
      BY <1>25, <2>1, <2>2, <2>3 DEF FilaDistancias
  <1>26. CASE k = 26
    <2>1. DBASE[k + 1] = 8193 /\ DEXTRA[k + 1] = 12 /\ DBASE[k + 2] = 12289
      BY <1>26, DistanciasBase, DistanciasExtra
    <2>2. ExtraDist(k) = 12
      BY <1>26 DEF ExtraDist
    <2>3. Pot(12) = 4096 /\ BaseDist(k, 12) = 8193
      BY <1>26, Potencias DEF BaseDist, Pot
    <2> QED
      BY <1>26, <2>1, <2>2, <2>3 DEF FilaDistancias
  <1>27. CASE k = 27
    <2>1. DBASE[k + 1] = 12289 /\ DEXTRA[k + 1] = 12 /\ DBASE[k + 2] = 16385
      BY <1>27, DistanciasBase, DistanciasExtra
    <2>2. ExtraDist(k) = 12
      BY <1>27 DEF ExtraDist
    <2>3. Pot(12) = 4096 /\ BaseDist(k, 12) = 12289
      BY <1>27, Potencias DEF BaseDist, Pot
    <2> QED
      BY <1>27, <2>1, <2>2, <2>3 DEF FilaDistancias
  <1>28. CASE k = 28
    <2>1. DBASE[k + 1] = 16385 /\ DEXTRA[k + 1] = 13 /\ DBASE[k + 2] = 24577
      BY <1>28, DistanciasBase, DistanciasExtra
    <2>2. ExtraDist(k) = 13
      BY <1>28 DEF ExtraDist
    <2>3. Pot(13) = 8192 /\ BaseDist(k, 13) = 16385
      BY <1>28, Potencias DEF BaseDist, Pot
    <2> QED
      BY <1>28, <2>1, <2>2, <2>3 DEF FilaDistancias
  <1>29. CASE k = 29
    <2>1. DBASE[k + 1] = 24577 /\ DEXTRA[k + 1] = 13
      BY <1>29, DistanciasBase, DistanciasExtra
    <2>2. ExtraDist(k) = 13
      BY <1>29 DEF ExtraDist
    <2>3. Pot(13) = 8192 /\ BaseDist(k, 13) = 24577
      BY <1>29, Potencias DEF BaseDist, Pot
    <2> QED
      BY <1>29, <2>1, <2>2, <2>3 DEF FilaDistancias, Lejos
  <1>30. CASE k <= 14
    BY <1>30, <1>0, <1>1, <1>2, <1>3, <1>4, <1>5, <1>6, <1>7, <1>8, <1>9, <1>10, <1>11, <1>12, <1>13, <1>14
  <1>31. CASE k > 14
    BY <1>31, <1>15, <1>16, <1>17, <1>18, <1>19, <1>20, <1>21, <1>22, <1>23, <1>24, <1>25, <1>26, <1>27, <1>28, <1>29
  <1> QED
    BY <1>30, <1>31


\* Every length and every distance of the format has a code, and what is left fits
\* its extra bits.
LEMMA LongitudEs ==
    ASSUME NEW len \in 3 .. 258
    PROVE  LET k == indiceLongitud(len) IN
           /\ k \in 0 .. 28 /\ FilaLongitudes(k)
           /\ LBASE[k + 1] <= len /\ len - LBASE[k + 1] < Pot(LEXTRA[k + 1])
  <1> DEFINE k == indiceLongitud(len)
  <1>1. LBASE \in Seq(Int) /\ Len(LBASE) = 29 /\ LBASE[1] = 3
    BY LongitudesBase
  <1>2. k \in 0 .. 28 /\ LBASE[k + 1] <= len /\ (k < 28 => len < LBASE[k + 2])
    <2>1. len \in Int /\ LBASE[1] <= len /\ Len(LBASE) >= 1 /\ Len(LBASE) - 1 = 28
      BY <1>1
    <2>2. /\ k \in 0 .. Len(LBASE) - 1 /\ LBASE[k + 1] <= len
          /\ k < Len(LBASE) - 1 => len < LBASE[k + 2]
      BY <1>1, <2>1, IndiceEs DEF indiceLongitud
    <2> QED
      BY <2>1, <2>2
  <1> HIDE DEF k
  <1>3. FilaLongitudes(k)
    BY <1>2, Longitudes
  <1>4. LBASE[k + 1] \in Int /\ (k < 28 => LBASE[k + 2] \in Int)
    <2>1. ASSUME NEW j \in 1 .. 29 PROVE LBASE[j] \in Int
      <3>1. j - 1 \in 0 .. 28 /\ (j - 1) + 1 = j
        OBVIOUS
      <3>2. FilaLongitudes(j - 1)
        BY <3>1, Longitudes
      <3>3. LBASE[(j - 1) + 1] \in Int
        BY <3>2 DEF FilaLongitudes
      <3> QED
        BY <3>1, <3>3
    <2>2. k + 1 \in 1 .. 29 /\ (k < 28 => k + 2 \in 1 .. 29)
      BY <1>2
    <2> QED
      BY <2>1, <2>2
  <1> DEFINE p == Pot(LEXTRA[k + 1])
  <1>5. p \in Nat
    <2> DEFINE x == LEXTRA[k + 1]
    <2>1. x \in 0 .. 13
      BY <1>3 DEF FilaLongitudes
    <2> HIDE DEF x
    <2>2. 2^x \in Nat
      BY <2>1, PotenciaEs
    <2> QED
      BY <2>2 DEF Pot, x
  <1>6. /\ k < 28 => LBASE[k + 2] - LBASE[k + 1] <= p
        /\ k = 28 => LBASE[k + 1] = 258 /\ p = 1
    BY <1>3 DEF FilaLongitudes
  <1> HIDE DEF p
  <1>7. len - LBASE[k + 1] < p
    BY <1>2, <1>4, <1>5, <1>6
  <1> QED
    BY <1>2, <1>3, <1>7 DEF k, p

LEMMA DistanciaEs ==
    ASSUME NEW dist \in 1 .. Lejos
    PROVE  LET k == indiceDistancia(dist) IN
           /\ k \in 0 .. 29 /\ FilaDistancias(k)
           /\ DBASE[k + 1] <= dist /\ dist - DBASE[k + 1] < Pot(DEXTRA[k + 1])
  <1> DEFINE k == indiceDistancia(dist)
  <1>0. Lejos \in Nat
    BY DEF Lejos
  <1>1. DBASE \in Seq(Int) /\ Len(DBASE) = 30 /\ DBASE[1] = 1
    BY DistanciasBase
  <1>2. k \in 0 .. 29 /\ DBASE[k + 1] <= dist /\ (k < 29 => dist < DBASE[k + 2])
    <2>1. dist \in Int /\ DBASE[1] <= dist /\ Len(DBASE) >= 1 /\ Len(DBASE) - 1 = 29
      BY <1>0, <1>1
    <2>2. /\ k \in 0 .. Len(DBASE) - 1 /\ DBASE[k + 1] <= dist
          /\ k < Len(DBASE) - 1 => dist < DBASE[k + 2]
      BY <1>1, <2>1, IndiceEs DEF indiceDistancia
    <2> QED
      BY <2>1, <2>2
  <1> HIDE DEF k
  <1>3. FilaDistancias(k)
    BY <1>2, Distancias
  <1>4. DBASE[k + 1] \in Int /\ (k < 29 => DBASE[k + 2] \in Int)
    <2>1. ASSUME NEW j \in 1 .. 30 PROVE DBASE[j] \in Int
      <3>1. j - 1 \in 0 .. 29 /\ (j - 1) + 1 = j
        OBVIOUS
      <3>2. FilaDistancias(j - 1)
        BY <3>1, Distancias
      <3>3. DBASE[(j - 1) + 1] \in Int
        BY <3>2 DEF FilaDistancias
      <3> QED
        BY <3>1, <3>3
    <2>2. k + 1 \in 1 .. 30 /\ (k < 29 => k + 2 \in 1 .. 30)
      BY <1>2
    <2> QED
      BY <2>1, <2>2
  <1> DEFINE p == Pot(DEXTRA[k + 1])
  <1>5. p \in Nat
    <2> DEFINE x == DEXTRA[k + 1]
    <2>1. x \in 0 .. 13
      BY <1>3 DEF FilaDistancias
    <2> HIDE DEF x
    <2>2. 2^x \in Nat
      BY <2>1, PotenciaEs
    <2> QED
      BY <2>2 DEF Pot, x
  <1>6. /\ k < 29 => DBASE[k + 2] - DBASE[k + 1] <= p
        /\ k = 29 => Lejos - DBASE[k + 1] < p
    BY <1>3 DEF FilaDistancias
  <1> HIDE DEF p
  <1>7. dist - DBASE[k + 1] < p
    BY <1>0, <1>2, <1>4, <1>5, <1>6
  <1> QED
    BY <1>2, <1>3, <1>7 DEF k, p

-----------------------------------------------------------------------------
(* A repetition.                                                           *)

LEMMA SigueMas ==
    ASSUME NEW e \in Bits, NEW g \in Bits, NEW h \in Bits, Sigue(e, g), Sigue(g, h)
    PROVE  Sigue(e, h)
  <1>1. Len(e) \in Nat /\ Len(g) \in Nat /\ Len(h) \in Nat
    BY DEF Bits
  <1> QED
    BY <1>1 DEF Sigue

LEMMA SigueLeido ==
    ASSUME NEW e \in Bits, NEW g, Sigue(e, g), NEW a \in Nat, NEW l \in Nat, a + l <= Len(e), NEW v
    PROVE  (Alta(e, a, v, l) => Alta(g, a, v, l)) /\ (Baja(e, a, v, l) => Baja(g, a, v, l))
  <1>1. Len(e) \in Nat
    BY DEF Bits
  <1>2. \A k \in 1 .. l : a + k \in 1 .. Len(e)
    BY <1>1
  <1>3. \A k \in 1 .. l : g[a + k] = e[a + k]
    BY <1>2 DEF Sigue
  <1> QED
    BY <1>3 DEF Alta, Baja

\* The bits a + 1 .. b of e are a repetition: the code of the length, its extra
\* bits, the code of the distance, its extra bits.
EsRepeticion(e, a, len, dist, b) ==
    LET li == indiceLongitud(len)
        di == indiceDistancia(dist)
        a1 == a + Ancho(257 + li)
        a2 == a1 + LEXTRA[li + 1]
        a3 == a2 + 5
    IN  /\ Alta(e, a, Valor(257 + li), Ancho(257 + li))
        /\ Baja(e, a1, len - LBASE[li + 1], LEXTRA[li + 1])
        /\ Alta(e, a2, di, 5)
        /\ Baja(e, a3, dist - DBASE[di + 1], DEXTRA[di + 1])
        /\ b = a3 + DEXTRA[di + 1]

LEMMA EscribirEs ==
    ASSUME NEW e \in Bits, NEW len \in 3 .. 258, NEW dist \in 1 .. Lejos
    PROVE  LET g == EscribirCoincidencia(e, len, dist) IN
           /\ g \in Bits /\ Sigue(e, g) /\ Len(g) <= Len(e) + 9 * len
           /\ EsRepeticion(g, Len(e), len, dist, Len(g))
  <1> DEFINE li == indiceLongitud(len)
             di == indiceDistancia(dist)
             xl == LEXTRA[li + 1]
             xd == DEXTRA[di + 1]
             vl == len - LBASE[li + 1]
             vd == dist - DBASE[di + 1]
             A == Ancho(257 + li)
             g1 == emitirSimbolo(e, 257 + li)
             g2 == Put(g1, vl, xl)
             g3 == Put(g2, invertir(di, 5), 5)
             g4 == Put(g3, vd, xd)
  <1>1. /\ li \in 0 .. 28 /\ xl \in 0 .. 5 /\ LBASE[li + 1] \in 3 .. 258 /\ vl \in Nat
        /\ A + xl + 18 <= 9 * LBASE[li + 1] /\ LBASE[li + 1] <= len
    <2>1. li \in 0 .. 28 /\ FilaLongitudes(li) /\ LBASE[li + 1] <= len
      BY LongitudEs
    <2> HIDE DEF li
    <2> QED
      BY <2>1 DEF FilaLongitudes
  <1>2. /\ di \in 0 .. 29 /\ xd \in 0 .. 13 /\ vd \in Nat
    <2>1. di \in 0 .. 29 /\ FilaDistancias(di) /\ DBASE[di + 1] <= dist
      BY DistanciaEs
    <2> HIDE DEF di
    <2> QED
      BY <2>1 DEF FilaDistancias
  <1>3. EscribirCoincidencia(e, len, dist) = g4
    BY DEF EscribirCoincidencia
  <1> HIDE DEF li, di, xl, xd, vl, vd
  <1>4. A \in 7 .. 9
    BY <1>1, AnchoEs
  <1>5. /\ g1 \in Bits /\ Len(g1) = Len(e) + A /\ Sigue(e, g1)
        /\ Alta(g1, Len(e), Valor(257 + li), A)
    <2> DEFINE sym == 257 + li
    <2>1. sym \in 0 .. 287 /\ g1 = emitirSimbolo(e, sym)
      BY <1>1
    <2> HIDE DEF sym, g1
    <2>2. /\ g1 \in Bits /\ Len(g1) = Len(e) + Ancho(sym) /\ Sigue(e, g1)
          /\ Alta(g1, Len(e), Valor(sym), Ancho(sym))
      BY <2>1, EmitirEs
    <2> QED
      BY <2>2 DEF sym
  <1> HIDE DEF g1
  <1>6. g2 \in Bits /\ Len(g2) = Len(g1) + xl /\ Sigue(g1, g2) /\ Baja(g2, Len(g1), vl, xl)
    <2>1. xl \in 0 .. 13
      BY <1>1
    <2> QED
      BY <1>1, <1>5, <2>1, PutEs
  <1> HIDE DEF g2
  <1>7. g3 \in Bits /\ Len(g3) = Len(g2) + 5 /\ Sigue(g2, g3) /\ Alta(g3, Len(g2), di, 5)
    <2> DEFINE l == 5
    <2>1. l \in Largos /\ di \in Nat /\ g3 = Put(g2, invertir(di, l), l)
      BY <1>2 DEF Largos
    <2> HIDE DEF l, g3
    <2>2. g3 \in Bits /\ Len(g3) = Len(g2) + l /\ Sigue(g2, g3) /\ Alta(g3, Len(g2), di, l)
      BY <1>6, <2>1, PutInvertido
    <2> QED
      BY <2>2 DEF l
  <1> HIDE DEF g3
  <1>8. g4 \in Bits /\ Len(g4) = Len(g3) + xd /\ Sigue(g3, g4) /\ Baja(g4, Len(g3), vd, xd)
    BY <1>2, <1>7, PutEs
  <1> HIDE DEF g4, A
  <1>9. Len(e) \in Nat /\ Len(g1) \in Nat /\ Len(g2) \in Nat /\ Len(g3) \in Nat /\ Len(g4) \in Nat
    BY <1>5, <1>6, <1>7, <1>8 DEF Bits
  <1>10. Sigue(g2, g4) /\ Sigue(g1, g4) /\ Sigue(e, g4)
    <2>1. Sigue(g2, g4)
      BY <1>6, <1>7, <1>8, SigueMas
    <2>2. Sigue(g1, g4)
      BY <1>5, <1>6, <1>8, <2>1, SigueMas
    <2> QED
      BY <1>5, <1>8, <2>1, <2>2, SigueMas
  <1>11. Alta(g4, Len(e), Valor(257 + li), A)
    BY <1>4, <1>5, <1>9, <1>10, SigueLeido
  <1>12. Baja(g4, Len(g1), vl, xl)
    BY <1>1, <1>6, <1>9, <1>10, SigueLeido
  <1>13. Alta(g4, Len(g2), di, 5)
    BY <1>7, <1>8, <1>9, SigueLeido
  <1>14. Len(g1) = Len(e) + A /\ Len(g2) = Len(e) + A + xl /\ Len(g3) = Len(e) + A + xl + 5
         /\ Len(g4) = Len(e) + A + xl + 5 + xd
    BY <1>1, <1>2, <1>4, <1>5, <1>6, <1>7, <1>8, <1>9
  <1>15. Len(g4) <= Len(e) + 9 * len
    <2>1. 9 * LBASE[li + 1] <= 9 * len
      BY <1>1
    <2>2. A + xl + 18 <= 9 * len /\ 9 * LBASE[li + 1] \in Int
      BY <1>1, <1>4, <2>1
    <2> QED
      BY <1>1, <1>2, <1>4, <1>9, <1>14, <2>2
  <1>16. EsRepeticion(g4, Len(e), len, dist, Len(g4))
    BY <1>8, <1>11, <1>12, <1>13, <1>14 DEF EsRepeticion, A, li, di, xl, xd, vl, vd
  <1> QED
    BY <1>3, <1>8, <1>10, <1>15, <1>16

\* What the client makes of the four fields of a repetition.
Campos(z, s, b, xl, d, xd, vl, vd) ==
    /\ s \in 257 .. 285 /\ b \in Nat /\ xl \in 0 .. 5 /\ d \in 0 .. 29 /\ xd \in 0 .. 13
    /\ vl \in Nat /\ vd \in Nat /\ vl < Pot(xl) /\ vd < Pot(xd)
    /\ xl = ExtraLon(s) /\ xd = ExtraDist(d)
    /\ vl = BitsBajos(z, b, xl) /\ d = Codigo(z, b + xl, 5) /\ vd = BitsBajos(z, b + xl + 5, xd)

LEMMA RepeticionEs ==
    ASSUME NEW z, NEW s, NEW b, NEW xl, NEW d, NEW xd, NEW vl, NEW vd,
           Campos(z, s, b, xl, d, xd, vl, vd)
    PROVE  Repeticion(z, s, b) = [lon |-> BaseLon(s, xl) + vl, dist |-> BaseDist(d, xd) + vd,
                                  fin |-> b + xl + 5 + xd]
  <1>0. /\ s \in 257 .. 285 /\ b \in Nat /\ xl \in 0 .. 5 /\ d \in 0 .. 29 /\ xd \in 0 .. 13
        /\ vl \in Nat /\ vd \in Nat /\ vl < Pot(xl) /\ vd < Pot(xd)
        /\ xl = ExtraLon(s) /\ xd = ExtraDist(d)
        /\ vl = BitsBajos(z, b, xl) /\ d = Codigo(z, b + xl, 5) /\ vd = BitsBajos(z, b + xl + 5, xd)
    BY DEF Campos
  <1> DEFINE le == IF s < 265 \/ s = 285 THEN 0 ELSE (s - 261) \div 4
             lon(x) == CASE s < 265 -> s - 254
                         [] s = 285 -> 258
                         [] OTHER -> (4 + ((s - 265) % 4)) * 2^x + 3 + BitsBajos(z, b, x)
             c(x) == Codigo(z, b + x, 5)
             de(y) == IF y < 4 THEN 0 ELSE (y - 2) \div 2
             dist(x, y, w) == IF y < 4 THEN y + 1
                              ELSE (2 + (y % 2)) * 2^w + 1 + BitsBajos(z, b + x + 5, w)
  <1>1. Repeticion(z, s, b) = [lon |-> lon(le), dist |-> dist(le, c(le), de(c(le))),
                               fin |-> b + le + 5 + de(c(le))]
    BY DEF Repeticion
  <1>2. le = xl /\ c(xl) = d /\ de(d) = xd
    BY <1>0 DEF ExtraLon, ExtraDist
  <1>3. Repeticion(z, s, b) = [lon |-> lon(xl), dist |-> dist(xl, d, xd), fin |-> b + xl + 5 + xd]
    <2> HIDE DEF lon, dist, le, c, de
    <2> QED
      BY <1>1, <1>2
  <1> HIDE DEF le, c, de
  <1>14. Pot(0) = 1
    BY Potencias DEF Pot
  <1>4. xl = 0 => vl = 0
    BY <1>0, <1>14
  <1>5. xd = 0 => vd = 0
    BY <1>0, <1>14
  <1>6. 2^xl \in Nat /\ 2^xd \in Nat
    <2>1. xl \in 0 .. 13 /\ xd \in 0 .. 13
      BY <1>0
    <2> QED
      BY <2>1, PotenciaEs
  <1>7. lon(xl) = BaseLon(s, xl) + vl
    <2>1. CASE s < 265
      <3>1. xl = 0 /\ vl = 0
        BY <2>1, <1>0, <1>4 DEF ExtraLon
      <3>2. lon(xl) = s - 254 /\ BaseLon(s, xl) = s - 254
        BY <2>1 DEF BaseLon
      <3> QED
        BY <1>0, <3>1, <3>2
    <2>2. CASE s = 285
      <3>1. xl = 0 /\ vl = 0
        BY <2>2, <1>0, <1>4 DEF ExtraLon
      <3>2. lon(xl) = 258 /\ BaseLon(s, xl) = 258
        BY <2>2 DEF BaseLon
      <3> QED
        BY <1>0, <3>1, <3>2
    <2>3. CASE ~ (s < 265) /\ s # 285
      <3> DEFINE m == (4 + ((s - 265) % 4)) * 2^xl
      <3>1. m \in Nat
        <4>1. 4 + ((s - 265) % 4) \in Nat
          BY <1>0, <2>3
        <4> QED
          BY <4>1, <1>6
      <3>2. lon(xl) = m + 3 + vl /\ BaseLon(s, xl) = m + 3
        BY <1>0, <2>3 DEF BaseLon
      <3> HIDE DEF m, lon
      <3> QED
        BY <1>0, <3>1, <3>2
    <2> QED
      BY <2>1, <2>2, <2>3
  <1>8. dist(xl, d, xd) = BaseDist(d, xd) + vd
    <2>1. CASE d < 4
      <3>1. xd = 0 /\ vd = 0
        BY <2>1, <1>0, <1>5 DEF ExtraDist
      <3>2. dist(xl, d, xd) = d + 1 /\ BaseDist(d, xd) = d + 1
        BY <2>1 DEF BaseDist
      <3> QED
        BY <1>0, <3>1, <3>2
    <2>2. CASE ~ (d < 4)
      <3> DEFINE m == (2 + (d % 2)) * 2^xd
      <3>1. m \in Nat
        <4>1. 2 + (d % 2) \in Nat
          BY <1>0, <2>2
        <4> QED
          BY <4>1, <1>6
      <3>2. dist(xl, d, xd) = m + 1 + vd /\ BaseDist(d, xd) = m + 1
        BY <1>0, <2>2 DEF BaseDist
      <3> HIDE DEF m, dist
      <3> QED
        BY <1>0, <3>1, <3>2
    <2> QED
      BY <2>1, <2>2
  <1> QED
    BY <1>3, <1>7, <1>8

LEMMA LongitudCampos ==
    ASSUME NEW len \in 3 .. 258
    PROVE  LET k == indiceLongitud(len)
               x == LEXTRA[k + 1]
               v == len - LBASE[k + 1]
           IN  /\ k \in 0 .. 28 /\ x \in 0 .. 5 /\ v \in Nat /\ v < Pot(x)
               /\ x = ExtraLon(257 + k) /\ BaseLon(257 + k, x) + v = len
  <1> DEFINE k == indiceLongitud(len)
             x == LEXTRA[k + 1]
             y == LBASE[k + 1]
             v == len - LBASE[k + 1]
             base == BaseLon(257 + k, x)
  <1>1. k \in 0 .. 28 /\ FilaLongitudes(k) /\ y <= len /\ v < Pot(x)
    BY LongitudEs
  <1> HIDE DEF k
  <1>2. x \in 0 .. 5 /\ y \in 3 .. 258 /\ ExtraLon(257 + k) = x /\ base = y
    BY <1>1 DEF FilaLongitudes
  <1>3. v = len - y
    OBVIOUS
  <1> HIDE DEF y, v, base
  <1>4. y \in Nat /\ y <= len /\ base = y
    BY <1>1, <1>2
  <1>5. v \in Nat /\ base + v = len
    BY <1>3, <1>4
  <1> QED
    BY <1>1, <1>2, <1>5 DEF k, v, base

DaRepeticion(z, lu, len, dist, sig) ==
    LET r == Simbolo(z, lu) IN
    /\ r.es \in 257 .. 285
    /\ Repeticion(z, r.es, r.fin) = [lon |-> len, dist |-> dist, fin |-> sig]

\* The client reads the repetition that was written.
LEMMA LeerRepeticion ==
    ASSUME NEW e, NEW z, EsFlujo(z, e), NEW a \in Nat, NEW len \in 3 .. 258,
           NEW dist \in 1 .. Lejos, NEW b \in Nat, b <= Len(e), EsRepeticion(e, a, len, dist, b)
    PROVE  DaRepeticion(z, 16 + a, len, dist, 16 + b)
  <1> DEFINE li == indiceLongitud(len)
             di == indiceDistancia(dist)
             xl == LEXTRA[li + 1]
             xd == DEXTRA[di + 1]
             vl == len - LBASE[li + 1]
             vd == dist - DBASE[di + 1]
             s == 257 + li
             A == Ancho(s)
  <1>0. Len(e) \in Nat
    <2>1. e \in Bits
      BY DEF EsFlujo
    <2> QED
      BY <2>1 DEF Bits
  <1>1. /\ li \in 0 .. 28 /\ xl \in 0 .. 5 /\ vl \in Nat /\ vl < Pot(xl)
        /\ xl = ExtraLon(s) /\ BaseLon(s, xl) + vl = len
    BY LongitudCampos
  <1>2. /\ di \in 0 .. 29 /\ xd \in 0 .. 13 /\ vd \in Nat /\ vd < Pot(xd)
        /\ xd = ExtraDist(di) /\ BaseDist(di, xd) + vd = dist
    <2>0. dist \in Nat
      BY DEF Lejos
    <2>1. di \in 0 .. 29 /\ FilaDistancias(di) /\ DBASE[di + 1] <= dist /\ vd < Pot(xd)
      BY DistanciaEs
    <2> HIDE DEF di
    <2>2. /\ xd \in 0 .. 13 /\ DBASE[di + 1] \in Nat
          /\ ExtraDist(di) = xd /\ BaseDist(di, xd) = DBASE[di + 1]
      BY <2>1 DEF FilaDistancias
    <2> QED
      BY <2>0, <2>1, <2>2
  <1>3. /\ Alta(e, a, Valor(s), A) /\ Baja(e, a + A, vl, xl) /\ Alta(e, a + A + xl, di, 5)
        /\ Baja(e, a + A + xl + 5, vd, xd) /\ b = a + A + xl + 5 + xd
    BY DEF EsRepeticion
  <1> HIDE DEF li, di, xl, xd, vl, vd
  <1>4. s \in 257 .. 285 /\ s \in 0 .. 287
    BY <1>1
  <1> HIDE DEF s
  <1>5. A \in 7 .. 9
    BY <1>4, AnchoEs
  <1> HIDE DEF A
  <1> DEFINE a1 == a + A
             a2 == a1 + xl
             a3 == a2 + 5
  <1>15. /\ a1 \in Nat /\ a2 \in Nat /\ a3 \in Nat /\ b = a3 + xd
         /\ a1 = a + A /\ a2 = a1 + xl /\ a3 = a2 + 5
    <2>1. b = a + A + xl + 5 + xd
      BY <1>3
    <2>2. xl \in Nat
      BY <1>1
    <2>3. xd \in Nat
      BY <1>2
    <2>4. A \in Nat
      BY <1>5
    <2>5. a1 \in Nat
      BY <2>4
    <2>6. a2 \in Nat
      BY <2>5, <2>2
    <2>7. a3 \in Nat
      BY <2>6
    <2> QED
      BY <2>1, <2>2, <2>3, <2>4, <2>5, <2>6, <2>7
  <1>16. Baja(e, a1, vl, xl) /\ Alta(e, a2, di, 5) /\ Baja(e, a3, vd, xd) /\ Alta(e, a, Valor(s), A)
    BY <1>3
  <1> HIDE DEF a1, a2, a3
  <1>17. a1 <= Len(e) /\ a1 + xl <= Len(e) /\ a2 + 5 <= Len(e) /\ a3 + xd <= Len(e) /\ xl \in 0 .. 13
    <2>2. xl \in Nat /\ xl \in 0 .. 13
      BY <1>1
    <2>3. xd \in Nat
      BY <1>2
    <2> QED
      BY <1>0, <1>15, <2>2, <2>3
  <1>6. Simbolo(z, 16 + a) = [es |-> s, fin |-> 16 + a1]
    <2>1. Simbolo(z, 16 + a) = [es |-> s, fin |-> 16 + a + Ancho(s)]
      <3>1. a + Ancho(s) <= Len(e) /\ Alta(e, a, Valor(s), Ancho(s))
        BY <1>15, <1>16, <1>17 DEF A
      <3> QED
        BY <1>4, <3>1, LeerSimbolo
    <2>2. 16 + a + A = 16 + a1
      BY <1>5, <1>15
    <2> QED
      BY <2>1, <2>2 DEF A
  <1>7. BitsBajos(z, 16 + a1, xl) = vl
    <2>1. vl < 2^xl
      BY <1>1 DEF Pot
    <2> QED
      BY <1>1, <1>15, <1>16, <1>17, <2>1, LeerBaja
  <1>8. Codigo(z, 16 + a2, 5) = di
    <2> DEFINE l == 5
    <2>1. l \in Largos /\ a2 + l <= Len(e) /\ Alta(e, a2, di, l)
      BY <1>16, <1>17 DEF Largos
    <2>2. di < 2^l /\ di \in Nat
      BY <1>2, Potencias
    <2> HIDE DEF l
    <2>3. Codigo(z, 16 + a2, l) = di
      BY <1>15, <2>1, <2>2, LeerAlta
    <2> QED
      BY <2>3 DEF l
  <1>9. BitsBajos(z, 16 + a3, xd) = vd
    <2>1. vd < 2^xd
      BY <1>2 DEF Pot
    <2> QED
      BY <1>2, <1>15, <1>16, <1>17, <2>1, LeerBaja
  <1> DEFINE m == 16 + a1
  <1>10. m \in Nat /\ 16 + a2 = m + xl /\ 16 + a3 = m + xl + 5 /\ 16 + b = m + xl + 5 + xd
    <2>2. xl \in Nat
      BY <1>1
    <2>3. xd \in Nat
      BY <1>2
    <2>4. a1 \in Nat /\ a2 = a1 + xl /\ a3 = a2 + 5 /\ b = a3 + xd
      BY <1>15
    <2> QED
      BY <2>2, <2>3, <2>4
  <1>11. vl = BitsBajos(z, m, xl) /\ di = Codigo(z, m + xl, 5) /\ vd = BitsBajos(z, m + xl + 5, xd)
    BY <1>7, <1>8, <1>9, <1>10
  <1> HIDE DEF m
  <1>12. Repeticion(z, s, m) = [lon |-> BaseLon(s, xl) + vl, dist |-> BaseDist(di, xd) + vd,
                                fin |-> m + xl + 5 + xd]
    <2>1. Campos(z, s, m, xl, di, xd, vl, vd)
      BY <1>1, <1>2, <1>4, <1>10, <1>11 DEF Campos
    <2> QED
      BY <2>1, RepeticionEs
  <1>13. Repeticion(z, s, m) = [lon |-> len, dist |-> dist, fin |-> 16 + b]
    BY <1>1, <1>2, <1>10, <1>12
  <1>14. Simbolo(z, 16 + a).es = s /\ Simbolo(z, 16 + a).fin = m
    BY <1>6 DEF m
  <1> QED
    BY <1>4, <1>13, <1>14 DEF DaRepeticion

-----------------------------------------------------------------------------
(* The compressor inside Tabla.                                            *)

LEMMA TablaInit == InitTabla => Init
  BY DEF InitTabla

LEMMA TablaPaso == [NextTabla]_varsTabla => [Next]_varsCompresor
  <1> SUFFICES ASSUME [NextTabla]_varsTabla PROVE Next \/ UNCHANGED varsCompresor
    OBVIOUS
  <1>1. CASE UNCHANGED varsTabla
    BY <1>1 DEF varsTabla
  <1>2. CASE ProcesarDatos
    BY <1>2 DEF ProcesarDatos
  <1>3. CASE Comprimir
    BY <1>3 DEF Comprimir
  <1>4. CASE AcabarFlujo
    BY <1>4 DEF AcabarFlujo
  <1>5. CASE EnviarListaRica
    BY <1>5 DEF EnviarListaRica
  <1>6. CASE EnviarClassInfo
    BY <1>6 DEF EnviarClassInfo
  <1>7. CASE \E p \in paquetes : ClienteRecibe(p)
    BY <1>7 DEF ClienteRecibe
  <1>8. CASE InflarLiteral \/ InflarRepeticion \/ FinDeBloque
    BY <1>8 DEF InflarLiteral, InflarRepeticion, FinDeBloque, SigueInflando
  <1>9. CASE Leida
    BY <1>9 DEF Leida, varsTabla
  <1> QED
    BY <1>1, <1>2, <1>3, <1>4, <1>5, <1>6, <1>7, <1>8, <1>9 DEF NextTabla

\* What is known of the compressor.
InvLZ == InvCompresor /\ CadenasCompletas /\ InvExactas

LEMMA LZInvariante == SpecTabla => []InvLZ
  <1>1. InitTabla => InvLZ
    BY TablaInit, CompresorInit, ExactasInit DEF InvLZ
  <1>2. InvLZ /\ [NextTabla]_varsTabla => InvLZ'
    BY TablaPaso, CompresorPaso, ExactasPaso DEF InvLZ
  <1> QED
    BY <1>1, <1>2, PTL DEF SpecTabla

\* Every length and every distance of the format, not only those at the boundaries,
\* has the code whose extra bits hold the rest (indiceLongitud, indiceDistancia).
THEOREM CodigosDeTodos ==
    /\ \A len \in 3 .. 258 : LongitudExacta(len)
    /\ \A d \in 1 .. Lejos : DistanciaExacta(d)
  BY LongitudEs, DistanciaEs DEF LongitudExacta, DistanciaExacta, Pot

\* The codes of Tabla's invariant are among them.
THEOREM CodigosSiempreExactos == SpecTabla => []CodigosExactos
  <1>1. Fronteras \cup {32768} \subseteq 1 .. Lejos
    <2>1. 32768 \in 1 .. Lejos
      BY DEF Lejos
    <2>2. Fronteras \subseteq 1 .. Lejos
      <3> DEFINE S == {DBASE[k] + x : k \in 1 .. Len(DBASE), x \in -1 .. 1}
      <3>1. Fronteras = S \cap (1 .. Lejos)
        BY DEF Fronteras, Lejos
      <3> HIDE DEF S
      <3> QED
        BY <3>1
    <2> QED
      BY <2>1, <2>2
  <1>2. (\A len \in 3 .. 258 : LongitudExacta(len))
        /\ \A d \in Fronteras \cup {32768} : DistanciaExacta(d)
    BY <1>1, CodigosDeTodos
  <1>3. CodigosExactos
    BY <1>2 DEF CodigosExactos
  <1> QED
    BY <1>3, PTL

-----------------------------------------------------------------------------
(* The checksum.                                                           *)

Suma(l, q, ini, g) ==
    LET r[k \in 0 .. l] == IF k = 0 THEN ini ELSE (r[k - 1] + g[k]) % q IN r

LEMMA SumaModulo ==
    ASSUME NEW l \in Nat, NEW q \in Nat \ {0}, NEW ini \in 0 .. q - 1, NEW g,
           \A k \in 1 .. l : g[k] \in Nat
    PROVE  Suma(l, q, ini, g) \in [0 .. l -> 0 .. q - 1]
  <1> DEFINE S == 0 .. q - 1
             paso == [x \in S \X (1 .. l) |-> (x[1] + g[x[2]]) % q]
  <1>1. paso \in [S \X (1 .. l) -> S]
    <2>1. ASSUME NEW s \in S, NEW k \in 1 .. l PROVE (s + g[k]) % q \in S
      <3>1. s + g[k] \in Nat
        OBVIOUS
      <3> QED
        BY <3>1
    <2> HIDE DEF S
    <2> QED
      BY <2>1
  <1>2. PICK f : Iteracion(f, S, l, ini, paso)
    <2> HIDE DEF S, paso
    <2> QED
      BY <1>1, Iterada DEF S
  <1>3. f \in [0 .. l -> S] /\ f[0] = ini
    BY <1>2 DEF Iteracion
  <1>4. ASSUME NEW k \in 1 .. l PROVE f[k] = (f[k - 1] + g[k]) % q
    <2>1. f[k] = paso[<<f[k - 1], k>>]
      <3> HIDE DEF S, paso
      <3> QED
        BY <1>2 DEF Iteracion
    <2> HIDE DEF S
    <2>2. <<f[k - 1], k>> \in S \X (1 .. l)
      BY <1>3
    <2> QED
      BY <2>1, <2>2
  <1> HIDE DEF paso, S
  <1>5. f = [k \in 0 .. l |-> IF k = 0 THEN ini ELSE (f[k - 1] + g[k]) % q]
    BY <1>3, <1>4
  <1> DEFINE r[k \in 0 .. l] == IF k = 0 THEN ini ELSE (r[k - 1] + g[k]) % q
  <1>6. r = [k \in 0 .. l |-> IF k = 0 THEN ini ELSE (r[k - 1] + g[k]) % q]
    BY <1>5
  <1> HIDE DEF r
  <1> DEFINE U == {k \in 0 .. l : r[k] = f[k]}
  <1>7. 0 \in U
    BY <1>6, <1>3
  <1>8. ASSUME NEW k \in 0 .. l - 1, k \in U PROVE k + 1 \in U
    <2>1. k + 1 \in 1 .. l /\ k + 1 \in 0 .. l /\ k + 1 # 0 /\ (k + 1) - 1 = k
      OBVIOUS
    <2>2. r[k + 1] = (r[k] + g[k + 1]) % q
      BY <1>6, <2>1
    <2>3. f[k + 1] = (f[k] + g[k + 1]) % q
      BY <1>4, <2>1
    <2>4. r[k] = f[k]
      BY <1>8
    <2> QED
      BY <2>1, <2>2, <2>3, <2>4
  <1>9. 0 .. l \subseteq U
    <2> HIDE DEF U
    <2> QED
      BY <1>7, <1>8, Induccion
  <1>10. \A k \in 0 .. l : r[k] \in S
    BY <1>3, <1>9
  <1>11. r \in [0 .. l -> S]
    BY <1>6, <1>10
  <1> QED
    BY <1>11 DEF r, S, Suma

LEMMA DosOctetos ==
    ASSUME NEW x \in Nat, x < 65536
    PROVE  x \div 256 \in Octeto /\ x % 256 \in Octeto
  BY SMT DEF Octeto

LEMMA AdlerBytes ==
    ASSUME NEW d \in Seq(Octeto)
    PROVE  BytesAdler(d) \in Seq(Octeto) /\ Len(BytesAdler(d)) = 4
  <1> DEFINE l == Len(d)
             q == 65521
             a[k \in 0 .. l] == IF k = 0 THEN 1 ELSE (a[k - 1] + d[k]) % q
             b[k \in 0 .. l] == IF k = 0 THEN 0 ELSE (b[k - 1] + a[k]) % q
  <1>1. adler32(d) = <<a[l], b[l]>>
    BY DEF adler32
  <1>2. l \in Nat
    OBVIOUS
  <1>3. \A k \in 1 .. l : d[k] \in Nat
    <2>1. \A k \in 1 .. l : d[k] \in Octeto
      OBVIOUS
    <2>2. Octeto \subseteq Nat
      BY DEF Octeto
    <2> QED
      BY <2>1, <2>2
  <1>4. q \in Nat \ {0} /\ q > 1 /\ q <= 65536
    OBVIOUS
  <1> HIDE DEF l, q
  <1>5. a \in [0 .. l -> 0 .. q - 1]
    <2>1. 1 \in 0 .. q - 1
      BY <1>4
    <2>2. a = Suma(l, q, 1, d)
      BY DEF Suma
    <2> HIDE DEF a
    <2> QED
      BY <1>2, <1>3, <1>4, <2>1, <2>2, SumaModulo
  <1> HIDE DEF a
  <1>6. b \in [0 .. l -> 0 .. q - 1]
    <2>1. 0 \in 0 .. q - 1
      BY <1>4
    <2>2. \A k \in 1 .. l : a[k] \in Nat
      BY <1>2, <1>4, <1>5
    <2>3. b = Suma(l, q, 0, a)
      BY DEF Suma
    <2> HIDE DEF b
    <2> QED
      BY <1>2, <1>4, <2>1, <2>2, <2>3, SumaModulo
  <1> HIDE DEF b
  <1> DEFINE x == a[l]
             y == b[l]
  <1>7. x \in Nat /\ y \in Nat /\ x < 65536 /\ y < 65536
    <2>1. x \in 0 .. q - 1 /\ y \in 0 .. q - 1
      BY <1>2, <1>5, <1>6
    <2> HIDE DEF x, y
    <2> QED
      BY <1>4, <2>1
  <1> HIDE DEF x, y
  <1>8. x \div 256 \in Octeto /\ x % 256 \in Octeto /\ y \div 256 \in Octeto /\ y % 256 \in Octeto
    BY <1>7, DosOctetos
  <1>9. BytesAdler(d) = <<y \div 256, y % 256, x \div 256, x % 256>>
    BY <1>1 DEF BytesAdler, x, y
  <1> QED
    BY <1>8, <1>9

-----------------------------------------------------------------------------
(* The tokens, as bits.                                                    *)

\* From bit a up to b, e has the token f of the buffer en.
EsFicha(en, e, a, f, b) ==
    /\ a \in Nat /\ b \in Nat /\ a <= b /\ b <= Len(e)
    /\ \/ /\ f.lon = 1 /\ f.dist = 0 /\ en[f.en] \in Octeto
          /\ b = a + Ancho(en[f.en]) /\ Alta(e, a, Valor(en[f.en]), Ancho(en[f.en]))
       \/ /\ f.lon \in 3 .. 258 /\ f.dist \in 1 .. Lejos
          /\ EsRepeticion(e, a, f.lon, f.dist, b)

\* The tokens fs, one after another from bit 3 on: ini has where each begins.
EsCamino(en, fs, e, ini) ==
    /\ ini \in Seq(Nat) /\ Len(ini) = Len(fs) + 1 /\ ini[1] = 3
    /\ \A k \in 1 .. Len(fs) : EsFicha(en, e, ini[k], fs[k], ini[k + 1])

\* Where the last of them ends.
Final(ini) == ini[Len(ini)]

LEMMA RepeticionSigue ==
    ASSUME NEW e \in Bits, NEW g \in Bits, Sigue(e, g), NEW a \in Nat, NEW b \in Nat, b <= Len(e),
           NEW len \in 3 .. 258, NEW dist \in 1 .. Lejos, EsRepeticion(e, a, len, dist, b)
    PROVE  EsRepeticion(g, a, len, dist, b)
  <1> DEFINE li == indiceLongitud(len)
             di == indiceDistancia(dist)
             w == Ancho(257 + li)
             x == LEXTRA[li + 1]
             y == DEXTRA[di + 1]
             vw == Valor(257 + li)
             vx == len - LBASE[li + 1]
             vy == dist - DBASE[di + 1]
             l5 == 5
  <1>1. w \in Nat /\ x \in Nat
    <2>1. li \in 0 .. 28 /\ x \in 0 .. 5
      BY LongitudCampos
    <2> HIDE DEF li
    <2>2. 257 + li \in 0 .. 287
      BY <2>1
    <2>3. w \in 7 .. 9
      BY <2>2, AnchoEs
    <2> HIDE DEF w, x
    <2> QED
      BY <2>1, <2>3
  <1>2. y \in Nat /\ di \in Nat
    <2>1. di \in 0 .. 29 /\ FilaDistancias(di)
      BY DistanciaEs
    <2>2. y \in 0 .. 13
      BY <2>1 DEF FilaDistancias
    <2> HIDE DEF di, y
    <2> QED
      BY <2>1, <2>2
  <1>3. l5 \in Nat /\ l5 = 5
    OBVIOUS
  <1>4. /\ Alta(e, a, vw, w) /\ Baja(e, a + w, vx, x) /\ Alta(e, a + w + x, di, l5)
        /\ Baja(e, a + w + x + 5, vy, y) /\ b = a + w + x + 5 + y
    BY DEF EsRepeticion
  <1> HIDE DEF li, di, w, x, y, vw, vx, vy, l5
  <1>5. /\ a + w \in Nat /\ a + w + x \in Nat /\ a + w + x + 5 \in Nat
        /\ a + w <= Len(e) /\ (a + w) + x <= Len(e) /\ (a + w + x) + l5 <= Len(e)
        /\ (a + w + x + 5) + y <= Len(e)
    BY <1>1, <1>2, <1>3, <1>4 DEF Bits
  <1>6. Alta(g, a, vw, w)
    BY <1>1, <1>4, <1>5, SigueLeido
  <1>7. Baja(g, a + w, vx, x)
    BY <1>1, <1>4, <1>5, SigueLeido
  <1>8. Alta(g, a + w + x, di, l5)
    BY <1>3, <1>4, <1>5, SigueLeido
  <1>9. Baja(g, a + w + x + 5, vy, y)
    BY <1>2, <1>4, <1>5, SigueLeido
  <1> QED
    BY <1>4, <1>6, <1>7, <1>8, <1>9 DEF EsRepeticion, li, di, w, x, y, vw, vx, vy, l5

LEMMA FichaSigue ==
    ASSUME NEW e \in Bits, NEW g \in Bits, Sigue(e, g), NEW en, NEW a, NEW f, NEW b,
           EsFicha(en, e, a, f, b)
    PROVE  EsFicha(en, g, a, f, b)
  <1>1. a \in Nat /\ b \in Nat /\ a <= b /\ b <= Len(e)
    BY DEF EsFicha
  <1>2. b <= Len(g)
    BY <1>1 DEF Sigue, Bits
  <1>3. CASE f.lon = 1 /\ f.dist = 0
    <2> DEFINE s == en[f.en]
    <2>1. s \in 0 .. 287 /\ b = a + Ancho(s) /\ Alta(e, a, Valor(s), Ancho(s))
      BY <1>3, 1 \notin 3 .. 258 DEF EsFicha, Octeto
    <2> HIDE DEF s
    <2>2. Ancho(s) \in Nat
      BY <2>1, AnchoEs
    <2>3. Alta(g, a, Valor(s), Ancho(s))
      BY <1>1, <2>1, <2>2, SigueLeido
    <2> QED
      BY <1>1, <1>2, <1>3, <2>1, <2>3, 1 \notin 3 .. 258 DEF EsFicha, s
  <1>4. CASE ~ (f.lon = 1 /\ f.dist = 0)
    <2>1. f.lon \in 3 .. 258 /\ f.dist \in 1 .. Lejos /\ EsRepeticion(e, a, f.lon, f.dist, b)
      BY <1>4 DEF EsFicha
    <2>2. EsRepeticion(g, a, f.lon, f.dist, b)
      BY <1>1, <2>1, RepeticionSigue
    <2> QED
      BY <1>1, <1>2, <2>1, <2>2 DEF EsFicha
  <1> QED
    BY <1>3, <1>4

LEMMA CaminoSigue ==
    ASSUME NEW e \in Bits, NEW g \in Bits, Sigue(e, g), NEW en, NEW fs, NEW ini,
           EsCamino(en, fs, e, ini)
    PROVE  EsCamino(en, fs, g, ini)
  <1>1. \A k \in 1 .. Len(fs) : EsFicha(en, g, ini[k], fs[k], ini[k + 1])
    BY FichaSigue DEF EsCamino
  <1> QED
    BY <1>1 DEF EsCamino

LEMMA CaminoMas ==
    ASSUME NEW S, NEW en, NEW fs \in Seq(S), NEW f \in S, NEW e, NEW ini, NEW b,
           EsCamino(en, fs, e, ini), EsFicha(en, e, Final(ini), f, b)
    PROVE  EsCamino(en, Append(fs, f), e, Append(ini, b)) /\ Final(Append(ini, b)) = b
  <1> DEFINE m == Len(fs)
             gs == Append(fs, f)
             jni == Append(ini, b)
  <1>1. m \in Nat /\ ini \in Seq(Nat) /\ Len(ini) = m + 1 /\ ini[1] = 3 /\ b \in Nat
    BY DEF EsCamino, EsFicha
  <1>2. /\ Len(gs) = m + 1 /\ gs[m + 1] = f /\ \A k \in 1 .. m : gs[k] = fs[k]
    OBVIOUS
  <1>3. /\ jni \in Seq(Nat) /\ Len(jni) = m + 2 /\ jni[m + 2] = b
        /\ \A k \in 1 .. m + 1 : jni[k] = ini[k]
    BY <1>1
  <1>4. Final(ini) = ini[m + 1] /\ Final(jni) = b
    BY <1>1, <1>3 DEF Final
  <1>5. \A k \in 1 .. m : EsFicha(en, e, ini[k], fs[k], ini[k + 1])
    BY DEF EsCamino
  <1> HIDE DEF m, gs, jni
  <1>6. ASSUME NEW k \in 1 .. m + 1 PROVE EsFicha(en, e, jni[k], gs[k], jni[k + 1])
    <2>1. CASE k = m + 1
      <3>1. jni[k] = ini[m + 1] /\ jni[k + 1] = b /\ gs[k] = f
        BY <1>1, <1>2, <1>3, <2>1
      <3> QED
        BY <3>1, <1>4
    <2>2. CASE k # m + 1
      <3>1. k \in 1 .. m /\ k \in 1 .. m + 1 /\ k + 1 \in 1 .. m + 1
        BY <1>1, <2>2
      <3>2. jni[k] = ini[k] /\ jni[k + 1] = ini[k + 1] /\ gs[k] = fs[k]
        BY <1>2, <1>3, <3>1
      <3> QED
        BY <3>1, <3>2, <1>5
    <2> QED
      BY <2>1, <2>2
  <1>7. jni[1] = 3 /\ Len(jni) = Len(gs) + 1
    BY <1>1, <1>2, <1>3
  <1>8. EsCamino(en, gs, e, jni)
    BY <1>2, <1>3, <1>6, <1>7 DEF EsCamino
  <1> QED
    BY <1>4, <1>8 DEF gs, jni

\* What Comprimir writes of a token.
EscribirFicha(en, e, f) ==
    IF f.dist = 0 THEN emitirSimbolo(e, en[f.en]) ELSE EscribirCoincidencia(e, f.lon, f.dist)

LEMMA LejosEs == Lejos \in Nat /\ 0 \notin 1 .. Lejos
  <1>1. Lejos \in Nat
    BY DEF Lejos
  <1> QED
    BY <1>1

LEMMA EscribirFichaEs ==
    ASSUME NEW e \in Bits, NEW en, NEW f, f.lon \in Nat,
           \/ f.lon = 1 /\ f.dist = 0 /\ en[f.en] \in Octeto
           \/ f.lon \in 3 .. 258 /\ f.dist \in 1 .. Lejos
    PROVE  LET g == EscribirFicha(en, e, f) IN
           /\ g \in Bits /\ Sigue(e, g) /\ Len(g) <= Len(e) + 9 * f.lon
           /\ EsFicha(en, g, Len(e), f, Len(g))
  <1> DEFINE g == EscribirFicha(en, e, f)
  <1>0. Len(e) \in Nat
    BY DEF Bits
  <1>1. CASE f.lon = 1 /\ f.dist = 0
    <2> DEFINE s == en[f.en]
    <2>1. s \in Octeto /\ s \in 0 .. 287
      BY <1>1, 1 \notin 3 .. 258 DEF Octeto
    <2>2. g = emitirSimbolo(e, s)
      BY <1>1 DEF EscribirFicha
    <2> HIDE DEF s, g
    <2>3. /\ g \in Bits /\ Len(g) = Len(e) + Ancho(s)
          /\ Sigue(e, g) /\ Alta(g, Len(e), Valor(s), Ancho(s))
      BY <2>1, <2>2, EmitirEs
    <2>4. Ancho(s) \in 7 .. 9
      BY <2>1, AnchoEs
    <2>5. Len(g) <= Len(e) + 9 * f.lon
      BY <1>0, <1>1, <2>3, <2>4
    <2>6. Len(g) \in Nat /\ Len(e) <= Len(g) /\ Len(g) <= Len(g)
      BY <1>0, <2>3, <2>4
    <2>7. EsFicha(en, g, Len(e), f, Len(g))
      BY <1>0, <1>1, <2>1, <2>3, <2>6 DEF EsFicha, s
    <2> QED
      BY <2>3, <2>5, <2>7 DEF g
  <1>2. CASE ~ (f.lon = 1 /\ f.dist = 0)
    <2>1. f.lon \in 3 .. 258 /\ f.dist \in 1 .. Lejos
      BY <1>2
    <2>2. f.dist # 0
      BY <2>1, LejosEs
    <2>3. g = EscribirCoincidencia(e, f.lon, f.dist)
      BY <2>2 DEF EscribirFicha
    <2> HIDE DEF g
    <2>4. /\ g \in Bits /\ Sigue(e, g) /\ Len(g) <= Len(e) + 9 * f.lon
          /\ EsRepeticion(g, Len(e), f.lon, f.dist, Len(g))
      BY <2>1, <2>3, EscribirEs
    <2>5. Len(g) \in Nat /\ Len(e) <= Len(g) /\ Len(g) <= Len(g)
      BY <2>4 DEF Bits, Sigue
    <2>6. EsFicha(en, g, Len(e), f, Len(g))
      BY <1>0, <2>1, <2>4, <2>5 DEF EsFicha
    <2> QED
      BY <2>4, <2>6 DEF g
  <1> QED
    BY <1>1, <1>2

-----------------------------------------------------------------------------
(* The bits that Tabla's compressor writes.                                *)

\* The writer while the loop runs: two bits of header and the tokens so far, of
\* at most nine bits for each byte.
Escribiendo ==
    /\ salida = << >>
    /\ escritor \in Bits /\ Baja(escritor, 0, 3, 3) /\ 3 <= Len(escritor)
    /\ Len(escritor) <= 3 + 9 * FinDe(Len(fichas))
    /\ \E ini : EsCamino(entrada, fichas, escritor, ini) /\ Final(ini) = Len(escritor)

\* The writer, whole: e has the header, the tokens fs, the end of the block, and
\* makes the stream z.
Entero(en, fs, e, l, z) ==
    /\ e \in Bits /\ Len(e) % 8 = 0 /\ Baja(e, 0, 3, 3) /\ 3 <= Len(e)
    /\ Len(e) <= 17 + 9 * l
    /\ \E ini : /\ EsCamino(en, fs, e, ini)
                /\ Final(ini) + 7 <= Len(e) /\ Alta(e, Final(ini), 0, 7)
    /\ z = Cabecera \o Escrito(e) \o BytesAdler(Bytes(en))

InvEscritor ==
    /\ tramo \in {"pedir", "comprimir", "enviar", "recibir", "inflar", "leida", "rota"}
    /\ tramo = "pedir" => fichas = << >> /\ salida = << >>
    /\ tramo = "comprimir" => Escribiendo
    /\ tramo \notin {"pedir", "comprimir"} =>
          /\ fase = "mirar" /\ i = n
          /\ Entero(entrada, fichas, escritor, n, salida)

LEMMA EscritorInit == InitTabla => InvEscritor
  BY DEF InitTabla, Init, InvEscritor

LEMMA EscritorProcesar == InvEscritor /\ ProcesarDatos => InvEscritor'
  <1> SUFFICES ASSUME InvEscritor, ProcesarDatos PROVE InvEscritor'
    OBVIOUS
  <1> DEFINE u == Put(EscritorVacio, 1, 1)
             v == Put(u, 1, 2)
  <1>1. fichas' = << >> /\ salida' = << >> /\ tramo' = "comprimir" /\ escritor' = v
    BY DEF InvEscritor, ProcesarDatos, varsCompresor
  <1> HIDE DEF u, v
  <1>2. EscritorVacio \in Bits /\ Len(EscritorVacio) = 0
    BY DEF EscritorVacio, Bits
  <1>3. u \in Bits /\ Len(u) = 1 /\ u[1] = 1
    <2> DEFINE l == 1
    <2>1. l \in 0 .. 13 /\ l \in Nat
      OBVIOUS
    <2>2. Put(EscritorVacio, l, l) \in Bits /\ Len(Put(EscritorVacio, l, l)) = 0 + l
          /\ Baja(Put(EscritorVacio, l, l), 0, l, l)
      <3> HIDE DEF l
      <3> QED
        BY <1>2, <2>1, PutEs
    <2>3. u[0 + 1] = (1 \div 2^(1 - 1)) % 2
      BY <2>2 DEF Baja, u
    <2> QED
      BY <2>2, <2>3, Potencias DEF u
  <1>4. v \in Bits /\ Len(v) = 3 /\ v[1] = 1 /\ v[2] = 1 /\ v[3] = 0
    <2> DEFINE l == 2
               x == 1
    <2>1. l \in 0 .. 13 /\ x \in Nat
      OBVIOUS
    <2>2. Put(u, x, l) \in Bits /\ Len(Put(u, x, l)) = Len(u) + l
          /\ Sigue(u, Put(u, x, l)) /\ Baja(Put(u, x, l), Len(u), x, l)
      <3> HIDE DEF l, x
      <3> QED
        BY <1>3, <2>1, PutEs
    <2>3. v = Put(u, x, l)
      BY DEF v
    <2>4. v[1] = u[1]
      BY <2>2, <2>3, <1>3 DEF Sigue
    <2>5. v[1 + 1] = (1 \div 2^(1 - 1)) % 2 /\ v[1 + 2] = (1 \div 2^(2 - 1)) % 2
      BY <2>2, <2>3, <1>3 DEF Baja
    <2> QED
      BY <2>2, <2>3, <2>4, <2>5, <1>3, Potencias
  <1>5. Baja(v, 0, 3, 3)
    <2>1. v[0 + 1] = (3 \div 2^(1 - 1)) % 2
      BY <1>4, Potencias
    <2>2. v[0 + 2] = (3 \div 2^(2 - 1)) % 2
      BY <1>4, Potencias
    <2>3. v[0 + 3] = (3 \div 2^(3 - 1)) % 2
      BY <1>4, Potencias
    <2>4. 1 .. 3 = {1, 2, 3}
      OBVIOUS
    <2> QED
      BY <2>1, <2>2, <2>3, <2>4 DEF Baja
  <1>6. FinDe(Len(fichas))' = 0
    BY <1>1 DEF FinDe
  <1>7. EsCamino(entrada', fichas', v, <<3>>) /\ Final(<<3>>) = 3
    BY <1>1 DEF EsCamino, Final
  <1>8. Escribiendo'
    BY <1>1, <1>4, <1>5, <1>6, <1>7 DEF Escribiendo
  <1> QED
    BY <1>1, <1>8 DEF InvEscritor

\* A step of the compressor adds a token or none.
LEMMA UnaFicha ==
    ASSUME InvCompresor, Next
    PROVE  /\ UNCHANGED <<entrada, n>>
           /\ fichas' = fichas \/ \E f \in [en : Nat, lon : Nat, dist : Nat] : fichas' = Append(fichas, f)
  <1>1. i \in Nat /\ mejorLen \in Nat /\ mejorDist \in Nat
    BY CompresorAssumption DEF InvCompresor, TypeOK, CompresorAssumption
  <1>2. CASE EmitirLiteral
    <2>1. Ficha(1, 0) \in [en : Nat, lon : Nat, dist : Nat]
      BY <1>1 DEF Ficha
    <2> QED
      BY <1>2, <2>1 DEF EmitirLiteral
  <1>3. CASE EmitirCoincidencia
    <2>1. Ficha(mejorLen, mejorDist) \in [en : Nat, lon : Nat, dist : Nat]
      BY <1>1 DEF Ficha
    <2> QED
      BY <1>3, <2>1 DEF EmitirCoincidencia
  <1>4. CASE Mirar \/ Probar \/ InsertarCubierta
    BY <1>4 DEF Mirar, Probar, InsertarCubierta
  <1> QED
    BY <1>2, <1>3, <1>4 DEF Next

LEMMA Limites ==
    /\ MinMatch = 3 /\ MaxMatch \in Nat /\ MaxMatch <= 258
    /\ MaxDist \in Nat /\ MaxDist <= Lejos /\ Byte \subseteq Octeto
  <1>1. MinMatch = 3 /\ MaxMatch \in Nat /\ MaxDist \in Nat
    BY CompresorAssumption DEF CompresorAssumption
  <1>2. MaxMatch <= 258
    BY FormatoAssumption DEF FormatoAssumption
  <1>3. MaxDist <= Lejos
    <2>1. MaxDist <= 32768
      BY FormatoAssumption DEF FormatoAssumption
    <2> QED
      BY <2>1 DEF Lejos
  <1>4. Byte \subseteq Octeto
    BY FormatoAssumption DEF FormatoAssumption
  <1> QED
    BY <1>1, <1>2, <1>3, <1>4

\* The tokens can be written.
Escribibles ==
    \A m \in 1 .. Len(fichas) : LET f == fichas[m] IN
        /\ f.en = FinDe(m - 1) /\ FinDe(m) = f.en + f.lon /\ f.en \in Nat /\ f.lon \in Nat
        /\ \/ f.lon = 1 /\ f.dist = 0 /\ (f.en < n => entrada[f.en] \in Octeto)
           \/ f.lon \in 3 .. 258 /\ f.dist \in 1 .. Lejos

LEMMA FichasEscribibles == InvLZ => Escribibles
  <1> SUFFICES ASSUME InvLZ, NEW m \in 1 .. Len(fichas)
               PROVE  LET f == fichas[m] IN
        /\ f.en = FinDe(m - 1) /\ FinDe(m) = f.en + f.lon /\ f.en \in Nat /\ f.lon \in Nat
        /\ \/ f.lon = 1 /\ f.dist = 0 /\ (f.en < n => entrada[f.en] \in Octeto)
           \/ f.lon \in 3 .. 258 /\ f.dist \in 1 .. Lejos
    BY DEF Escribibles
  <1> DEFINE f == fichas[m]
  <1>1. m \in 1 .. Len(fichas)
    OBVIOUS
  <1>2. f \in [en : Nat, lon : Nat, dist : Nat]
    <2> DEFINE S == [en : Nat, lon : Nat, dist : Nat]
    <2>1. fichas \in Seq(S)
      BY DEF InvLZ, InvCompresor, TypeOK
    <2>2. f \in S
      <3> HIDE DEF S
      <3> QED
        BY <1>1, <2>1
    <2> QED
      BY <2>2
  <1>3. f.en = FinDe(m - 1)
    BY <1>1 DEF InvLZ, InvExactas, FichasExactas
  <1>4. FinDe(m) = f.en + f.lon
    BY <1>1 DEF FinDe
  <1>5. \/ f.lon = 1 /\ f.dist = 0
        \/ f.lon \in MinMatch .. MaxMatch /\ f.dist \in 1 .. MaxDist
    BY <1>1 DEF InvLZ, InvCompresor, FichasValidas
  <1>6. f.en < n => entrada[f.en] \in Octeto
    <2>1. entrada \in [Posiciones -> Byte] /\ n \in Nat
      BY DEF InvLZ, InvCompresor, TypeOK
    <2>2. Byte \subseteq Octeto
      BY Limites
    <2> HIDE DEF f
    <2> QED
      BY <1>2, <2>1, <2>2 DEF Posiciones
  <1>7. MinMatch = 3 /\ MaxMatch \in Nat /\ MaxMatch <= 258
    BY Limites
  <1>8. MaxDist \in Nat /\ MaxDist <= Lejos /\ Lejos \in Nat
    BY Limites, LejosEs
  <1> HIDE DEF f
  <1>9. f.lon \in MinMatch .. MaxMatch => f.lon \in 3 .. 258
    <2> DEFINE x == f.lon
    <2>1. x \in Nat
      BY <1>2
    <2> HIDE DEF x
    <2>2. x \in MinMatch .. MaxMatch => x \in 3 .. 258
      BY <1>7, <2>1
    <2> QED
      BY <2>2 DEF x
  <1>10. f.dist \in 1 .. MaxDist => f.dist \in 1 .. Lejos
    BY <1>2, <1>8
  <1> QED
    BY <1>2, <1>3, <1>4, <1>5, <1>6, <1>9, <1>10 DEF f

LEMMA EscritorComprimir == InvLZ /\ Escribibles' /\ InvEscritor /\ Comprimir => InvEscritor'
  <1> SUFFICES ASSUME InvLZ, Escribibles', InvEscritor, Comprimir PROVE InvEscritor'
    OBVIOUS
  <1>1. tramo = "comprimir" /\ tramo' = "comprimir" /\ Next /\ salida' = salida
    BY DEF Comprimir
  <1>2. Escribiendo
    BY <1>1 DEF InvEscritor
  <1>3. UNCHANGED <<entrada, n>>
    BY <1>1, UnaFicha DEF InvLZ
  <1>4. CASE fichas' = fichas
    <2>1. escritor' = escritor
      BY <1>4 DEF Comprimir
    <2>2. FinDe(Len(fichas))' = FinDe(Len(fichas))
      BY <1>4 DEF FinDe
    <2>3. Escribiendo'
      BY <1>1, <1>2, <1>3, <1>4, <2>1, <2>2 DEF Escribiendo
    <2> QED
      BY <1>1, <2>3 DEF InvEscritor
  <1>5. CASE fichas' # fichas
    <2> DEFINE S == [en : Nat, lon : Nat, dist : Nat]
    <2>1. PICK f \in S : fichas' = Append(fichas, f)
      BY <1>1, <1>5, UnaFicha DEF InvLZ
    <2>0. fichas \in Seq(S)
      BY DEF InvLZ, InvCompresor, TypeOK
    <2>2. PICK m \in Nat : m = Len(fichas)
      BY <2>0
    <2>3. Len(fichas') = m + 1 /\ fichas'[m + 1] = f /\ \A k \in 1 .. m : fichas'[k] = fichas[k]
      BY <2>0, <2>1, <2>2
    <2>4. escritor' = EscribirFicha(entrada', escritor, f)
      BY <1>3, <1>5, <2>3 DEF Comprimir, EscribirFicha
    <2>5. FinDe(m)' = FinDe(m) /\ FinDe(m + 1)' = f.en + f.lon
      <3>1. FinDe(m)' = IF m = 0 THEN 0 ELSE fichas'[m].en + fichas'[m].lon
        BY DEF FinDe
      <3>2. FinDe(m + 1)' = fichas'[m + 1].en + fichas'[m + 1].lon
        BY <2>2 DEF FinDe
      <3> QED
        BY <2>2, <2>3, <3>1, <3>2 DEF FinDe
    <2> DEFINE g == EscribirFicha(entrada', escritor, f)
               l == m + 1
    <2>6. /\ f.en = FinDe(m)' /\ f.en \in Nat /\ f.lon \in Nat
          /\ \/ f.lon = 1 /\ f.dist = 0 /\ (f.en < n' => entrada'[f.en] \in Octeto)
             \/ f.lon \in 3 .. 258 /\ f.dist \in 1 .. Lejos
      <3>1. l \in 1 .. Len(fichas') /\ l - 1 = m /\ fichas'[l] = f
        BY <2>2, <2>3
      <3> HIDE DEF l
      <3>2. /\ fichas'[l].en = FinDe(l - 1)' /\ fichas'[l].en \in Nat /\ fichas'[l].lon \in Nat
            /\ \/ /\ fichas'[l].lon = 1 /\ fichas'[l].dist = 0
                  /\ fichas'[l].en < n' => entrada'[fichas'[l].en] \in Octeto
               \/ fichas'[l].lon \in 3 .. 258 /\ fichas'[l].dist \in 1 .. Lejos
        BY <3>1 DEF Escribibles
      <3> QED
        BY <3>1, <3>2
    <2>7. f.en < n'
      <3>1. i < n /\ n' = n
        BY <1>1, <1>3, <1>5 DEF InvLZ, InvCompresor, Lugar, Next, Mirar, Probar, EmitirLiteral,
                               EmitirCoincidencia, InsertarCubierta
      <3>2. fichas' = Append(fichas, Ficha(1, 0)) \/ fichas' = Append(fichas, Ficha(mejorLen, mejorDist))
        BY <1>1, <1>5 DEF Next, Mirar, Probar, EmitirLiteral, EmitirCoincidencia, InsertarCubierta
      <3>3. f.en = i
        BY <2>0, <2>1, <2>2, <2>3, <3>2 DEF Ficha
      <3> QED
        BY <3>1, <3>3
    <2>8. /\ g \in Bits /\ Sigue(escritor, g) /\ Len(g) <= Len(escritor) + 9 * f.lon
          /\ EsFicha(entrada', g, Len(escritor), f, Len(g))
      <3> HIDE DEF g
      <3> QED
        BY <1>2, <2>6, <2>7, EscribirFichaEs DEF Escribiendo, g
    <2>9. PICK ini : EsCamino(entrada, fichas, escritor, ini) /\ Final(ini) = Len(escritor)
      BY <1>2 DEF Escribiendo
    <2> HIDE DEF g
    <2>10. EsCamino(entrada', fichas, g, ini)
      BY <1>2, <1>3, <2>8, <2>9, CaminoSigue DEF Escribiendo
    <2>11. EsCamino(entrada', fichas', g, Append(ini, Len(g))) /\ Final(Append(ini, Len(g))) = Len(g)
      <3> HIDE DEF S
      <3> DEFINE b == Len(g)
      <3>1. EsFicha(entrada', g, Final(ini), f, b)
        BY <2>8, <2>9
      <3> HIDE DEF b
      <3>2. EsCamino(entrada', Append(fichas, f), g, Append(ini, b)) /\ Final(Append(ini, b)) = b
        BY <2>0, <2>10, <3>1, CaminoMas
      <3> QED
        BY <2>1, <3>2 DEF b
    <2>12. Baja(g, 0, 3, 3)
      <3> DEFINE a == 0
                 v == 3
      <3>1. a \in Nat /\ v \in Nat /\ a + v <= Len(escritor) /\ Baja(escritor, a, v, v)
        BY <1>2 DEF Escribiendo
      <3> HIDE DEF a, v
      <3>2. Baja(g, a, v, v)
        BY <1>2, <2>8, <3>1, SigueLeido DEF Escribiendo
      <3> QED
        BY <3>2 DEF a, v
    <2>13. 3 <= Len(g) /\ Len(g) <= 3 + 9 * FinDe(m + 1)'
      <3>1. FinDe(m) \in Nat /\ 3 <= Len(escritor) /\ Len(escritor) <= 3 + 9 * FinDe(m) /\ Len(escritor) \in Nat /\ Len(g) \in Nat
        BY <1>2, <2>2, <2>5, <2>6, <2>8 DEF Escribiendo, Bits
      <3>2. FinDe(m + 1)' = FinDe(m) + f.lon
        BY <2>5, <2>6
      <3> QED
        BY <2>6, <2>8, <3>1, <3>2 DEF Sigue
    <2>14. Escribiendo'
      BY <1>1, <1>2, <2>2, <2>3, <2>4, <2>8, <2>11, <2>12, <2>13 DEF Escribiendo, g
    <2> QED
      BY <1>1, <2>14 DEF InvEscritor
  <1> QED
    BY <1>4, <1>5

LEMMA EscritorAcabar == InvLZ /\ Escribibles /\ InvEscritor /\ AcabarFlujo => InvEscritor'
  <1> SUFFICES ASSUME InvLZ, Escribibles, InvEscritor, AcabarFlujo PROVE InvEscritor'
    OBVIOUS
  <1>1. /\ tramo = "comprimir" /\ fase = "mirar" /\ i = n /\ tramo' = "enviar"
        /\ UNCHANGED <<fichas, entrada, n, fase, i>>
    BY DEF AcabarFlujo, varsCompresor
  <1>2. Escribiendo
    BY <1>1 DEF InvEscritor
  <1> DEFINE eb == 256
             h == emitirSimbolo(escritor, eb)
             g == Flush(h)
  <1>3. escritor' = g /\ salida' = Cabecera \o Escrito(g) \o BytesAdler(Bytes(entrada))
    BY DEF AcabarFlujo
  <1>4. eb \in 0 .. 287 /\ Ancho(eb) = 7 /\ Valor(eb) = 0
    BY DEF Ancho, Valor
  <1> DEFINE l == Ancho(eb)
             v == Valor(eb)
  <1>5. /\ h \in Bits /\ Len(h) = Len(escritor) + l
        /\ Sigue(escritor, h) /\ Alta(h, Len(escritor), v, l)
    <2> HIDE DEF eb
    <2> QED
      BY <1>2, <1>4, EmitirEs DEF Escribiendo
  <1> HIDE DEF h, eb, l, v
  <1>6. /\ g \in Bits /\ Sigue(h, g) /\ Len(g) % 8 = 0 /\ Len(g) <= Len(h) + 7
    BY <1>5, FlushEs
  <1> HIDE DEF g
  <1>7. escritor \in Bits /\ Len(escritor) \in Nat /\ Len(h) \in Nat /\ Len(g) \in Nat
        /\ l = 7 /\ v = 0
    BY <1>2, <1>4, <1>5, <1>6 DEF Escribiendo, Bits, l, v
  <1>8. Sigue(escritor, g)
    BY <1>5, <1>6, <1>7, SigueMas
  <1>9. PICK ini : EsCamino(entrada, fichas, escritor, ini) /\ Final(ini) = Len(escritor)
    BY <1>2 DEF Escribiendo
  <1>10. EsCamino(entrada, fichas, g, ini)
    BY <1>6, <1>7, <1>8, <1>9, CaminoSigue
  <1>11. Final(ini) + 7 <= Len(g) /\ Alta(g, Final(ini), 0, 7)
    <2>1. Len(escritor) + l <= Len(h) /\ Len(h) <= Len(g) /\ l \in Nat
      BY <1>5, <1>6, <1>7 DEF Sigue
    <2>2. Alta(g, Len(escritor), v, l)
      BY <1>5, <1>6, <1>7, <2>1, SigueLeido
    <2> QED
      BY <1>7, <1>9, <2>1, <2>2
  <1>12. Baja(g, 0, 3, 3)
    <2> DEFINE a == 0
               w == 3
    <2>1. a \in Nat /\ w \in Nat /\ a + w <= Len(escritor) /\ Baja(escritor, a, w, w)
      BY <1>2 DEF Escribiendo
    <2> HIDE DEF a, w
    <2>2. Baja(g, a, w, w)
      BY <1>6, <1>7, <1>8, <2>1, SigueLeido
    <2> QED
      BY <2>2 DEF a, w
  <1>13. 3 <= Len(g) /\ Len(g) <= 17 + 9 * n
    <2>1. n = FinDe(Len(fichas)) /\ n \in Nat
      BY <1>1 DEF InvLZ, InvExactas, FichasExactas, InvCompresor, TypeOK
    <2>2. 3 <= Len(escritor) /\ Len(escritor) <= 3 + 9 * n
      BY <1>2, <2>1 DEF Escribiendo
    <2>3. Len(escritor) <= Len(g)
      BY <1>8 DEF Sigue
    <2>4. Len(g) <= Len(escritor) + 14
      BY <1>5, <1>6, <1>7
    <2> QED
      BY <1>7, <2>1, <2>2, <2>3, <2>4
  <1>14. Entero(entrada, fichas, g, n, salida')
    BY <1>3, <1>6, <1>10, <1>11, <1>12, <1>13 DEF Entero
  <1>15. Entero(entrada', fichas', escritor', n', salida')
    BY <1>1, <1>3, <1>14
  <1> QED
    BY <1>1, <1>15 DEF InvEscritor

LEMMA EscritorPaso ==
    InvLZ /\ Escribibles /\ Escribibles' /\ InvEscritor /\ [NextTabla]_varsTabla => InvEscritor'
  <1> SUFFICES ASSUME InvLZ, Escribibles, Escribibles', InvEscritor, [NextTabla]_varsTabla
               PROVE  InvEscritor'
    OBVIOUS
  <1>1. CASE ProcesarDatos
    BY <1>1, EscritorProcesar
  <1>2. CASE Comprimir
    BY <1>2, EscritorComprimir
  <1>3. CASE AcabarFlujo
    BY <1>3, EscritorAcabar
  <1>4. ASSUME UNCHANGED <<varsCompresor, escritor, salida>>,
               tramo' = tramo \/ tramo \notin {"pedir", "comprimir"},
               tramo' \in {"recibir", "inflar", "leida", "rota", tramo}
        PROVE  InvEscritor'
    <2>1. UNCHANGED <<fichas, entrada, n, fase, i, escritor, salida>>
      BY <1>4 DEF varsCompresor
    <2>2. Escribiendo' = Escribiendo
      BY <2>1 DEF Escribiendo, FinDe
    <2>3. Entero(entrada', fichas', escritor', n', salida') = Entero(entrada, fichas, escritor, n, salida)
      BY <2>1
    <2>4. CASE tramo' = tramo
      BY <2>1, <2>2, <2>3, <2>4 DEF InvEscritor
    <2>5. CASE tramo \notin {"pedir", "comprimir"}
      <3>1. fase = "mirar" /\ i = n /\ Entero(entrada, fichas, escritor, n, salida)
        BY <2>5 DEF InvEscritor
      <3>2. tramo' \in {"recibir", "inflar", "leida", "rota", "enviar"}
        BY <1>4, <2>5 DEF InvEscritor
      <3> QED
        BY <2>1, <2>3, <3>1, <3>2 DEF InvEscritor
    <2> QED
      BY <1>4, <2>4, <2>5
  <1>5. CASE EnviarListaRica
    BY <1>4, <1>5 DEF EnviarListaRica
  <1>6. CASE EnviarClassInfo
    BY <1>4, <1>6 DEF EnviarClassInfo
  <1>7. CASE \E p \in paquetes : ClienteRecibe(p)
    <2>1. PICK p \in paquetes : ClienteRecibe(p)
      BY <1>7
    <2>2. UNCHANGED <<varsCompresor, escritor, salida>> /\ tramo = "recibir"
      BY <2>1 DEF ClienteRecibe
    <2>3. tramo' \in {"inflar", "rota", tramo}
      <3> DEFINE z == Flujo(mensaje')
                 B == 256 * z[1] + z[2] = 30721 /\ BitsBajos(z, 16, 3) = 3
                 C == Cardinality(DOMAIN trozos') = p.ventana
      <3>1. tramo' = IF C THEN (IF B THEN "inflar" ELSE "rota") ELSE tramo
        BY <2>1 DEF ClienteRecibe
      <3> HIDE DEF B, C
      <3> QED
        BY <3>1
    <2> QED
      BY <1>4, <2>2, <2>3
  <1>8. CASE InflarLiteral
    BY <1>4, <1>8 DEF InflarLiteral, SigueInflando
  <1>9. CASE InflarRepeticion
    BY <1>4, <1>9 DEF InflarRepeticion, SigueInflando
  <1>10. CASE FinDeBloque
    BY <1>4, <1>10 DEF FinDeBloque, SigueInflando
  <1>11. CASE Leida \/ UNCHANGED varsTabla
    BY <1>4, <1>11 DEF Leida, varsTabla
  <1> QED
    BY <1>1, <1>2, <1>3, <1>5, <1>6, <1>7, <1>8, <1>9, <1>10, <1>11 DEF NextTabla

LEMMA EscritorInvariante == SpecTabla => [](InvLZ /\ Escribibles /\ InvEscritor)
  <1>1. InitTabla => InvEscritor
    BY EscritorInit
  <1>2. InvLZ /\ InvLZ' /\ InvEscritor /\ [NextTabla]_varsTabla => InvEscritor'
    BY FichasEscribibles, EscritorPaso, PTL
  <1> QED
    BY <1>1, <1>2, LZInvariante, FichasEscribibles, PTL DEF SpecTabla

LEMMA SalidaMedida ==
    ASSUME NEW en, NEW fs, NEW e, NEW l \in Nat, NEW z, Entero(en, fs, e, l, z), Bytes(en) \in Seq(Octeto)
    PROVE  z \in Seq(Octeto) /\ Len(z) = 6 + Len(e) \div 8 /\ Len(z) <= l + l \div 8 + 10
  <1> DEFINE s == Escrito(e)
             t == BytesAdler(Bytes(en))
             c == Cabecera
  <1>1. e \in Bits /\ Len(e) \in Nat /\ Len(e) <= 17 + 9 * l /\ z = c \o s \o t
    BY DEF Entero, Bits
  <1>2. s \in Seq(Octeto) /\ Len(s) = Len(e) \div 8
    BY <1>1, EscritoEs
  <1>3. t \in Seq(Octeto) /\ Len(t) = 4
    BY AdlerBytes
  <1>4. c \in Seq(Octeto) /\ Len(c) = 2
    BY DEF Cabecera, Octeto
  <1> HIDE DEF s, t, c
  <1>5. z \in Seq(Octeto) /\ Len(z) = 2 + Len(e) \div 8 + 4
    <2>1. c \o s \in Seq(Octeto) /\ Len(c \o s) = Len(c) + Len(s)
      BY <1>2, <1>4, PegadaOctetos
    <2>2. z \in Seq(Octeto) /\ Len(z) = Len(c \o s) + Len(t)
      BY <1>1, <1>3, <2>1, PegadaOctetos
    <2> QED
      BY <1>1, <1>2, <1>3, <1>4, <2>1, <2>2
  <1>6. Len(e) \div 8 + 6 <= l + l \div 8 + 10
    <2> DEFINE x == Len(e)
    <2>1. x \in Nat /\ x <= 17 + 9 * l
      BY <1>1
    <2> HIDE DEF x
    <2>2. x \div 8 + 6 <= l + l \div 8 + 10
      BY <2>1
    <2> QED
      BY <2>2 DEF x
  <1>7. Len(e) \div 8 \in Nat
    BY <1>1
  <1> QED
    BY <1>5, <1>6, <1>7

\* The buffer as bytes.
LEMMA BytesEs ==
    InvLZ => /\ Bytes(entrada) \in Seq(Octeto) /\ Len(Bytes(entrada)) = n /\ n \in Nat
             /\ \A j \in 1 .. n : Bytes(entrada)[j] = entrada[j - 1]
  <1> SUFFICES ASSUME InvLZ
               PROVE  /\ Bytes(entrada) \in Seq(Octeto) /\ Len(Bytes(entrada)) = n /\ n \in Nat
                      /\ \A j \in 1 .. n : Bytes(entrada)[j] = entrada[j - 1]
    OBVIOUS
  <1>1. n \in Nat /\ entrada \in [Posiciones -> Byte] /\ entrada \in Entradas
    BY DEF InvLZ, InvCompresor, TypeOK
  <1>2. entrada \in [0 .. Cardinality(DOMAIN entrada) - 1 -> Byte] /\ Cardinality(DOMAIN entrada) \in Nat
    BY <1>1, CompresorAssumption, FS_CardinalityType DEF CompresorAssumption
  <1>3. Cardinality(DOMAIN entrada) = n
    <2> DEFINE l == Cardinality(DOMAIN entrada)
    <2>1. DOMAIN entrada = 0 .. l - 1 /\ DOMAIN entrada = 0 .. n - 1 /\ l \in Nat
      BY <1>1, <1>2 DEF Posiciones
    <2>2. 0 .. l - 1 = 0 .. n - 1
      BY <2>1
    <2> HIDE DEF l
    <2>3. l = n
      BY <1>1, <2>1, <2>2
    <2> QED
      BY <2>3 DEF l
  <1>4. Bytes(entrada) = [j \in 1 .. n |-> entrada[j - 1]]
    BY <1>3 DEF Bytes
  <1>5. \A j \in 1 .. n : entrada[j - 1] \in Octeto
    BY <1>1, Limites DEF Posiciones
  <1> QED
    BY <1>1, <1>4, <1>5

\* What is known of the flow up to the stream.
InvFlujo == InvLZ /\ Escribibles /\ InvEscritor

LEMMA TamanoEs == InvFlujo => TamanoAcotado
  <1> SUFFICES ASSUME InvFlujo PROVE TamanoAcotado
    OBVIOUS
  <1>1. Bytes(entrada) \in Seq(Octeto) /\ n \in Nat
    BY BytesEs DEF InvFlujo
  <1>2. CASE tramo \in {"pedir", "comprimir"}
    <2>1. salida = << >>
      BY <1>2 DEF InvFlujo, InvEscritor, Escribiendo
    <2> QED
      BY <1>1, <2>1 DEF TamanoAcotado
  <1>3. CASE tramo \notin {"pedir", "comprimir"}
    <2>1. Entero(entrada, fichas, escritor, n, salida)
      BY <1>3 DEF InvFlujo, InvEscritor
    <2> QED
      BY <1>1, <2>1, SalidaMedida DEF TamanoAcotado
  <1> QED
    BY <1>2, <1>3

\* Every stream fits n + n / 8 + 10 bytes: a literal has at most nine bits, and a
\* repetition, extra bits and all, fewer than the bytes it stands for.
THEOREM TamanoSiempreAcotado == SpecTabla => []TamanoAcotado
  BY EscritorInvariante, TamanoEs, PTL DEF InvFlujo

-----------------------------------------------------------------------------
(* Sequences, and functions that go on at a later position.                *)

LEMMA Trozos ==
    ASSUME NEW S, NEW s \in Seq(S), NEW a \in Nat, NEW b \in Nat, a <= b, b <= Len(s)
    PROVE  /\ SubSeq(s, a + 1, b) \in Seq(S) /\ Len(SubSeq(s, a + 1, b)) = b - a
           /\ \A j \in 1 .. b - a : SubSeq(s, a + 1, b)[j] = s[a + j]
  <1>1. Len(s) \in Nat /\ \A k \in (a + 1) .. b : s[k] \in S
    BY LenProperties, ElementOfSeq
  <1> DEFINE m == a + 1
             u == SubSeq(s, m, b)
  <1>2. m \in Int /\ b \in Int /\ \A k \in m .. b : s[k] \in S
    BY <1>1
  <1>3. m = a + 1
    OBVIOUS
  <1> HIDE DEF m
  <1>4. /\ u \in Seq(S) /\ Len(u) = IF m <= b THEN b - m + 1 ELSE 0
        /\ \A k \in 1 .. b - m + 1 : u[k] = s[m + k - 1]
    BY <1>2, SubSeqProperties
  <1> HIDE DEF u
  <1>5. Len(u) = b - a
    BY <1>3, <1>4
  <1>6. ASSUME NEW j \in 1 .. b - a PROVE u[j] = s[a + j]
    <2>1. j \in 1 .. b - m + 1 /\ m + j - 1 = a + j
      BY <1>3
    <2> QED
      BY <1>4, <2>1
  <1> QED
    BY <1>3, <1>4, <1>5, <1>6 DEF u, m

\* The l elements of s after a are those of t after b.
Iguales(s, a, t, b, l) == \A j \in 1 .. l : s[a + j] = t[b + j]

\* Two stretches with the same elements are the same.
LEMMA TrozosIguales ==
    ASSUME NEW S, NEW s \in Seq(S), NEW t \in Seq(S), NEW a \in Nat, NEW b \in Nat, NEW l \in Nat,
           a + l <= Len(s), b + l <= Len(t), Iguales(s, a, t, b, l)
    PROVE  SubSeq(s, a + 1, a + l) = SubSeq(t, b + 1, b + l)
  <1> DEFINE al == a + l
             bl == b + l
             u == SubSeq(s, a + 1, al)
             v == SubSeq(t, b + 1, bl)
  <1>1. al \in Nat /\ bl \in Nat /\ a <= al /\ b <= bl /\ al - a = l /\ bl - b = l
        /\ al <= Len(s) /\ bl <= Len(t)
    OBVIOUS
  <1> HIDE DEF al, bl
  <1>2. u \in Seq(S) /\ Len(u) = l /\ \A j \in 1 .. l : u[j] = s[a + j]
    <2>1. u \in Seq(S) /\ Len(u) = al - a /\ \A j \in 1 .. al - a : u[j] = s[a + j]
      BY <1>1, Trozos
    <2> QED
      BY <1>1, <2>1
  <1>3. v \in Seq(S) /\ Len(v) = l /\ \A j \in 1 .. l : v[j] = t[b + j]
    <2>1. v \in Seq(S) /\ Len(v) = bl - b /\ \A j \in 1 .. bl - b : v[j] = t[b + j]
      BY <1>1, Trozos
    <2> QED
      BY <1>1, <2>1
  <1> HIDE DEF u, v
  <1>4. \A j \in 1 .. Len(u) : u[j] = v[j]
    BY <1>2, <1>3 DEF Iguales
  <1>5. u = v
    BY <1>2, <1>3, <1>4, SeqEqual
  <1> QED
    BY <1>5 DEF u, v, al, bl

\* f goes on at sig[p] until it ends, from every p.
Adelante(f, L, S, acaba, base, sig, paso) ==
    /\ f \in [0 .. L -> S]
    /\ \A p \in 0 .. L : f[p] = IF p \in acaba THEN base[p] ELSE paso[<<p, f[sig[p]]>>]

LEMMA HayAdelante ==
    ASSUME NEW L \in Nat, NEW S, NEW acaba, NEW base \in [0 .. L -> S], NEW sig,
           NEW paso \in [(0 .. L) \X S -> S],
           \A p \in 0 .. L : p \notin acaba => sig[p] \in p + 1 .. L
    PROVE  \E f : Adelante(f, L, S, acaba, base, sig, paso)
  <1> DEFINE Bien(a, f) == /\ f \in [0 .. L -> S]
                           /\ \A p \in a .. L : f[p] = IF p \in acaba THEN base[p]
                                                       ELSE paso[<<p, f[sig[p]]>>]
             T == {k \in 0 .. L + 1 : \E f : Bien(L + 1 - k, f)}
             l1 == L + 1
  <1>1. 0 \in T
    <2>1. Bien(L + 1 - 0, base)
      OBVIOUS
    <2> QED
      BY <2>1
  <1>2. ASSUME NEW k \in 0 .. l1 - 1, k \in T PROVE k + 1 \in T
    <2>1. PICK f : Bien(L + 1 - k, f)
      BY <1>2
    <2> DEFINE a == L - k
               v == IF a \in acaba THEN base[a] ELSE paso[<<a, f[sig[a]]>>]
               g == [f EXCEPT ![a] = v]
    <2>2. a \in 0 .. L /\ L + 1 - k = a + 1 /\ L + 1 - (k + 1) = a /\ k + 1 \in 0 .. L + 1
      OBVIOUS
    <2>3. f \in [0 .. L -> S]
      BY <2>1
    <2>4. ASSUME NEW p \in a + 1 .. L
          PROVE  f[p] = IF p \in acaba THEN base[p] ELSE paso[<<p, f[sig[p]]>>]
      BY <2>1, <2>2
    <2>5. a \notin acaba => sig[a] \in 0 .. L /\ sig[a] # a
      BY <2>2
    <2>6. v \in S
      <3>1. CASE a \in acaba
        BY <2>2, <3>1
      <3>2. CASE a \notin acaba
        <4>1. f[sig[a]] \in S
          BY <2>3, <2>5, <3>2
        <4>2. <<a, f[sig[a]]>> \in (0 .. L) \X S
          BY <2>2, <4>1
        <4> QED
          BY <3>2, <4>2
      <3> QED
        BY <3>1, <3>2
    <2> HIDE DEF Bien, T
    <2>7. g \in [0 .. L -> S] /\ g[a] = v /\ \A p \in 0 .. L : p # a => g[p] = f[p]
      <3> HIDE DEF v
      <3> QED
        BY <2>2, <2>3, <2>6
    <2> HIDE DEF g
    <2>8. ASSUME NEW p \in a .. L
          PROVE  g[p] = IF p \in acaba THEN base[p] ELSE paso[<<p, g[sig[p]]>>]
      <3>1. p \in 0 .. L
        BY <2>2
      <3>2. p \notin acaba => g[sig[p]] = f[sig[p]]
        <4>1. p \notin acaba => sig[p] \in p + 1 .. L
          BY <3>1
        <4>2. p \notin acaba => sig[p] \in 0 .. L /\ sig[p] # a
          BY <2>2, <4>1
        <4> QED
          BY <2>7, <4>2
      <3>3. CASE p = a
        BY <2>7, <3>2, <3>3
      <3>4. CASE p # a
        <4>1. p \in a + 1 .. L
          BY <2>2, <3>4
        <4> QED
          BY <2>4, <2>7, <3>1, <3>2, <3>4, <4>1
      <3> QED
        BY <3>3, <3>4
    <2>9. Bien(a, g)
      BY <2>7, <2>8 DEF Bien
    <2> QED
      BY <2>2, <2>9 DEF T
  <1>3. 0 .. l1 \subseteq T
    <2>1. l1 \in Nat
      OBVIOUS
    <2> HIDE DEF T, l1
    <2> QED
      BY <1>1, <1>2, <2>1, Induccion
  <1>4. l1 \in T
    <2>1. l1 \in 0 .. l1
      OBVIOUS
    <2> HIDE DEF T
    <2> QED
      BY <1>3, <2>1
  <1>5. PICK f : Bien(0, f)
    <2>1. L + 1 - l1 = 0
      OBVIOUS
    <2> HIDE DEF Bien
    <2> QED
      BY <1>4, <2>1
  <1> QED
    BY <1>5 DEF Adelante

-----------------------------------------------------------------------------
(* The stored stream.                                                      *)

\* What the first b blocks of at most M bytes have of l.
Corte(b, M, l) == IF b * M < l THEN b * M ELSE l

NumBloques(l, M) == IF l = 0 THEN 1 ELSE (l + M - 1) \div M

LEMMA Producto ==
    ASSUME NEW M \in Nat \ {0}, NEW a \in Nat, NEW b \in Nat
    PROVE  /\ a * M \in Nat /\ (a + 1) * M = a * M + M
           /\ a <= b => a * M <= b * M
  <1>1. a * M \in Nat /\ (a + 1) * M = a * M + M
    OBVIOUS
  <1>2. ASSUME a <= b PROVE a * M <= b * M
    <2>1. b - a \in Nat /\ (b - a) * M \in Nat /\ b * M = a * M + (b - a) * M
      BY <1>2
    <2> QED
      BY <1>1, <2>1
  <1> QED
    BY <1>1, <1>2

LEMMA NumBloquesEs ==
    ASSUME NEW l \in Nat, NEW M \in Nat \ {0}
    PROVE  LET B == NumBloques(l, M) IN
           /\ B \in Nat \ {0} /\ l <= B * M /\ (l > 0 => (B - 1) * M < l) /\ (l = 0 => B = 1)
  <1>1. CASE l = 0
    BY <1>1 DEF NumBloques
  <1>2. CASE l > 0
    <2> DEFINE x == l + M - 1
               B == x \div M
               r == x % M
    <2>1. x \in Nat /\ x >= M /\ M > 0
      BY <1>2
    <2> HIDE DEF x
    <2>2. B \in Nat /\ r \in 0 .. M - 1 /\ x = B * M + r
      BY <2>1
    <2> HIDE DEF B, r
    <2>3. B # 0
      <3>1. B = 0 => B * M = 0
        OBVIOUS
      <3> QED
        BY <2>1, <2>2, <3>1
    <2>4. (B - 1) * M = B * M - M /\ B * M \in Nat
      BY <2>2
    <2> DEFINE y == B * M
               w == (B - 1) * M
    <2>5. y \in Nat /\ w = y - M /\ x = y + r
      BY <2>2, <2>4
    <2> HIDE DEF y, w
    <2>6. l <= y /\ w < l
      BY <2>2, <2>5 DEF x
    <2>7. NumBloques(l, M) = B
      BY <1>2 DEF NumBloques, B, x
    <2> QED
      BY <1>2, <2>2, <2>3, <2>6, <2>7 DEF y, w
  <1> QED
    BY <1>1, <1>2

\* How the blocks cut the bytes: f has where each ends.
Cortes(f, B, M, l) ==
    /\ B \in Nat \ {0}
    /\ f[0] = 0 /\ f[B] = l
    /\ \A b \in 0 .. B : f[b] \in 0 .. l
    /\ \A b \in 1 .. B : /\ (b - 1) * M = f[b - 1] /\ f[b - 1] <= f[b] /\ f[b] <= f[b - 1] + M
                         /\ f[b] = l <=> b = B

LEMMA CortesEs ==
    ASSUME NEW l \in Nat, NEW M \in Nat \ {0}, NEW B, B = NumBloques(l, M)
    PROVE  Cortes([b \in 0 .. B |-> Corte(b, M, l)], B, M, l)
  <1> DEFINE f == [b \in 0 .. B |-> Corte(b, M, l)]
  <1>1. B \in Nat \ {0} /\ l <= B * M /\ (l > 0 => (B - 1) * M < l) /\ (l = 0 => B = 1)
    BY NumBloquesEs
  <1>2. \A b \in 0 .. B : f[b] = Corte(b, M, l)
    BY <1>1
  <1> HIDE DEF f
  <1>3. ASSUME NEW b \in 0 .. B PROVE f[b] \in 0 .. l /\ b * M \in Nat
    <2>1. b * M \in Nat
      BY <1>1
    <2> QED
      BY <1>2, <2>1 DEF Corte
  <1>4. f[0] = 0
    <2>1. 0 * M = 0
      OBVIOUS
    <2> QED
      BY <1>1, <1>2, <2>1 DEF Corte
  <1>5. f[B] = l
    <2>1. ~ (B * M < l)
      BY <1>1
    <2> QED
      BY <1>1, <1>2, <2>1 DEF Corte
  <1>6. ASSUME NEW b \in 1 .. B
        PROVE  /\ (b - 1) * M = f[b - 1] /\ f[b - 1] <= f[b] /\ f[b] <= f[b - 1] + M
               /\ f[b] = l <=> b = B
    <2> DEFINE a == b - 1
               x == a * M
               y == b * M
               w == (B - 1) * M
    <2>1. a \in Nat /\ b = a + 1 /\ a \in 0 .. B /\ b \in 0 .. B /\ B - 1 \in Nat
          /\ b \in Nat /\ B \in Nat /\ b <= B
      BY <1>1
    <2>2. x \in Nat /\ y = x + M
      <3> HIDE DEF a
      <3> QED
        BY <2>1, Producto
    <2>3. x <= w /\ w \in Nat
      <3>1. a <= B - 1
        BY <1>1
      <3> DEFINE c == B - 1
      <3>2. c \in Nat /\ a <= c
        BY <2>1, <3>1
      <3> HIDE DEF a, c
      <3>3. a * M <= c * M /\ c * M \in Nat
        BY <2>1, <3>2, Producto
      <3> QED
        BY <3>3 DEF c
    <2>4. b < B => y <= w
      <3> DEFINE c == B - 1
      <3>1. c \in Nat /\ b \in Nat /\ (b < B => b <= c)
        <4> HIDE DEF a, x, y, w
        <4> QED
          BY <2>1
      <3> HIDE DEF c
      <3>2. b <= c => b * M <= c * M
        BY <3>1, Producto
      <3> QED
        BY <3>1, <3>2 DEF c
    <2>5. f[a] = IF x < l THEN x ELSE l
      BY <1>2, <2>1 DEF Corte
    <2>6. f[b] = IF y < l THEN y ELSE l
      BY <1>2, <2>1 DEF Corte
    <2>7. l > 0 => w < l
      BY <1>1
    <2>8. l = 0 => B = 1
      BY <1>1
    <2>9. a = 0 => x = 0
      OBVIOUS
    <2>10. f[a] = x
      <3> HIDE DEF x, y, w
      <3>1. CASE l > 0
        BY <2>2, <2>3, <2>5, <2>7, <3>1
      <3>2. CASE l = 0
        <4>1. a = 0
          BY <1>1, <2>1, <2>8, <3>2
        <4> QED
          BY <2>5, <2>9, <3>2, <4>1
      <3> QED
        BY <3>1, <3>2
    <2>11. f[a] <= f[b] /\ f[b] <= f[a] + M
      <3> HIDE DEF x, y, w, a
      <3> QED
        BY <2>2, <2>5, <2>6, <2>10
    <2>12. b # B => f[b] # l
      <3> HIDE DEF x, y, w, a
      <3>1. b # B => b < B
        BY <2>1
      <3>2. b # B => l > 0
        BY <2>1, <2>8
      <3> QED
        BY <2>2, <2>3, <2>4, <2>6, <2>7, <3>1, <3>2
    <2> QED
      BY <1>5, <2>10, <2>11, <2>12
  <1> QED
    BY <1>1, <1>3, <1>4, <1>5, <1>6 DEF Cortes, f

\* The longest block.
MaxTrama == 65535

LEMMA DosOctetosUnen ==
    ASSUME NEW l \in Nat, l <= MaxTrama
    PROVE  /\ l % 256 \in Octeto /\ l \div 256 \in Octeto
           /\ (l % 256) + 256 * (l \div 256) = l
           /\ l % 256 \in Int /\ l \div 256 \in Int
  <1>1. l < 65536
    BY DEF MaxTrama
  <1>2. l % 256 \in Octeto /\ l \div 256 \in Octeto
    BY <1>1, DosOctetos
  <1>3. (l % 256) + 256 * (l \div 256) = l
    OBVIOUS
  <1>4. l % 256 \in Int /\ l \div 256 \in Int
    BY <1>2 DEF Octeto
  <1> QED
    BY <1>2, <1>3, <1>4

LEMMA BloqueEs ==
    ASSUME NEW t \in Seq(Octeto), NEW l \in Nat, l = Len(t), l <= MaxTrama, NEW u \in BOOLEAN
    PROVE  LET q == Bloque(t, u) IN
           /\ q \in Seq(Octeto) /\ Len(q) = 5 + l
           /\ q[1] = (IF u THEN 1 ELSE 0)
           /\ q[2] + 256 * q[3] = l
           /\ q[4] = 255 - q[2] /\ q[5] = 255 - q[3]
           /\ \A j \in 1 .. l : q[5 + j] = t[j]
  <1> DEFINE x == l % 256
             y == l \div 256
             w == IF u THEN 1 ELSE 0
             c == <<w, x, y, 255 - x, 255 - y>>
  <1>1. x \in Octeto /\ y \in Octeto /\ x + 256 * y = l /\ x \in Int /\ y \in Int
    BY DosOctetosUnen
  <1>2. w \in Octeto
    BY DEF Octeto
  <1>3. Bloque(t, u) = c \o t
    BY DEF Bloque
  <1> HIDE DEF x, y, w
  <1>4. c \in Seq(Octeto) /\ Len(c) = 5 /\ c[1] = w /\ c[2] = x /\ c[3] = y /\ c[4] = 255 - x /\ c[5] = 255 - y
    <2>1. 255 - x \in Octeto /\ 255 - y \in Octeto
      BY <1>1 DEF Octeto
    <2> QED
      BY <1>1, <1>2, <2>1
  <1> HIDE DEF c
  <1> DEFINE q == c \o t
  <1>5. /\ q \in Seq(Octeto) /\ Len(q) = Len(c) + Len(t)
        /\ \A k \in 1 .. Len(c) : q[k] = c[k]
        /\ \A k \in 1 .. Len(t) : q[Len(c) + k] = t[k]
    <2>1. c \in Seq(Octeto) /\ t \in Seq(Octeto)
      BY <1>4
    <2> QED
      BY <2>1, PegadaOctetos
  <1> HIDE DEF q
  <1>6. \A k \in 1 .. 5 : q[k] = c[k]
    BY <1>4, <1>5
  <1>7. ASSUME NEW j \in 1 .. l PROVE q[5 + j] = t[j]
    BY <1>4, <1>5
  <1>8. q[1] = w /\ q[2] = x /\ q[3] = y /\ q[4] = 255 - x /\ q[5] = 255 - y
    BY <1>4, <1>6
  <1>9. Len(q) = 5 + l
    BY <1>4, <1>5
  <1>10. q[2] + 256 * q[3] = l /\ q[4] = 255 - q[2] /\ q[5] = 255 - q[3]
    BY <1>1, <1>8
  <1>11. q[1] = IF u THEN 1 ELSE 0
    BY <1>8 DEF w
  <1> QED
    BY <1>3, <1>5, <1>7, <1>9, <1>10, <1>11 DEF q

\* At offset p, z has a stored block with the bytes of d from a on, up to b.
HayBloque(z, p, d, a, b) ==
    /\ p + 5 + (b - a) <= Len(z)
    /\ z[p + 1] = IF b = Len(d) THEN 1 ELSE 0
    /\ z[p + 2] + 256 * z[p + 3] = b - a
    /\ z[p + 4] = 255 - z[p + 2] /\ z[p + 5] = 255 - z[p + 3]
    /\ \A j \in 1 .. b - a : z[p + 5 + j] = d[a + j]

LEMMA BloqueDetras ==
    ASSUME NEW s \in Seq(Octeto), NEW d \in Seq(Octeto), NEW a \in Nat, NEW b \in Nat,
           a <= b, b <= Len(d), b - a <= MaxTrama
    PROVE  LET g == s \o Bloque(SubSeq(d, a + 1, b), b = Len(d)) IN
           /\ g \in Seq(Octeto) /\ Len(g) = Len(s) + 5 + (b - a)
           /\ \A j \in 1 .. Len(s) : g[j] = s[j]
           /\ HayBloque(g, Len(s), d, a, b)
  <1> DEFINE t == SubSeq(d, a + 1, b)
             l == b - a
             u == b = Len(d)
             q == Bloque(t, u)
             g == s \o q
             p == Len(s)
  <1>1. t \in Seq(Octeto) /\ Len(t) = l /\ l \in Nat /\ l <= MaxTrama /\ u \in BOOLEAN
        /\ \A j \in 1 .. l : t[j] = d[a + j]
    BY Trozos
  <1>2. p \in Nat
    OBVIOUS
  <1> HIDE DEF t, u, l
  <1>3. /\ q \in Seq(Octeto) /\ Len(q) = 5 + l
        /\ q[1] = (IF u THEN 1 ELSE 0)
        /\ q[2] + 256 * q[3] = l
        /\ q[4] = 255 - q[2] /\ q[5] = 255 - q[3]
        /\ \A j \in 1 .. l : q[5 + j] = t[j]
    BY <1>1, BloqueEs
  <1> HIDE DEF q
  <1>4. /\ g \in Seq(Octeto) /\ Len(g) = p + Len(q)
        /\ \A k \in 1 .. p : g[k] = s[k]
        /\ \A k \in 1 .. Len(q) : g[p + k] = q[k]
    <2>1. s \in Seq(Octeto) /\ q \in Seq(Octeto)
      BY <1>3
    <2> QED
      BY <2>1, PegadaOctetos
  <1> HIDE DEF g, p
  <1>5. Len(g) = p + 5 + l
    BY <1>1, <1>2, <1>3, <1>4
  <1>6. \A j \in 1 .. p : g[j] = s[j]
    BY <1>4
  <1>7. \A k \in 1 .. 5 + l : g[p + k] = q[k]
    BY <1>3, <1>4
  <1>8. g[p + 1] = q[1] /\ g[p + 2] = q[2] /\ g[p + 3] = q[3] /\ g[p + 4] = q[4] /\ g[p + 5] = q[5]
    <2>1. 1 \in 1 .. 5 + l /\ 2 \in 1 .. 5 + l /\ 3 \in 1 .. 5 + l /\ 4 \in 1 .. 5 + l /\ 5 \in 1 .. 5 + l
      BY <1>1
    <2> QED
      BY <1>7, <2>1
  <1>9. ASSUME NEW j \in 1 .. l PROVE g[p + 5 + j] = d[a + j]
    <2>1. 5 + j \in 1 .. 5 + l /\ p + (5 + j) = p + 5 + j
      BY <1>1, <1>2
    <2> QED
      BY <1>1, <1>3, <1>7, <2>1
  <1>10. HayBloque(g, p, d, a, b)
    <2>1. p + 5 + l <= Len(g)
      BY <1>1, <1>2, <1>5
    <2>2. g[p + 1] = IF b = Len(d) THEN 1 ELSE 0
      BY <1>3, <1>8 DEF u
    <2>3. g[p + 2] + 256 * g[p + 3] = l /\ g[p + 4] = 255 - g[p + 2] /\ g[p + 5] = 255 - g[p + 3]
      BY <1>3, <1>8
    <2> QED
      BY <1>9, <2>1, <2>2, <2>3 DEF HayBloque, l
  <1> QED
    BY <1>4, <1>5, <1>6, <1>10 DEF g, q, t, u, p, l

LEMMA HayBloqueSigue ==
    ASSUME NEW s \in Seq(Octeto), NEW g \in Seq(Octeto), Sigue(s, g), NEW p \in Nat, NEW d,
           NEW a \in Nat, NEW b \in Nat, a <= b, HayBloque(s, p, d, a, b)
    PROVE  HayBloque(g, p, d, a, b)
  <1> DEFINE l == b - a
  <1>1. l \in Nat /\ Len(s) \in Nat /\ Len(g) \in Nat
    OBVIOUS
  <1> HIDE DEF l
  <1>2. p + 5 + l <= Len(s)
    BY DEF HayBloque, l
  <1>3. Len(s) <= Len(g) /\ \A j \in 1 .. Len(s) : g[j] = s[j]
    BY DEF Sigue
  <1>4. g[p + 1] = s[p + 1] /\ g[p + 2] = s[p + 2] /\ g[p + 3] = s[p + 3]
        /\ g[p + 4] = s[p + 4] /\ g[p + 5] = s[p + 5]
    BY <1>1, <1>2, <1>3
  <1>5. ASSUME NEW j \in 1 .. l PROVE g[p + 5 + j] = s[p + 5 + j]
    BY <1>1, <1>2, <1>3
  <1>6. p + 5 + l <= Len(g)
    BY <1>1, <1>2, <1>3
  <1> QED
    BY <1>4, <1>5, <1>6 DEF HayBloque, l

\* The offset where block b ends.
Tras(f, b) == 2 + 5 * b + f[b]

\* The first b blocks of d.
EsPrefijo(s, d, f, b) ==
    /\ s \in Seq(Octeto) /\ Len(s) = Tras(f, b)
    /\ \A c \in 1 .. b : HayBloque(s, Tras(f, c - 1), d, f[c - 1], f[c])

LEMMA PrefijoMas ==
    ASSUME NEW d \in Seq(Octeto), NEW M \in Nat \ {0}, M <= MaxTrama, NEW f, NEW B, Cortes(f, B, M, Len(d)),
           NEW b \in 1 .. B, NEW s, EsPrefijo(s, d, f, b - 1)
    PROVE  EsPrefijo(s \o Bloque(SubSeq(d, f[b - 1] + 1, f[b]), f[b] = Len(d)), d, f, b)
  <1> DEFINE x == f[b - 1]
             y == f[b]
             g == s \o Bloque(SubSeq(d, x + 1, y), y = Len(d))
  <1>0. Len(d) \in Nat /\ B \in Nat
    BY DEF Cortes
  <1>1. Len(d) \in Nat /\ M \in Nat /\ B \in Nat /\ b \in Nat /\ b - 1 \in 0 .. B /\ b \in 0 .. B
    BY <1>0
  <1>2. x \in Nat /\ y \in Nat /\ x <= y /\ y <= Len(d) /\ y <= x + M
    <2>1. x \in 0 .. Len(d) /\ y \in 0 .. Len(d) /\ x <= y /\ y <= x + M
      BY <1>1 DEF Cortes
    <2> HIDE DEF x, y
    <2> QED
      BY <1>1, <2>1
  <1>3. s \in Seq(Octeto) /\ Len(s) = Tras(f, b - 1)
    BY DEF EsPrefijo
  <1> HIDE DEF x, y
  <1>4. y - x <= MaxTrama
    <2>1. MaxTrama \in Nat
      BY DEF MaxTrama
    <2>2. M <= MaxTrama
      OBVIOUS
    <2> QED
      BY <1>1, <1>2, <2>1, <2>2
  <1>5. /\ g \in Seq(Octeto) /\ Len(g) = Len(s) + 5 + (y - x)
        /\ \A j \in 1 .. Len(s) : g[j] = s[j]
        /\ HayBloque(g, Len(s), d, x, y)
    BY <1>2, <1>3, <1>4, BloqueDetras
  <1> HIDE DEF g
  <1>6. Len(s) = 2 + 5 * (b - 1) + x
    BY <1>3 DEF Tras, x
  <1>7. Len(g) = Tras(f, b)
    <2>1. Len(g) = 2 + 5 * b + y
      BY <1>2, <1>5, <1>6
    <2> QED
      BY <2>1 DEF Tras, y
  <1>8. Sigue(s, g)
    <2>1. Len(s) \in Nat /\ Len(s) <= Len(g)
      BY <1>2, <1>3, <1>5
    <2> QED
      BY <1>5, <2>1 DEF Sigue
  <1>9. ASSUME NEW c \in 1 .. b PROVE HayBloque(g, Tras(f, c - 1), d, f[c - 1], f[c])
    <2>1. CASE c = b
      BY <1>3, <1>5, <2>1 DEF x, y
    <2>2. CASE c # b
      <3> DEFINE p == Tras(f, c - 1)
                 u == f[c - 1]
                 v == f[c]
      <3>1. c \in 1 .. b - 1 /\ c \in 1 .. B /\ c - 1 \in 0 .. B /\ c \in 0 .. B /\ c - 1 \in Nat
        BY <1>1, <2>2
      <3>2. u \in Nat /\ v \in Nat /\ u <= v
        BY <1>1, <3>1 DEF Cortes
      <3>3. p \in Nat
        <4> HIDE DEF u
        <4>1. p = 2 + 5 * (c - 1) + u
          BY DEF Tras, u
        <4> HIDE DEF p
        <4> QED
          BY <3>1, <3>2, <4>1
      <3>4. HayBloque(s, p, d, u, v)
        BY <3>1 DEF EsPrefijo
      <3> HIDE DEF p, u, v
      <3>5. HayBloque(g, p, d, u, v)
        BY <1>3, <1>5, <1>8, <3>2, <3>3, <3>4, HayBloqueSigue
      <3> QED
        BY <3>5 DEF p, u, v
    <2> QED
      BY <2>1, <2>2
  <1> QED
    BY <1>5, <1>7, <1>9 DEF EsPrefijo, g, x, y

\* The streams of the first blocks, as EnBloques has them.
Flujos(d, M, B) ==
    LET hasta(b) == IF b * M < Len(d) THEN b * M ELSE Len(d)
        z[b \in 0 .. B] ==
            IF b = 0 THEN Cabecera
            ELSE z[b - 1] \o Bloque(SubSeq(d, (b - 1) * M + 1, hasta(b)), hasta(b) = Len(d))
    IN  z

LEMMA FlujosEs ==
    ASSUME NEW d \in Seq(Octeto), NEW M \in Nat \ {0}, M <= MaxTrama, NEW f, NEW B, Cortes(f, B, M, Len(d)),
           \A b \in 0 .. B : f[b] = Corte(b, M, Len(d))
    PROVE  EsPrefijo(Flujos(d, M, B)[B], d, f, B)
  <1> DEFINE S == Seq(Octeto)
             Mas(s, b) == s \o Bloque(SubSeq(d, f[b - 1] + 1, f[b]), f[b] = Len(d))
             P(b) == {s \in S : EsPrefijo(s, d, f, b)}
             paso == [x \in S \X (1 .. B) |-> IF x[1] \in P(x[2] - 1) THEN Mas(x[1], x[2]) ELSE << >>]
  <1>1. B \in Nat /\ Len(d) \in Nat
    BY DEF Cortes
  <1>2. paso \in [S \X (1 .. B) -> S]
    <2>1. ASSUME NEW s \in S, NEW b \in 1 .. B, s \in P(b - 1) PROVE Mas(s, b) \in S
      <3>1. EsPrefijo(s, d, f, b - 1)
        BY <2>1
      <3>2. EsPrefijo(Mas(s, b), d, f, b)
        BY <3>1, PrefijoMas
      <3> QED
        BY <3>2 DEF EsPrefijo
    <2>2. << >> \in S
      OBVIOUS
    <2> HIDE DEF S, P, Mas
    <2> QED
      BY <2>1, <2>2
  <1>3. Cabecera \in S /\ Len(Cabecera) = 2
    BY DEF Cabecera, Octeto
  <1>4. PICK h : Iteracion(h, S, B, Cabecera, paso)
    <2> HIDE DEF S, paso
    <2> QED
      BY <1>1, <1>2, <1>3, Iterada
  <1>5. h \in [0 .. B -> S] /\ h[0] = Cabecera
    BY <1>4 DEF Iteracion
  <1>6. ASSUME NEW b \in 1 .. B PROVE h[b] = IF h[b - 1] \in P(b - 1) THEN Mas(h[b - 1], b) ELSE << >>
    <2>1. h[b] = paso[<<h[b - 1], b>>]
      <3> HIDE DEF S, paso
      <3> QED
        BY <1>4 DEF Iteracion
    <2> HIDE DEF S, P, Mas
    <2>2. <<h[b - 1], b>> \in S \X (1 .. B)
      BY <1>1, <1>5
    <2> QED
      BY <2>1, <2>2
  <1> DEFINE T == {b \in 0 .. B : h[b] \in P(b)}
  <1> HIDE DEF paso
  <1>7. 0 \in T
    <2>1. f[0] = 0
      BY DEF Cortes
    <2>2. Tras(f, 0) = 2
      BY <2>1 DEF Tras
    <2>3. EsPrefijo(Cabecera, d, f, 0)
      BY <1>3, <2>2 DEF EsPrefijo
    <2>4. 0 \in 0 .. B
      BY <1>1
    <2> QED
      BY <1>3, <1>5, <2>3, <2>4
  <1>8. ASSUME NEW b \in 0 .. B - 1, b \in T PROVE b + 1 \in T
    <2>1. b + 1 \in 1 .. B /\ (b + 1) - 1 = b /\ b + 1 \in 0 .. B
      BY <1>1
    <2>2. h[b] \in P(b)
      BY <1>8
    <2>3. h[b + 1] = Mas(h[b], b + 1)
      <3> HIDE DEF P, Mas
      <3> QED
        BY <1>6, <2>1, <2>2
    <2>4. EsPrefijo(h[b], d, f, (b + 1) - 1)
      BY <2>1, <2>2
    <2>5. EsPrefijo(Mas(h[b], b + 1), d, f, b + 1)
      BY <2>1, <2>4, PrefijoMas
    <2>6. Mas(h[b], b + 1) \in S
      BY <2>5 DEF EsPrefijo
    <2> QED
      BY <2>1, <2>3, <2>5, <2>6
  <1>9. 0 .. B \subseteq T
    <2> HIDE DEF T
    <2> QED
      BY <1>1, <1>7, <1>8, Induccion
  <1>10. ASSUME NEW b \in 1 .. B PROVE h[b] = Mas(h[b - 1], b)
    <2>1. b - 1 \in 0 .. B
      BY <1>1
    <2>2. h[b - 1] \in P(b - 1)
      BY <1>9, <2>1
    <2> HIDE DEF P, Mas
    <2> QED
      BY <1>6, <2>2
  <1> DEFINE hasta(b) == IF b * M < Len(d) THEN b * M ELSE Len(d)
             Otro(s, b) == s \o Bloque(SubSeq(d, (b - 1) * M + 1, hasta(b)), hasta(b) = Len(d))
  <1>11. ASSUME NEW b \in 1 .. B, NEW s PROVE Mas(s, b) = Otro(s, b)
    <2>1. f[b - 1] = (b - 1) * M
      BY DEF Cortes
    <2>2. f[b] = hasta(b)
      <3>1. b \in 0 .. B
        BY <1>1
      <3> QED
        BY <3>1 DEF Corte
    <2> QED
      BY <2>1, <2>2
  <1> HIDE DEF T, P, Mas, S
  <1>12. h = [b \in 0 .. B |-> IF b = 0 THEN Cabecera ELSE Otro(h[b - 1], b)]
    <2> HIDE DEF Otro
    <2>1. ASSUME NEW b \in 0 .. B PROVE h[b] = IF b = 0 THEN Cabecera ELSE Otro(h[b - 1], b)
      <3>1. CASE b = 0
        BY <1>5, <3>1
      <3>2. CASE b # 0
        <4>1. b \in 1 .. B
          BY <1>1, <3>2
        <4> QED
          BY <1>10, <1>11, <3>2, <4>1
      <3> QED
        BY <3>1, <3>2
    <2> QED
      BY <1>5, <2>1
  <1> DEFINE z[b \in 0 .. B] == IF b = 0 THEN Cabecera ELSE Otro(z[b - 1], b)
  <1>13. z = [b \in 0 .. B |-> IF b = 0 THEN Cabecera ELSE Otro(z[b - 1], b)]
    <2> HIDE DEF Otro
    <2> QED
      BY <1>12
  <1>14. Flujos(d, M, B) = z
    BY DEF Flujos
  <1> HIDE DEF z, Otro
  <1> DEFINE U == {b \in 0 .. B : z[b] = h[b]}
  <1>15. 0 \in U
    BY <1>1, <1>5, <1>13
  <1>16. ASSUME NEW b \in 0 .. B - 1, b \in U PROVE b + 1 \in U
    <2>1. b + 1 \in 1 .. B /\ (b + 1) - 1 = b /\ b + 1 \in 0 .. B /\ b + 1 # 0
      BY <1>1
    <2>2. z[b + 1] = Otro(z[b], b + 1)
      BY <1>13, <2>1
    <2>3. h[b + 1] = Otro(h[b], b + 1)
      BY <1>12, <2>1
    <2> QED
      BY <1>16, <2>1, <2>2, <2>3
  <1>17. 0 .. B \subseteq U
    <2> HIDE DEF U
    <2> QED
      BY <1>1, <1>15, <1>16, Induccion
  <1>18. B \in 0 .. B /\ z[B] = h[B] /\ h[B] \in P(B)
    BY <1>1, <1>9, <1>17 DEF T
  <1> QED
    BY <1>14, <1>18 DEF P

\* The client's reading of stored blocks, as LeerBloques has it.
Sig(z, p) == p + 5 + z[p + 2] + 256 * z[p + 3]

Malo(z, p) == \/ p + 5 > Len(z) \/ Sig(z, p) > Len(z)
              \/ z[p + 4] # 255 - z[p + 2] \/ z[p + 5] # 255 - z[p + 3]

BloquesDesde(z) ==
    LET desde[p \in 0 .. Len(z)] ==
            LET sigue == p + 5 + z[p + 2] + 256 * z[p + 3]
            IN  IF \/ p + 5 > Len(z) \/ sigue > Len(z)
                   \/ z[p + 4] # 255 - z[p + 2] \/ z[p + 5] # 255 - z[p + 3]
                THEN <<"no">>
                ELSE SubSeq(z, p + 6, sigue) \o
                     (IF z[p + 1] # 1 THEN desde[sigue]
                      ELSE IF Len(z) = sigue + 4 THEN << >> ELSE <<"no">>)
    IN  desde

EcuacionBloques(z, g) ==
    \A p \in 0 .. Len(z) :
        g[p] = IF Malo(z, p) THEN <<"no">>
               ELSE SubSeq(z, p + 6, Sig(z, p)) \o
                    (IF z[p + 1] # 1 THEN g[Sig(z, p)]
                     ELSE IF Len(z) = Sig(z, p) + 4 THEN << >> ELSE <<"no">>)

LEMMA OctetoNat == Octeto \subseteq Nat
  BY DEF Octeto

LEMMA SigEs ==
    ASSUME NEW z \in Seq(Octeto), NEW p \in 0 .. Len(z), ~ Malo(z, p)
    PROVE  Sig(z, p) \in p + 5 .. Len(z) /\ SubSeq(z, p + 6, Sig(z, p)) \in Seq(Octeto)
  <1> DEFINE q == Sig(z, p)
  <1>1. Len(z) \in Nat /\ p \in Nat /\ p + 5 <= Len(z) /\ ~ (q > Len(z))
    BY DEF Malo
  <1>2. z[p + 2] \in Octeto /\ z[p + 3] \in Octeto
    <2>1. p + 2 \in 1 .. Len(z) /\ p + 3 \in 1 .. Len(z)
      BY <1>1
    <2> QED
      BY <2>1
  <1>3. q \in Nat /\ q >= p + 5
    <2> DEFINE x == z[p + 2]
               y == z[p + 3]
    <2>1. x \in Nat /\ y \in Nat
      BY <1>2, OctetoNat
    <2>2. q = p + 5 + x + 256 * y
      BY DEF Sig
    <2> HIDE DEF x, y, q
    <2> QED
      BY <1>1, <2>1, <2>2
  <1> HIDE DEF q
  <1>4. q \in p + 5 .. Len(z)
    BY <1>1, <1>3
  <1> DEFINE a == p + 5
  <1>5. a \in Nat /\ a <= q /\ q <= Len(z) /\ q \in Nat /\ p + 6 = a + 1
    BY <1>1, <1>3
  <1> HIDE DEF a
  <1>6. SubSeq(z, a + 1, q) \in Seq(Octeto)
    BY <1>5, Trozos
  <1> QED
    BY <1>4, <1>5, <1>6 DEF q

LEMMA HayEcuacion ==
    ASSUME NEW z \in Seq(Octeto)
    PROVE  \E g : /\ g = [p \in 0 .. Len(z) |-> g[p]]
                  /\ EcuacionBloques(z, g)
  <1> DEFINE V == Octeto \cup {"no"}
             S == Seq(V)
             L == Len(z)
             acaba == {p \in 0 .. L : Malo(z, p) \/ z[p + 1] = 1}
             no == <<"no">>
             resto(p) == IF L = Sig(z, p) + 4 THEN << >> ELSE no
             base == [p \in 0 .. L |-> IF p \in acaba /\ ~ Malo(z, p) THEN SubSeq(z, p + 6, Sig(z, p)) \o resto(p)
                                       ELSE no]
             sig == [p \in 0 .. L |-> Sig(z, p)]
             paso == [x \in (0 .. L) \X S |-> IF x[1] \notin acaba THEN SubSeq(z, x[1] + 6, Sig(z, x[1])) \o x[2] ELSE no]
  <1>1. L \in Nat
    OBVIOUS
  <1>2. no \in S /\ << >> \in S
    OBVIOUS
  <1>3. ASSUME NEW p \in 0 .. L, ~ Malo(z, p) PROVE SubSeq(z, p + 6, Sig(z, p)) \in S
    <2>1. SubSeq(z, p + 6, Sig(z, p)) \in Seq(Octeto)
      BY <1>3, SigEs
    <2>2. Octeto \subseteq V
      OBVIOUS
    <2> HIDE DEF V
    <2> QED
      BY <2>1, <2>2, SeqMonotonic
  <1>4. ASSUME NEW s \in S, NEW t \in S PROVE s \o t \in S
    <2> HIDE DEF V
    <2> QED
      BY ConcatProperties
  <1>5. \A p \in 0 .. L : resto(p) \in S
    <2> HIDE DEF S, no
    <2> QED
      BY <1>2
  <1>6. base \in [0 .. L -> S]
    <2> HIDE DEF S, no, resto, acaba
    <2> QED
      BY <1>2, <1>3, <1>4, <1>5
  <1>7. \A p \in 0 .. L : p \notin acaba => ~ Malo(z, p)
    OBVIOUS
  <1>8. paso \in [(0 .. L) \X S -> S]
    <2>1. ASSUME NEW p \in 0 .. L, NEW s \in S, p \notin acaba PROVE SubSeq(z, p + 6, Sig(z, p)) \o s \in S
      <3> HIDE DEF S, acaba
      <3> QED
        BY <1>3, <1>4, <1>7, <2>1
    <2> HIDE DEF S, acaba, no
    <2> QED
      BY <1>2, <2>1
  <1>9. \A p \in 0 .. L : p \notin acaba => sig[p] \in p + 1 .. L
    <2> SUFFICES ASSUME NEW p \in 0 .. L, p \notin acaba PROVE sig[p] \in p + 1 .. L
      OBVIOUS
    <2>1. sig[p] = Sig(z, p) /\ ~ Malo(z, p)
      BY <1>7
    <2>2. Sig(z, p) \in p + 5 .. Len(z)
      BY <2>1, SigEs
    <2> QED
      BY <1>1, <2>1, <2>2
  <1>10. PICK g : Adelante(g, L, S, acaba, base, sig, paso)
    <2> HIDE DEF S, L, acaba, base, sig, paso
    <2> QED
      BY <1>1, <1>6, <1>8, <1>9, HayAdelante
  <1>11. g \in [0 .. L -> S]
    BY <1>10 DEF Adelante
  <1>12. ASSUME NEW p \in 0 .. L
         PROVE  g[p] = IF Malo(z, p) THEN no
                       ELSE SubSeq(z, p + 6, Sig(z, p)) \o (IF z[p + 1] # 1 THEN g[Sig(z, p)] ELSE resto(p))
    <2>1. g[p] = IF p \in acaba THEN base[p] ELSE paso[<<p, g[sig[p]]>>]
      <3> HIDE DEF S, acaba, base, sig, paso
      <3> QED
        BY <1>10 DEF Adelante
    <2> HIDE DEF resto, no, S, V
    <2>2. CASE Malo(z, p)
      BY <2>1, <2>2
    <2>3. CASE ~ Malo(z, p) /\ z[p + 1] = 1
      BY <2>1, <2>3
    <2>4. CASE ~ Malo(z, p) /\ z[p + 1] # 1
      <3>1. p \notin acaba /\ sig[p] = Sig(z, p)
        BY <2>4
      <3>2. sig[p] \in 0 .. L
        BY <1>1, <1>9, <3>1
      <3>3. <<p, g[sig[p]]>> \in (0 .. L) \X S
        BY <1>11, <3>2
      <3>4. paso[<<p, g[sig[p]]>>] = SubSeq(z, p + 6, Sig(z, p)) \o g[sig[p]]
        <4> HIDE DEF acaba, sig
        <4> QED
          BY <3>1, <3>3
      <3> QED
        BY <2>1, <2>4, <3>1, <3>4
    <2> QED
      BY <2>2, <2>3, <2>4
  <1>13. EcuacionBloques(z, g)
    <2> HIDE DEF S, V
    <2> QED
      BY <1>12 DEF EcuacionBloques
  <1> QED
    BY <1>11, <1>13

LEMMA BloquesEcuacion ==
    ASSUME NEW z \in Seq(Octeto)
    PROVE  EcuacionBloques(z, BloquesDesde(z)) /\ LeerBloques(z) = BloquesDesde(z)[2]
  <1> DEFINE Valor2(g, p) == IF Malo(z, p) THEN <<"no">>
                         ELSE SubSeq(z, p + 6, Sig(z, p)) \o
                              (IF z[p + 1] # 1 THEN g[Sig(z, p)]
                               ELSE IF Len(z) = Sig(z, p) + 4 THEN << >> ELSE <<"no">>)
             desde[p \in 0 .. Len(z)] == Valor2(desde, p)
  <1>1. PICK g : g = [p \in 0 .. Len(z) |-> g[p]] /\ EcuacionBloques(z, g)
    BY HayEcuacion
  <1>2. g = [p \in 0 .. Len(z) |-> Valor2(g, p)]
    BY <1>1 DEF EcuacionBloques
  <1>3. desde = [p \in 0 .. Len(z) |-> Valor2(desde, p)]
    <2> HIDE DEF Valor2
    <2> QED
      BY <1>2
  <1>4. BloquesDesde(z) = desde
    BY DEF BloquesDesde, Malo, Sig
  <1> HIDE DEF desde
  <1>5. \A p \in 0 .. Len(z) : desde[p] = Valor2(desde, p)
    <2> HIDE DEF Valor2
    <2> QED
      BY <1>3
  <1>6. EcuacionBloques(z, desde)
    BY <1>5 DEF EcuacionBloques
  <1>7. LeerBloques(z) = BloquesDesde(z)[2]
    BY DEF LeerBloques, BloquesDesde
  <1> QED
    BY <1>4, <1>6, <1>7

\* At q, after the bytes of d up to b, g has the others.
Detras(z, g, d, b, q) ==
    /\ b = Len(d) => Len(z) = q + 4
    /\ b # Len(d) => g[q] = SubSeq(d, b + 1, Len(d))

\* One block, and what comes after it.
LEMMA LeerUnBloque ==
    ASSUME NEW z \in Seq(Octeto), NEW g, EcuacionBloques(z, g), NEW d \in Seq(Octeto),
           NEW p \in Nat, NEW a \in Nat, NEW b \in Nat, a <= b, b <= Len(d), HayBloque(z, p, d, a, b),
           NEW q, q = p + 5 + (b - a),
           Detras(z, g, d, b, q)
    PROVE  g[p] = SubSeq(d, a + 1, Len(d))
  <1> DEFINE l == b - a
             D == Len(d)
             Z == Len(z)
             p5 == p + 5
  <1>1. l \in Nat /\ D \in Nat /\ Z \in Nat /\ p5 \in Nat /\ q = p5 + l /\ q \in Nat /\ b = a + l
    OBVIOUS
  <1>2. q <= Z /\ z[p + 2] + 256 * z[p + 3] = l
        /\ z[p + 4] = 255 - z[p + 2] /\ z[p + 5] = 255 - z[p + 3]
        /\ z[p + 1] = IF b = D THEN 1 ELSE 0
    BY DEF HayBloque
  <1>3. Iguales(z, p5, d, a, l)
    BY DEF HayBloque, Iguales
  <1>4. Sig(z, p) = q
    <2> DEFINE x == z[p + 2]
               y == z[p + 3]
    <2>1. p + 2 \in 1 .. Z /\ p + 3 \in 1 .. Z
      BY <1>1, <1>2
    <2>2. x \in Octeto /\ y \in Octeto
      BY <2>1
    <2>3. x \in Nat /\ y \in Nat
      BY <2>2, OctetoNat
    <2>4. x + 256 * y = l /\ Sig(z, p) = p + 5 + x + 256 * y
      BY <1>2 DEF Sig
    <2> HIDE DEF x, y, l
    <2> QED
      BY <1>1, <2>3, <2>4
  <1> HIDE DEF l, Z, D, p5
  <1>5. p \in 0 .. Z /\ ~ (p + 5 > Z) /\ ~ (q > Z)
    BY <1>1, <1>2 DEF p5
  <1>6. ~ Malo(z, p)
    BY <1>2, <1>4, <1>5 DEF Malo, Z
  <1>7. SubSeq(z, p + 6, q) = SubSeq(d, a + 1, b)
    <2>1. p5 + l <= Len(z) /\ a + l <= Len(d)
      BY <1>1, <1>2 DEF Z, D
    <2>2. SubSeq(z, p5 + 1, p5 + l) = SubSeq(d, a + 1, a + l)
      BY <1>1, <1>3, <2>1, TrozosIguales
    <2>3. p5 + 1 = p + 6
      BY DEF p5
    <2> QED
      BY <1>1, <2>2, <2>3
  <1>8. g[p] = SubSeq(d, a + 1, b) \o (IF z[p + 1] # 1 THEN g[q] ELSE IF Z = q + 4 THEN << >> ELSE <<"no">>)
    BY <1>4, <1>5, <1>6, <1>7 DEF EcuacionBloques, Z
  <1>9. CASE b = D
    <2>1. SubSeq(d, a + 1, b) \in Seq(Octeto)
      BY Trozos
    <2>2. g[p] = SubSeq(d, a + 1, b) \o << >>
      BY <1>2, <1>8, <1>9 DEF D, Z, Detras
    <2> QED
      BY <1>9, <2>1, <2>2, ConcatEmptySeq DEF D
  <1>10. CASE b # D
    <2>1. g[p] = SubSeq(d, a + 1, b) \o SubSeq(d, b + 1, D)
      <3>1. z[p + 1] # 1
        BY <1>2, <1>10
      <3>2. g[q] = SubSeq(d, b + 1, D)
        BY <1>10 DEF D, Detras
      <3> QED
        BY <1>8, <3>1, <3>2
    <2> DEFINE m == a + 1
    <2>2. m \in 1 .. Len(d) + 1 /\ b \in m - 1 .. Len(d) /\ D \in b .. Len(d)
      BY <1>1 DEF D
    <2> HIDE DEF m
    <2>3. SubSeq(d, m, b) \o SubSeq(d, b + 1, D) = SubSeq(d, m, D)
      BY <2>2, ConcatAdjacentSubSeq
    <2> QED
      BY <2>1, <2>3 DEF m, D
  <1> QED
    BY <1>9, <1>10

\* comprimirZlibStored and the reading of its blocks are inverse, for any bytes and
\* any size of block that its two bytes of length can say.
THEOREM StoredInverso ==
    ASSUME NEW d \in Seq(Octeto), NEW M \in Nat \ {0}, M <= MaxTrama
    PROVE  LeerBloques(comprimirZlibStored(d, M)) = d
  <1> DEFINE l == Len(d)
             B == NumBloques(l, M)
             f == [b \in 0 .. B |-> Corte(b, M, l)]
             s == Flujos(d, M, B)[B]
             t == BytesAdler(d)
             z == s \o t
  <1>1. l \in Nat /\ (d = << >> <=> l = 0)
    BY EmptySeq
  <1>2. Cortes(f, B, M, l)
    <2> HIDE DEF B, l
    <2> QED
      BY <1>1, CortesEs DEF B
  <1>3. B \in Nat \ {0}
    BY <1>2 DEF Cortes
  <1>4. comprimirZlibStored(d, M) = z
    <2>1. comprimirZlibStored(d, M) = EnBloques(d, M, B)
      BY <1>1 DEF comprimirZlibStored, NumBloques
    <2> HIDE DEF B
    <2> QED
      BY <2>1 DEF EnBloques, Flujos
  <1>5. \A b \in 0 .. B : f[b] = Corte(b, M, l)
    BY <1>3
  <1> HIDE DEF B, f
  <1>6. EsPrefijo(s, d, f, B)
    BY <1>2, <1>5, FlujosEs
  <1>7. t \in Seq(Octeto) /\ Len(t) = 4
    BY AdlerBytes
  <1>8. s \in Seq(Octeto) /\ Len(s) = Tras(f, B)
    BY <1>6 DEF EsPrefijo
  <1> HIDE DEF s, t
  <1>9. z \in Seq(Octeto) /\ Len(z) = Len(s) + Len(t) /\ \A j \in 1 .. Len(s) : z[j] = s[j]
    BY <1>7, <1>8, PegadaOctetos
  <1> HIDE DEF z
  <1>10. Len(s) \in Nat /\ Sigue(s, z) /\ Len(z) = Tras(f, B) + 4
    BY <1>7, <1>8, <1>9 DEF Sigue
  <1>11. EcuacionBloques(z, BloquesDesde(z)) /\ LeerBloques(z) = BloquesDesde(z)[2]
    BY <1>9, BloquesEcuacion
  <1> DEFINE g == BloquesDesde(z)
  <1> HIDE DEF g
  <1>12. ASSUME NEW c \in 1 .. B, c # B => g[Tras(f, c)] = SubSeq(d, f[c] + 1, l)
         PROVE  g[Tras(f, c - 1)] = SubSeq(d, f[c - 1] + 1, l)
    <2> DEFINE a == f[c - 1]
               b == f[c]
               p == Tras(f, c - 1)
               q == Tras(f, c)
    <2>1. c \in Nat /\ c - 1 \in 0 .. B /\ c \in 0 .. B /\ c - 1 \in Nat
      BY <1>3
    <2>2. a \in Nat /\ b \in Nat /\ a <= b /\ b <= l /\ (b = l <=> c = B)
      <3>1. a \in 0 .. l /\ b \in 0 .. l /\ a <= b /\ (b = l <=> c = B)
        BY <1>2, <2>1 DEF Cortes
      <3> HIDE DEF a, b
      <3> QED
        BY <1>1, <3>1
    <2>3. HayBloque(s, p, d, a, b)
      BY <1>6 DEF EsPrefijo
    <2>4. p = 2 + 5 * (c - 1) + a /\ q = 2 + 5 * c + b
      BY DEF Tras
    <2> HIDE DEF a, b, p, q
    <2>5. p \in Nat /\ q = p + 5 + (b - a)
      BY <2>1, <2>2, <2>4
    <2>6. HayBloque(z, p, d, a, b)
      BY <1>8, <1>9, <1>10, <2>2, <2>3, <2>5, HayBloqueSigue
    <2>7. b = Len(d) => Len(z) = q + 4
      BY <1>10, <2>2 DEF q
    <2>8. b # Len(d) => g[q] = SubSeq(d, b + 1, Len(d))
      BY <1>12, <2>2 DEF q, b
    <2>9. EcuacionBloques(z, g) /\ Detras(z, g, d, b, q)
      BY <1>11, <2>7, <2>8 DEF g, Detras
    <2>10. g[p] = SubSeq(d, a + 1, Len(d))
      <3>1. a \in Nat /\ b \in Nat /\ a <= b /\ b <= Len(d)
        BY <2>2
      <3> QED
        BY <1>9, <2>5, <2>6, <2>9, <3>1, LeerUnBloque
    <2> QED
      BY <2>10 DEF p, a
  <1> DEFINE n0 == B - 1
             U == {k \in 0 .. n0 : g[Tras(f, n0 - k)] = SubSeq(d, f[n0 - k] + 1, l)}
  <1>13. n0 \in Nat /\ n0 + 1 = B
    BY <1>3
  <1>14. 0 \in U
    <2>1. n0 - 0 = n0 /\ 0 \in 0 .. n0 /\ B - 1 = n0 /\ B \in 1 .. B
      BY <1>3
    <2>2. g[Tras(f, B - 1)] = SubSeq(d, f[B - 1] + 1, l)
      BY <1>12, <2>1
    <2> HIDE DEF n0, l
    <2> QED
      BY <2>1, <2>2
  <1>15. ASSUME NEW k \in 0 .. n0 - 1, k \in U PROVE k + 1 \in U
    <2> HIDE DEF l
    <2> DEFINE c == n0 - k
    <2>1. c \in 1 .. B /\ c # B /\ c - 1 = n0 - (k + 1) /\ k + 1 \in 0 .. n0
      BY <1>13
    <2>2. g[Tras(f, c)] = SubSeq(d, f[c] + 1, l)
      BY <1>15
    <2> HIDE DEF c, n0
    <2>3. g[Tras(f, c - 1)] = SubSeq(d, f[c - 1] + 1, l)
      BY <1>12, <2>1, <2>2
    <2> QED
      BY <2>1, <2>3
  <1>16. 0 .. n0 \subseteq U
    <2> HIDE DEF U, n0
    <2> QED
      BY <1>13, <1>14, <1>15, Induccion
  <1>17. n0 \in U
    <2>1. n0 \in 0 .. n0
      BY <1>13
    <2> HIDE DEF U, n0
    <2> QED
      BY <1>16, <2>1
  <1>18. g[Tras(f, 0)] = SubSeq(d, f[0] + 1, l)
    <2>1. n0 - n0 = 0
      BY <1>13
    <2> HIDE DEF n0, l
    <2> QED
      BY <1>17, <2>1
  <1>19. f[0] = 0 /\ Tras(f, 0) = 2
    <2>1. f[0] = 0
      BY <1>2 DEF Cortes
    <2> QED
      BY <2>1 DEF Tras
  <1>20. g[2] = d
    BY <1>18, <1>19, SubSeqFull
  <1> QED
    BY <1>4, <1>11, <1>20 DEF g

\* The stored stream of every buffer gives it back, the empty one and those that
\* fill their blocks exactly included.
THEOREM StoredSiempreFiel == SpecTabla => []StoredFiel
  <1>1. MaxBloque \in Nat \ {0} /\ MaxBloque <= MaxTrama
    <2>1. MaxBloque \in 1 .. MaxTrama
      BY FormatoAssumption DEF FormatoAssumption, MaxTrama
    <2>2. MaxTrama \in Nat
      BY DEF MaxTrama
    <2> QED
      BY <2>1, <2>2
  <1>2. InvLZ => StoredFiel
    <2> SUFFICES ASSUME InvLZ PROVE StoredFiel
      OBVIOUS
    <2> DEFINE d == Bytes(entrada)
    <2>1. d \in Seq(Octeto)
      BY BytesEs
    <2> HIDE DEF d
    <2>2. LeerBloques(comprimirZlibStored(d, MaxBloque)) = d
      BY <1>1, <2>1, StoredInverso
    <2> QED
      BY <2>2 DEF StoredFiel, d
  <1> QED
    BY <1>2, LZInvariante, PTL

-----------------------------------------------------------------------------
(* The records.                                                            *)

\* Beyond every length that is written.
Hasta == 100000

LEMMA DosYDos ==
    ASSUME NEW a, NEW b, NEW c, NEW d
    PROVE  <<a, b>> \o <<c, d>> = <<a, b, c, d>>
  <1> DEFINE S == {a, b, c, d}
             s == <<a, b>>
             t == <<c, d>>
             u == <<a, b, c, d>>
             w == s \o t
  <1>1. /\ s \in Seq(S) /\ Len(s) = 2 /\ s[1] = a /\ s[2] = b
        /\ t \in Seq(S) /\ Len(t) = 2 /\ t[1] = c /\ t[2] = d
        /\ u \in Seq(S) /\ Len(u) = 4 /\ u[1] = a /\ u[2] = b /\ u[3] = c /\ u[4] = d
    OBVIOUS
  <1> HIDE DEF S, s, t, u
  <1>2. /\ w \in Seq(S) /\ Len(w) = Len(s) + Len(t)
        /\ \A p \in 1 .. Len(s) : w[p] = s[p]
        /\ \A p \in 1 .. Len(t) : w[Len(s) + p] = t[p]
    <2>1. s \in Seq(S) /\ t \in Seq(S)
      BY <1>1
    <2> QED
      BY <2>1, Pegada
  <1> HIDE DEF w
  <1>3. Len(w) = 4 /\ w[1] = a /\ w[2] = b /\ w[2 + 1] = c /\ w[2 + 2] = d
    BY <1>1, <1>2
  <1>4. \A k \in 1 .. Len(w) : w[k] = u[k]
    BY <1>1, <1>3
  <1>5. w = u
    BY <1>1, <1>2, <1>3, <1>4, SeqEqual
  <1> QED
    BY <1>5 DEF w, s, t, u

LEMMA CuatroOctetos ==
    ASSUME NEW v \in Nat, v <= Hasta
    PROVE  LET e == escribir32(v) IN
           /\ e \in Seq(Octeto) /\ Len(e) = 4
           /\ e[1] + 256 * e[2] + 65536 * e[3] + 16777216 * e[4] = v
  <1> DEFINE x == v \div 256
             y == v \div 65536
             w == v \div 16777216
             a == v % 256
             b == x % 256
             c == y % 256
             d == w % 256
  <1>1. v <= 100000
    BY SMT DEF Hasta
  <1>2. a \in 0 .. 255 /\ b \in 0 .. 255 /\ c \in 0 .. 255 /\ d \in 0 .. 255
    BY SMT
  <1>3. w = 0 /\ x \in Nat /\ y \in Nat /\ y < 256 /\ y = x \div 256
    BY <1>1, SMT
  <1>4. v = 256 * x + a /\ x = 256 * y + b
    BY <1>1, <1>3, SMT
  <1>5. c = y /\ d = 0
    BY <1>3, SMT
  <1>6. escribir32(v) = <<a, b, c, d>>
    <2>1. escribir32(v) = <<a, b>> \o <<c, d>>
      BY SMT DEF escribir32, escribir16
    <2> HIDE DEF a, b, c, d
    <2> QED
      BY <2>1, DosYDos
  <1> HIDE DEF a, b, c, d, x, y, w
  <1>7. a + 256 * b + 65536 * c + 16777216 * d = v
    BY <1>2, <1>3, <1>4, <1>5, SMT
  <1>8. <<a, b, c, d>> \in Seq(Octeto)
    BY <1>2, SMT DEF Octeto
  <1> QED
    BY <1>6, <1>7, <1>8, SMT

LEMMA Escribir32Es ==
    ASSUME NEW v \in Nat
    PROVE  escribir32(v) \in Seq(Octeto) /\ Len(escribir32(v)) = 4
  <1> DEFINE x == v \div 256
             y == v \div 65536
             w == v \div 16777216
             a == v % 256
             b == x % 256
             c == y % 256
             d == w % 256
  <1>1. x \in Nat /\ y \in Nat /\ w \in Nat
    BY SMT
  <1>2. escribir32(v) = <<a, b, c, d>>
    <2>1. escribir32(v) = <<a, b>> \o <<c, d>>
      BY SMT DEF escribir32, escribir16
    <2> HIDE DEF a, b, c, d
    <2> QED
      BY <2>1, DosYDos
  <1> HIDE DEF x, y, w
  <1>3. a \in 0 .. 255 /\ b \in 0 .. 255 /\ c \in 0 .. 255 /\ d \in 0 .. 255
    BY <1>1, SMT
  <1> QED
    BY <1>2, <1>3, SMT DEF Octeto

LEMMA PrefijoOctetos ==
    ASSUME NEW id \in Nat
    PROVE  Prefijo(id) \in Seq(Octeto) /\ Len(Prefijo(id)) = 8
  <1> DEFINE uno == 1
             u == escribir32(id)
             v == escribir32(uno)
  <1>1. uno \in Nat
    OBVIOUS
  <1>2. Prefijo(id) = u \o v
    BY DEF Prefijo
  <1> HIDE DEF uno
  <1>3. u \in Seq(Octeto) /\ Len(u) = 4 /\ v \in Seq(Octeto) /\ Len(v) = 4
    BY <1>1, Escribir32Es
  <1> HIDE DEF u, v
  <1>4. u \o v \in Seq(Octeto) /\ Len(u \o v) = Len(u) + Len(v)
    BY <1>3, PegadaOctetos
  <1> QED
    BY <1>2, <1>3, <1>4

\* From offset p on, z has the bytes of e.
Tiene(z, p, e) == p + Len(e) <= Len(z) /\ Iguales(z, p, e, 0, Len(e))

LEMMA TieneMas ==
    ASSUME NEW s \in Seq(Octeto), NEW e \in Seq(Octeto), NEW t \in Seq(Octeto)
    PROVE  Tiene(s \o e \o t, Len(s), e)
  <1> DEFINE u == s \o e
             z == u \o t
  <1>1. u \in Seq(Octeto) /\ Len(u) = Len(s) + Len(e)
        /\ \A j \in 1 .. Len(e) : u[Len(s) + j] = e[j]
    BY PegadaOctetos
  <1> HIDE DEF u
  <1>2. z \in Seq(Octeto) /\ Len(z) = Len(u) + Len(t) /\ \A j \in 1 .. Len(u) : z[j] = u[j]
    BY <1>1, PegadaOctetos
  <1> HIDE DEF z
  <1>3. Len(s) \in Nat /\ Len(e) \in Nat /\ Len(t) \in Nat
    OBVIOUS
  <1>4. ASSUME NEW j \in 1 .. Len(e) PROVE z[Len(s) + j] = e[0 + j]
    <2>1. Len(s) + j \in 1 .. Len(u)
      BY <1>1, <1>3
    <2> QED
      BY <1>1, <1>2, <2>1
  <1> QED
    BY <1>1, <1>2, <1>3, <1>4 DEF Tiene, Iguales, z, u

LEMMA TieneSigue ==
    ASSUME NEW s \in Seq(Octeto), NEW g \in Seq(Octeto), Sigue(s, g), NEW p \in Nat,
           NEW e \in Seq(Octeto), Tiene(s, p, e)
    PROVE  Tiene(g, p, e)
  <1>1. Len(s) \in Nat /\ Len(g) \in Nat /\ Len(e) \in Nat /\ p + Len(e) <= Len(s) /\ Len(s) <= Len(g)
    BY DEF Tiene, Sigue
  <1>2. ASSUME NEW j \in 1 .. Len(e) PROVE g[p + j] = e[0 + j]
    <2>1. p + j \in 1 .. Len(s)
      BY <1>1
    <2>2. g[p + j] = s[p + j]
      BY <2>1 DEF Sigue
    <2> QED
      BY <2>2 DEF Tiene, Iguales
  <1>3. p + Len(e) <= Len(g)
    BY <1>1
  <1> QED
    BY <1>2, <1>3 DEF Tiene, Iguales

LEMMA TieneTrozo ==
    ASSUME NEW z \in Seq(Octeto), NEW p \in Nat, NEW e \in Seq(Octeto), Tiene(z, p, e)
    PROVE  SubSeq(z, p + 1, p + Len(e)) = e
  <1> DEFINE l == Len(e)
             c == 0
  <1>1. l \in Nat /\ c \in Nat /\ c + l <= Len(e) /\ c + 1 = 1 /\ c + l = l
    OBVIOUS
  <1>2. p + l <= Len(z) /\ Iguales(z, p, e, c, l)
    BY DEF Tiene
  <1> HIDE DEF l, c
  <1>3. SubSeq(z, p + 1, p + l) = SubSeq(e, c + 1, c + l)
    BY <1>1, <1>2, TrozosIguales
  <1>4. SubSeq(e, 1, l) = e
    BY SubSeqFull DEF l
  <1> QED
    BY <1>1, <1>3, <1>4 DEF l

LEMMA LeerEscrito ==
    ASSUME NEW z, NEW p \in Nat, NEW v \in Nat, v <= Hasta, Tiene(z, p, escribir32(v))
    PROVE  leer32(z, p) = v
  <1> DEFINE e == escribir32(v)
  <1>1. e \in Seq(Octeto) /\ Len(e) = 4
        /\ e[1] + 256 * e[2] + 65536 * e[3] + 16777216 * e[4] = v
    BY CuatroOctetos, SMT
  <1> HIDE DEF e
  <1>2. z[p + 1] = e[1] /\ z[p + 2] = e[2] /\ z[p + 3] = e[3] /\ z[p + 4] = e[4]
    <2>1. \A j \in 1 .. 4 : z[p + j] = e[0 + j]
      BY <1>1, SMT DEF Tiene, Iguales, e
    <2> QED
      BY <2>1, SMT
  <1> QED
    BY <1>1, <1>2, SMT DEF leer32

\* From offset p up to q, z has a record with app.
HayRegistro(z, p, app, q) ==
    /\ p \in Nat /\ q = p + 12 + Len(app) /\ q <= Len(z)
    /\ leer32(z, p) = 8 + Len(app)
    /\ SubSeq(z, p + 13, q) = app

LEMMA RegistroDetras ==
    ASSUME NEW s \in Seq(Octeto), NEW t \in Seq(Octeto), NEW app \in Seq(Octeto), Len(app) <= MaxTrama,
           NEW id \in Nat
    PROVE  LET g == s \o Registro(id, app)
               z == g \o t
           IN  /\ g \in Seq(Octeto) /\ Len(g) = Len(s) + 12 + Len(app)
               /\ z \in Seq(Octeto) /\ Len(z) = Len(g) + Len(t)
               /\ HayRegistro(z, Len(s), app, Len(g))
  <1> DEFINE l == Len(app)
             v == 8 + l
             e == escribir32(v)
             x == Prefijo(id)
             p == Len(s)
             se == s \o e
             sx == se \o x
             sa == sx \o app
             z == sa \o t
  <1>1. l \in Nat /\ v \in Nat /\ v = 8 + l /\ p \in Nat
    OBVIOUS
  <1>2. v <= Hasta
    <2>1. l <= 65535
      BY SMT DEF MaxTrama
    <2> QED
      BY <1>1, <2>1, SMT DEF Hasta
  <1>3. e \in Seq(Octeto) /\ Len(e) = 4
    <2> HIDE DEF v
    <2> QED
      BY <1>1, Escribir32Es
  <1>4. x \in Seq(Octeto) /\ Len(x) = 8
    BY PrefijoOctetos
  <1>5. Registro(id, app) = e \o x \o app
    BY DEF Registro
  <1> HIDE DEF e, x
  <1>6. s \o Registro(id, app) = sa
    <2>1. e \in Seq(Octeto) /\ x \in Seq(Octeto)
      BY <1>3, <1>4
    <2> DEFINE ex == e \o x
    <2>2. ex \in Seq(Octeto)
      BY <2>1, PegadaOctetos
    <2>3. s \o (ex \o app) = (s \o ex) \o app
      <3> HIDE DEF ex
      <3> QED
        BY <2>2, ConcatAssociative
    <2>4. s \o (e \o x) = (s \o e) \o x
      BY <2>1, ConcatAssociative
    <2> QED
      BY <1>5, <2>3, <2>4
  <1>7. se \in Seq(Octeto) /\ Len(se) = p + 4
    <2>1. e \in Seq(Octeto)
      BY <1>3
    <2>2. se \in Seq(Octeto) /\ Len(se) = Len(s) + Len(e)
      BY <2>1, PegadaOctetos
    <2> QED
      BY <1>1, <1>3, <2>2
  <1> HIDE DEF se
  <1>8. sx \in Seq(Octeto) /\ Len(sx) = p + 12
    <2>1. se \in Seq(Octeto) /\ x \in Seq(Octeto)
      BY <1>4, <1>7
    <2>2. sx \in Seq(Octeto) /\ Len(sx) = Len(se) + Len(x)
      BY <2>1, PegadaOctetos
    <2> QED
      BY <1>1, <1>4, <1>7, <2>2
  <1> HIDE DEF sx
  <1>9. sa \in Seq(Octeto) /\ Len(sa) = p + 12 + l
    <2>1. sx \in Seq(Octeto)
      BY <1>8
    <2>2. sa \in Seq(Octeto) /\ Len(sa) = Len(sx) + Len(app)
      BY <2>1, PegadaOctetos
    <2> QED
      BY <1>1, <1>8, <2>2
  <1>10. Tiene(sa \o t, Len(sx), app)
    <2>1. sx \in Seq(Octeto)
      BY <1>8
    <2> QED
      BY <2>1, TieneMas
  <1> DEFINE xa == x \o app
             xat == xa \o t
  <1>11. z \in Seq(Octeto) /\ Len(z) = Len(sa) + Len(t)
    <2>1. sa \in Seq(Octeto)
      BY <1>9
    <2> HIDE DEF sa
    <2> QED
      BY <2>1, PegadaOctetos
  <1>12. z = se \o xat
    <2>1. se \in Seq(Octeto) /\ x \in Seq(Octeto)
      BY <1>4, <1>7
    <2>2. xa \in Seq(Octeto)
      BY <2>1, PegadaOctetos
    <2>3. (se \o x) \o app = se \o xa
      BY <2>1, ConcatAssociative
    <2> HIDE DEF xa
    <2>4. (se \o xa) \o t = se \o (xa \o t)
      BY <2>1, <2>2, ConcatAssociative
    <2> QED
      BY <2>3, <2>4 DEF sx
  <1>13. Tiene(z, p, e)
    <2>1. e \in Seq(Octeto) /\ x \in Seq(Octeto)
      BY <1>3, <1>4
    <2>2. xa \in Seq(Octeto)
      BY <2>1, PegadaOctetos
    <2> HIDE DEF xa
    <2>3. xat \in Seq(Octeto)
      BY <2>2, PegadaOctetos
    <2> HIDE DEF xat, z
    <2>4. Tiene(s \o e \o xat, Len(s), e)
      BY <2>1, <2>3, TieneMas
    <2> QED
      BY <1>12, <2>4 DEF se
  <1> HIDE DEF z, sa
  <1>14. leer32(z, p) = v
    <2> HIDE DEF v, p
    <2> QED
      BY <1>1, <1>2, <1>13, LeerEscrito DEF e
  <1>15. SubSeq(z, p + 13, p + 12 + l) = app
    <2> DEFINE q == p + 12
    <2>1. q \in Nat /\ q + 1 = p + 13 /\ q + l = p + 12 + l /\ Tiene(z, q, app)
      BY <1>1, <1>8, <1>10 DEF z
    <2>2. z \in Seq(Octeto)
      BY <1>11
    <2> HIDE DEF q, p
    <2>3. SubSeq(z, q + 1, q + Len(app)) = app
      BY <2>1, <2>2, TieneTrozo
    <2> QED
      BY <2>1, <2>3
  <1>16. p + 12 + l <= Len(z)
    <2>1. Len(t) \in Nat
      OBVIOUS
    <2> QED
      BY <1>1, <1>9, <1>11, <2>1
  <1>17. HayRegistro(z, p, app, p + 12 + l)
    BY <1>1, <1>14, <1>15, <1>16 DEF HayRegistro, v
  <1> QED
    BY <1>6, <1>9, <1>11, <1>17 DEF z

LEMMA HayRegistroSigue ==
    ASSUME NEW s \in Seq(Octeto), NEW g \in Seq(Octeto), Sigue(s, g), NEW p, NEW q,
           NEW app \in Seq(Octeto), HayRegistro(s, p, app, q)
    PROVE  HayRegistro(g, p, app, q)
  <1> DEFINE l == Len(app)
             p12 == p + 12
  <1>1. p \in Nat /\ l \in Nat /\ p12 \in Nat /\ q = p12 + l /\ q <= Len(s) /\ p + 13 = p12 + 1
        /\ Len(s) \in Nat /\ Len(g) \in Nat
    BY DEF HayRegistro
  <1>2. Len(s) <= Len(g) /\ \A j \in 1 .. Len(s) : g[j] = s[j]
    BY DEF Sigue
  <1> HIDE DEF l, p12
  <1>3. q <= Len(g) /\ p12 + l <= Len(g) /\ p12 + l <= Len(s)
    BY <1>1, <1>2
  <1>4. Iguales(g, p12, s, p12, l)
    <2>1. ASSUME NEW j \in 1 .. l PROVE g[p12 + j] = s[p12 + j]
      <3>1. p12 + j \in 1 .. Len(s)
        BY <1>1
      <3> QED
        BY <1>2, <3>1
    <2> QED
      BY <2>1 DEF Iguales
  <1>5. SubSeq(g, p12 + 1, p12 + l) = SubSeq(s, p12 + 1, p12 + l)
    BY <1>1, <1>3, <1>4, TrozosIguales
  <1>6. leer32(g, p) = leer32(s, p)
    <2>1. p + 4 <= Len(s)
      BY <1>1 DEF p12
    <2>2. p + 1 \in 1 .. Len(s) /\ p + 2 \in 1 .. Len(s) /\ p + 3 \in 1 .. Len(s) /\ p + 4 \in 1 .. Len(s)
      BY <1>1, <2>1
    <2>3. g[p + 1] = s[p + 1] /\ g[p + 2] = s[p + 2] /\ g[p + 3] = s[p + 3] /\ g[p + 4] = s[p + 4]
      BY <1>2, <2>2
    <2> QED
      BY <2>3, SMT DEF leer32
  <1> QED
    BY <1>1, <1>3, <1>5, <1>6 DEF HayRegistro, l, p12

\* The reading of the records, as the loop of procesarDatos has it.
LongReg(z, p) == IF p + 4 <= Len(z) THEN leer32(z, p) ELSE 0
SigReg(z, p) == p + 4 + LongReg(z, p)
FinReg(z, p) == LongReg(z, p) < 8 \/ SigReg(z, p) > Len(z)

RegistrosDesde(z) ==
    LET desde[p \in 0 .. Len(z)] ==
            LET len == IF p + 4 <= Len(z) THEN leer32(z, p) ELSE 0
            IN  IF len < 8 \/ p + 4 + len > Len(z) THEN << >>
                ELSE <<SubSeq(z, p + 13, p + 4 + len)>> \o desde[p + 4 + len]
    IN  desde

EcuacionRegistros(z, g) ==
    \A p \in 0 .. Len(z) :
        g[p] = IF FinReg(z, p) THEN << >> ELSE <<SubSeq(z, p + 13, SigReg(z, p))>> \o g[SigReg(z, p)]

LEMMA LongRegEs ==
    ASSUME NEW z \in Seq(Octeto), NEW p \in 0 .. Len(z)
    PROVE  LongReg(z, p) \in Nat
  <1>1. CASE p + 4 <= Len(z)
    <2> DEFINE a == z[p + 1]
               b == z[p + 2]
               c == z[p + 3]
               d == z[p + 4]
    <2>1. p + 1 \in 1 .. Len(z) /\ p + 2 \in 1 .. Len(z) /\ p + 3 \in 1 .. Len(z) /\ p + 4 \in 1 .. Len(z)
      BY <1>1
    <2>2. a \in Octeto /\ b \in Octeto /\ c \in Octeto /\ d \in Octeto
      BY <2>1
    <2>3. a \in Nat /\ b \in Nat /\ c \in Nat /\ d \in Nat
      BY <2>2, OctetoNat
    <2>4. leer32(z, p) = a + 256 * b + 65536 * c + 16777216 * d
      BY SMT DEF leer32
    <2> HIDE DEF a, b, c, d
    <2>5. leer32(z, p) \in Nat
      BY <2>3, <2>4, SMT
    <2> QED
      BY <1>1, <2>5 DEF LongReg
  <1>2. CASE ~ (p + 4 <= Len(z))
    BY <1>2 DEF LongReg
  <1> QED
    BY <1>1, <1>2

LEMMA SigRegEs ==
    ASSUME NEW z \in Seq(Octeto), NEW p \in 0 .. Len(z), ~ FinReg(z, p)
    PROVE  SigReg(z, p) \in p + 1 .. Len(z) /\ SubSeq(z, p + 13, SigReg(z, p)) \in Seq(Octeto)
  <1> DEFINE l == LongReg(z, p)
             q == SigReg(z, p)
  <1>1. l \in Nat /\ q = p + 4 + l /\ ~ (l < 8) /\ ~ (q > Len(z)) /\ p \in Nat /\ Len(z) \in Nat
    BY LongRegEs DEF FinReg, SigReg
  <1> HIDE DEF l, q
  <1>2. q \in p + 1 .. Len(z)
    BY <1>1
  <1> DEFINE a == p + 12
  <1>3. a \in Nat /\ a <= q /\ q <= Len(z) /\ q \in Nat /\ p + 13 = a + 1
    BY <1>1
  <1> HIDE DEF a
  <1>4. SubSeq(z, a + 1, q) \in Seq(Octeto)
    BY <1>3, Trozos
  <1> QED
    BY <1>2, <1>3, <1>4 DEF q

LEMMA HayRegistros ==
    ASSUME NEW z \in Seq(Octeto)
    PROVE  \E g : /\ g = [p \in 0 .. Len(z) |-> g[p]]
                  /\ EcuacionRegistros(z, g)
  <1> DEFINE S == Seq(Seq(Octeto))
             L == Len(z)
             acaba == {p \in 0 .. L : FinReg(z, p)}
             vacia == << >>
             trozo(p) == SubSeq(z, p + 13, SigReg(z, p))
             base == [p \in 0 .. L |-> vacia]
             sig == [p \in 0 .. L |-> SigReg(z, p)]
             paso == [x \in (0 .. L) \X S |-> IF x[1] \notin acaba THEN <<trozo(x[1])>> \o x[2] ELSE vacia]
  <1>1. L \in Nat
    OBVIOUS
  <1>2. vacia \in S
    OBVIOUS
  <1>3. ASSUME NEW p \in 0 .. L, p \notin acaba PROVE <<trozo(p)>> \in S
    <2>1. trozo(p) \in Seq(Octeto)
      BY <1>3, SigRegEs
    <2> HIDE DEF trozo
    <2> QED
      BY <2>1
  <1>4. ASSUME NEW s \in S, NEW t \in S PROVE s \o t \in S
    BY ConcatProperties
  <1>5. base \in [0 .. L -> S]
    <2> HIDE DEF S, vacia
    <2> QED
      BY <1>2
  <1>6. paso \in [(0 .. L) \X S -> S]
    <2>1. ASSUME NEW p \in 0 .. L, NEW s \in S, p \notin acaba PROVE <<trozo(p)>> \o s \in S
      <3> HIDE DEF S, acaba, trozo
      <3> QED
        BY <1>3, <1>4, <2>1
    <2> HIDE DEF S, acaba, vacia, trozo
    <2> QED
      BY <1>2, <2>1
  <1>7. \A p \in 0 .. L : p \notin acaba => sig[p] \in p + 1 .. L
    BY SigRegEs
  <1>8. PICK g : Adelante(g, L, S, acaba, base, sig, paso)
    <2> HIDE DEF S, L, acaba, base, sig, paso
    <2> QED
      BY <1>1, <1>5, <1>6, <1>7, HayAdelante
  <1>9. g \in [0 .. L -> S]
    BY <1>8 DEF Adelante
  <1>10. ASSUME NEW p \in 0 .. L
         PROVE  g[p] = IF FinReg(z, p) THEN vacia ELSE <<trozo(p)>> \o g[SigReg(z, p)]
    <2>1. g[p] = IF p \in acaba THEN base[p] ELSE paso[<<p, g[sig[p]]>>]
      <3> HIDE DEF S, acaba, base, sig, paso
      <3> QED
        BY <1>8 DEF Adelante
    <2> HIDE DEF vacia, S, trozo
    <2>2. CASE FinReg(z, p)
      BY <2>1, <2>2
    <2>3. CASE ~ FinReg(z, p)
      <3>1. p \notin acaba /\ sig[p] = SigReg(z, p)
        BY <2>3
      <3>2. sig[p] \in 0 .. L
        BY <1>1, <1>7, <3>1
      <3>3. <<p, g[sig[p]]>> \in (0 .. L) \X S
        BY <1>9, <3>2
      <3>4. paso[<<p, g[sig[p]]>>] = <<trozo(p)>> \o g[sig[p]]
        <4> HIDE DEF acaba, sig
        <4> QED
          BY <3>1, <3>3
      <3> QED
        BY <2>1, <2>3, <3>1, <3>4
    <2> QED
      BY <2>2, <2>3
  <1>11. EcuacionRegistros(z, g)
    <2> HIDE DEF S
    <2> QED
      BY <1>10 DEF EcuacionRegistros
  <1> QED
    BY <1>9, <1>11

LEMMA RegistrosEcuacion ==
    ASSUME NEW z \in Seq(Octeto)
    PROVE  EcuacionRegistros(z, RegistrosDesde(z)) /\ \A p : Registros(z, p) = RegistrosDesde(z)[p]
  <1> DEFINE V(g, p) == IF FinReg(z, p) THEN << >> ELSE <<SubSeq(z, p + 13, SigReg(z, p))>> \o g[SigReg(z, p)]
             desde[p \in 0 .. Len(z)] == V(desde, p)
  <1>1. PICK g : g = [p \in 0 .. Len(z) |-> g[p]] /\ EcuacionRegistros(z, g)
    BY HayRegistros
  <1>2. g = [p \in 0 .. Len(z) |-> V(g, p)]
    BY <1>1 DEF EcuacionRegistros
  <1>3. desde = [p \in 0 .. Len(z) |-> V(desde, p)]
    <2> HIDE DEF V
    <2> QED
      BY <1>2
  <1>4. RegistrosDesde(z) = desde
    BY DEF RegistrosDesde, FinReg, SigReg, LongReg
  <1> HIDE DEF desde
  <1>5. \A p \in 0 .. Len(z) : desde[p] = V(desde, p)
    <2> HIDE DEF V
    <2> QED
      BY <1>3
  <1>6. EcuacionRegistros(z, desde)
    BY <1>5 DEF EcuacionRegistros
  <1>7. \A p : Registros(z, p) = RegistrosDesde(z)[p]
    BY DEF Registros, RegistrosDesde
  <1> QED
    BY <1>4, <1>6, <1>7

\* The payloads with the first records, as Agrupar has them.
Grupos(id, apps) ==
    LET pay[k \in 0 .. Len(apps)] ==
            IF k = 0 THEN Prefijo(id) ELSE pay[k - 1] \o Registro(id, apps[k])
    IN  pay

Apps == {a \in Seq(Octeto) : Len(a) <= MaxTrama}

\* h has the payloads with the first records.
SonGrupos(h, id, apps) ==
    /\ h \in [0 .. Len(apps) -> Seq(Octeto)]
    /\ h[0] = Prefijo(id)
    /\ \A k \in 1 .. Len(apps) : h[k] = h[k - 1] \o Registro(id, apps[k])

LEMMA RegistroOctetos ==
    ASSUME NEW id \in Nat, NEW app \in Apps
    PROVE  Registro(id, app) \in Seq(Octeto)
  <1> DEFINE v == 8 + Len(app)
             e == escribir32(v)
             x == Prefijo(id)
             ex == e \o x
  <1>1. v \in Nat /\ app \in Seq(Octeto)
    BY DEF Apps
  <1> HIDE DEF v
  <1>2. e \in Seq(Octeto) /\ x \in Seq(Octeto)
    BY <1>1, Escribir32Es, PrefijoOctetos
  <1> HIDE DEF e, x
  <1>3. ex \in Seq(Octeto)
    BY <1>2, PegadaOctetos
  <1>4. Registro(id, app) = ex \o app
    BY DEF Registro, e, x, v
  <1> HIDE DEF ex
  <1> QED
    BY <1>1, <1>3, <1>4, PegadaOctetos

LEMMA GruposEs ==
    ASSUME NEW id \in Nat, NEW apps \in Seq(Apps)
    PROVE  SonGrupos(Grupos(id, apps), id, apps)
  <1> DEFINE S == Seq(Octeto)
             K == Len(apps)
             R(k) == Registro(id, apps[k])
             paso == [x \in S \X (1 .. K) |-> x[1] \o R(x[2])]
  <1>1. K \in Nat
    OBVIOUS
  <1>2. ASSUME NEW s \in S, NEW k \in 1 .. K PROVE s \o R(k) \in S
    <2>1. apps[k] \in Apps
      BY ElementOfSeq
    <2>2. R(k) \in Seq(Octeto)
      BY <2>1, RegistroOctetos
    <2> HIDE DEF R
    <2> QED
      BY <2>2, PegadaOctetos
  <1>3. Prefijo(id) \in S
    BY PrefijoOctetos
  <1>4. paso \in [S \X (1 .. K) -> S]
    <2> HIDE DEF S, K, R
    <2> QED
      BY <1>2
  <1>5. PICK h : Iteracion(h, S, K, Prefijo(id), paso)
    <2> HIDE DEF S, paso, K
    <2> QED
      BY <1>1, <1>3, <1>4, Iterada
  <1>6. h \in [0 .. K -> S] /\ h[0] = Prefijo(id)
    BY <1>5 DEF Iteracion
  <1>7. ASSUME NEW k \in 1 .. K PROVE h[k] = h[k - 1] \o R(k)
    <2>1. h[k] = paso[<<h[k - 1], k>>]
      <3> HIDE DEF S, paso
      <3> QED
        BY <1>5 DEF Iteracion
    <2> HIDE DEF S, R
    <2>2. <<h[k - 1], k>> \in S \X (1 .. K)
      BY <1>1, <1>6
    <2> QED
      BY <2>1, <2>2
  <1> HIDE DEF paso, S, R, K
  <1>8. h = [k \in 0 .. K |-> IF k = 0 THEN Prefijo(id) ELSE h[k - 1] \o R(k)]
    <2>1. ASSUME NEW k \in 0 .. K PROVE h[k] = IF k = 0 THEN Prefijo(id) ELSE h[k - 1] \o R(k)
      <3>1. k = 0 \/ k \in 1 .. K
        BY <1>1
      <3> QED
        BY <1>6, <1>7, <3>1
    <2> QED
      BY <1>6, <2>1
  <1> DEFINE z[k \in 0 .. K] == IF k = 0 THEN Prefijo(id) ELSE z[k - 1] \o R(k)
  <1>9. z = [k \in 0 .. K |-> IF k = 0 THEN Prefijo(id) ELSE z[k - 1] \o R(k)]
    BY <1>8
  <1>10. Grupos(id, apps) = z
    BY DEF Grupos, R, K
  <1> HIDE DEF z
  <1> DEFINE U == {k \in 0 .. K : z[k] = h[k]}
  <1>11. 0 \in U
    BY <1>1, <1>6, <1>9
  <1>12. ASSUME NEW k \in 0 .. K - 1, k \in U PROVE k + 1 \in U
    <2>1. k + 1 \in 1 .. K /\ (k + 1) - 1 = k /\ k + 1 \in 0 .. K /\ k + 1 # 0
      BY <1>1
    <2>2. z[k + 1] = z[k] \o R(k + 1)
      BY <1>9, <2>1
    <2>3. h[k + 1] = h[k] \o R(k + 1)
      BY <1>7, <2>1
    <2> QED
      BY <1>12, <2>1, <2>2, <2>3
  <1>13. 0 .. K \subseteq U
    <2> HIDE DEF U
    <2> QED
      BY <1>1, <1>11, <1>12, Induccion
  <1>14. z = h
    <2>1. \A k \in 0 .. K : z[k] = h[k]
      BY <1>13
    <2> QED
      BY <1>6, <1>9, <2>1
  <1>15. SonGrupos(h, id, apps)
    BY <1>6, <1>7 DEF SonGrupos, S, R, K
  <1> QED
    BY <1>10, <1>14, <1>15

\* z has the first k records, each where h says.
HayGrupos(z, h, apps, k) ==
    \A c \in 1 .. k : HayRegistro(z, Len(h[c - 1]), apps[c], Len(h[c]))

LEMMA HayGruposEs ==
    ASSUME NEW id \in Nat, NEW apps \in Seq(Apps), NEW h, SonGrupos(h, id, apps)
    PROVE  \A k \in 0 .. Len(apps) : HayGrupos(h[k], h, apps, k)
  <1> DEFINE K == Len(apps)
             U == {k \in 0 .. K : HayGrupos(h[k], h, apps, k)}
  <1>1. K \in Nat
    OBVIOUS
  <1> HIDE DEF K
  <1>2. 0 \in U
    BY <1>1 DEF HayGrupos
  <1>3. ASSUME NEW k \in 0 .. K - 1, k \in U PROVE k + 1 \in U
    <2> DEFINE m == k + 1
               s == h[k]
               g == h[m]
               a == apps[m]
               t == << >>
    <2>1. m \in 1 .. K /\ m - 1 = k /\ m \in 0 .. K /\ k \in 0 .. K /\ k \in Nat
      BY <1>1
    <2>2. a \in Seq(Octeto) /\ Len(a) <= MaxTrama
      <3>1. a \in Apps
        BY <2>1, ElementOfSeq DEF K
      <3> QED
        BY <3>1 DEF Apps
    <2>3. s \in Seq(Octeto) /\ g \in Seq(Octeto) /\ g = s \o Registro(id, a)
      <3> HIDE DEF m
      <3> QED
        BY <2>1 DEF SonGrupos, K
    <2>4. t \in Seq(Octeto) /\ Len(t) = 0
      OBVIOUS
    <2> HIDE DEF s, g, a, t, m
    <2>5. Len(g) = Len(s) + 12 + Len(a) /\ g \o t \in Seq(Octeto) /\ HayRegistro(g \o t, Len(s), a, Len(g))
      <3> DEFINE b == s \o Registro(id, a)
      <3>1. s \in Seq(Octeto) /\ t \in Seq(Octeto) /\ a \in Seq(Octeto) /\ Len(a) <= MaxTrama
        BY <2>2, <2>3, <2>4
      <3>2. Len(b) = Len(s) + 12 + Len(a) /\ b \o t \in Seq(Octeto) /\ HayRegistro(b \o t, Len(s), a, Len(b))
        BY <3>1, RegistroDetras
      <3>3. g = b
        BY <2>3
      <3> HIDE DEF b
      <3> QED
        BY <3>2, <3>3
    <2>6. g \o t = g
      BY <2>3, ConcatEmptySeq DEF t
    <2>7. Sigue(s, g)
      <3>1. Registro(id, a) \in Seq(Octeto)
        BY <2>2, RegistroOctetos DEF Apps
      <3> DEFINE r == Registro(id, a)
      <3> HIDE DEF r
      <3>2. Len(s \o r) = Len(s) + Len(r) /\ \A p \in 1 .. Len(s) : (s \o r)[p] = s[p]
        BY <2>3, <3>1, PegadaOctetos DEF r
      <3>3. Len(s) <= Len(g)
        <4>1. Len(s) \in Nat /\ Len(a) \in Nat
          BY <2>2, <2>3
        <4> QED
          BY <2>5, <4>1
      <3> QED
        BY <2>3, <3>2, <3>3 DEF Sigue, r
    <2>8. ASSUME NEW c \in 1 .. m PROVE HayRegistro(g, Len(h[c - 1]), apps[c], Len(h[c]))
      <3>1. CASE c = m
        BY <2>1, <2>5, <2>6, <3>1 DEF s, g, a
      <3>2. CASE c # m
        <4>1. c \in 1 .. k /\ c \in 1 .. K
          BY <1>1, <2>1, <3>2
        <4>2. HayRegistro(s, Len(h[c - 1]), apps[c], Len(h[c]))
          BY <1>3, <4>1 DEF HayGrupos, s
        <4>3. apps[c] \in Seq(Octeto)
          <5>1. apps[c] \in Apps
            BY <4>1, ElementOfSeq DEF K
          <5> QED
            BY <5>1 DEF Apps
        <4> QED
          BY <2>3, <2>7, <4>2, <4>3, HayRegistroSigue
      <3> QED
        BY <3>1, <3>2
    <2>9. HayGrupos(h[m], h, apps, m)
      BY <2>8 DEF HayGrupos, g
    <2> QED
      BY <2>1, <2>9 DEF m
  <1>4. 0 .. K \subseteq U
    <2> HIDE DEF U
    <2> QED
      BY <1>1, <1>2, <1>3, Induccion
  <1> QED
    BY <1>4 DEF K

\* What Agrupar writes, RegistrosDe reads: every record, in order, and no more.
THEOREM RegistrosInversos ==
    ASSUME NEW id \in Nat, NEW apps \in Seq(Apps)
    PROVE  Agrupar(id, apps) \in Seq(Octeto) /\ RegistrosDe(Agrupar(id, apps)) = apps
  <1> DEFINE K == Len(apps)
             h == Grupos(id, apps)
             s == h[K]
             cero == 0
             t == escribir32(cero)
             z == s \o t
  <1>1. K \in Nat /\ K \in 0 .. K /\ 0 \in 0 .. K
    OBVIOUS
  <1>2. Agrupar(id, apps) = z
    BY DEF Agrupar, Grupos
  <1>3. SonGrupos(h, id, apps)
    BY GruposEs
  <1> HIDE DEF h
  <1>4. \A k \in 0 .. K : HayGrupos(h[k], h, apps, k)
    BY <1>3, HayGruposEs
  <1>5. \A k \in 0 .. K : h[k] \in Seq(Octeto)
    BY <1>3 DEF SonGrupos
  <1>6. h[0] = Prefijo(id) /\ Len(h[0]) = 8
    BY <1>3, PrefijoOctetos DEF SonGrupos
  <1>7. cero \in Nat /\ cero = 0 /\ cero <= Hasta
    BY SMT DEF Hasta
  <1> HIDE DEF cero, K
  <1>8. t \in Seq(Octeto) /\ Len(t) = 4
    BY <1>7, Escribir32Es
  <1>9. s \in Seq(Octeto) /\ HayGrupos(s, h, apps, K)
    BY <1>1, <1>4, <1>5
  <1> HIDE DEF s
  <1>10. z \in Seq(Octeto) /\ Len(z) = Len(s) + 4 /\ Sigue(s, z) /\ Len(s) \in Nat
    <2>1. s \in Seq(Octeto) /\ t \in Seq(Octeto)
      BY <1>8, <1>9
    <2> HIDE DEF t
    <2>2. z \in Seq(Octeto) /\ Len(z) = Len(s) + Len(t) /\ \A p \in 1 .. Len(s) : z[p] = s[p]
      BY <2>1, PegadaOctetos
    <2> HIDE DEF z
    <2>3. Len(s) \in Nat /\ Len(t) = 4
      BY <1>8, <2>1 DEF t
    <2> QED
      BY <2>2, <2>3 DEF Sigue
  <1>11. leer32(z, Len(s)) = 0
    <2> DEFINE v == << >>
    <2>1. v \in Seq(Octeto)
      OBVIOUS
    <2>2. s \in Seq(Octeto) /\ t \in Seq(Octeto)
      BY <1>8, <1>9
    <2> HIDE DEF v, t
    <2>3. Tiene(s \o t \o v, Len(s), t)
      BY <2>1, <2>2, TieneMas
    <2>4. s \o t \o v = s \o t
      <3>1. s \o t \in Seq(Octeto)
        BY <2>2, PegadaOctetos
      <3> QED
        BY <3>1, ConcatEmptySeq DEF v
    <2>5. Tiene(z, Len(s), t)
      BY <2>3, <2>4
    <2> HIDE DEF z
    <2> QED
      BY <1>7, <1>10, <2>5, LeerEscrito DEF t
  <1> HIDE DEF z, t
  <1> DEFINE g == RegistrosDesde(z)
  <1>12. EcuacionRegistros(z, g) /\ \A p : Registros(z, p) = g[p]
    BY <1>10, RegistrosEcuacion
  <1> HIDE DEF g
  <1>13. g[Len(s)] = << >>
    <2>1. Len(s) \in 0 .. Len(z)
      BY <1>10
    <2>2. LongReg(z, Len(s)) = 0
      BY <1>11 DEF LongReg
    <2>3. FinReg(z, Len(s))
      BY <2>2 DEF FinReg
    <2> QED
      BY <1>12, <2>1, <2>3 DEF EcuacionRegistros
  <1>14. ASSUME NEW c \in 1 .. K, g[Len(h[c])] = SubSeq(apps, c + 1, K)
         PROVE  g[Len(h[c - 1])] = SubSeq(apps, c, K)
    <2> DEFINE p == Len(h[c - 1])
               q == Len(h[c])
               a == apps[c]
    <2>1. a \in Apps /\ a \in Seq(Octeto)
      BY ElementOfSeq DEF K, Apps
    <2>2. HayRegistro(s, p, a, q)
      BY <1>9 DEF HayGrupos
    <2> HIDE DEF p, q, a
    <2>3. HayRegistro(z, p, a, q)
      BY <1>9, <1>10, <2>1, <2>2, HayRegistroSigue
    <2>4. p \in Nat /\ q = p + 12 + Len(a) /\ q <= Len(z) /\ leer32(z, p) = 8 + Len(a)
          /\ SubSeq(z, p + 13, q) = a /\ Len(a) \in Nat /\ Len(z) \in Nat
      BY <1>10, <2>1, <2>3 DEF HayRegistro
    <2>5. p + 4 <= Len(z) /\ p \in 0 .. Len(z)
      BY <2>4
    <2>6. LongReg(z, p) = 8 + Len(a)
      BY <2>4, <2>5 DEF LongReg
    <2>7. SigReg(z, p) = q
      BY <2>4, <2>6 DEF SigReg
    <2>8. ~ FinReg(z, p)
      BY <2>4, <2>6, <2>7 DEF FinReg
    <2>9. g[p] = <<a>> \o g[q]
      BY <1>12, <2>4, <2>5, <2>7, <2>8 DEF EcuacionRegistros
    <2>10. g[q] = SubSeq(apps, c + 1, K)
      BY <1>14 DEF q
    <2>11. SubSeq(apps, c, K) = <<apps[c]>> \o SubSeq(apps, c + 1, K)
      <3>1. c \in 1 .. Len(apps) /\ K \in c .. Len(apps)
        BY <1>1 DEF K
      <3> QED
        BY <3>1, SubSeqRecursiveFirst
    <2> QED
      BY <2>9, <2>10, <2>11 DEF p, a
  <1> DEFINE U == {k \in 0 .. K : g[Len(h[K - k])] = SubSeq(apps, (K - k) + 1, K)}
  <1>15. 0 \in U
    <2>1. K - 0 = K /\ K + 1 > K /\ K + 1 \in Int /\ K \in Int
      BY <1>1
    <2>2. SubSeq(apps, K + 1, K) = << >>
      BY <2>1, SubSeqEmpty
    <2>3. g[Len(h[K])] = << >>
      BY <1>13 DEF s
    <2> QED
      BY <1>1, <2>1, <2>2, <2>3
  <1>16. ASSUME NEW k \in 0 .. K - 1, k \in U PROVE k + 1 \in U
    <2> DEFINE c == K - k
    <2>1. c \in 1 .. K /\ c - 1 = K - (k + 1) /\ k + 1 \in 0 .. K /\ (c - 1) + 1 = c
      BY <1>1
    <2>2. g[Len(h[c])] = SubSeq(apps, c + 1, K)
      BY <1>16
    <2> HIDE DEF c
    <2>3. g[Len(h[c - 1])] = SubSeq(apps, (c - 1) + 1, K)
      BY <1>14, <2>1, <2>2
    <2> QED
      BY <2>1, <2>3
  <1>17. 0 .. K \subseteq U
    <2> HIDE DEF U
    <2> QED
      BY <1>1, <1>15, <1>16, Induccion
  <1>18. g[8] = apps
    <2>1. K \in U
      BY <1>1, <1>17
    <2>2. K - K = 0 /\ 0 + 1 = 1
      BY <1>1
    <2>3. g[Len(h[0])] = SubSeq(apps, 0 + 1, K)
      BY <2>1, <2>2
    <2> QED
      BY <1>6, <2>2, <2>3, SubSeqFull DEF K
  <1>19. CASE K = 0
    <2>1. s = h[0]
      BY <1>19 DEF s
    <2>2. Len(z) = 12
      <3>1. Len(s) = 8
        BY <1>6, <2>1
      <3>2. Len(z) = Len(s) + 4
        BY <1>10
      <3> QED
        BY <3>1, <3>2
    <2>3. RegistrosDe(z) = << >>
      BY <2>2 DEF RegistrosDe, TAM_CABECERA
    <2>4. apps = << >>
      BY <1>19, EmptySeq DEF K
    <2> QED
      BY <1>2, <1>10, <2>3, <2>4
  <1>20. CASE K # 0
    <2> DEFINE uno == 1
    <2>1. uno \in 1 .. K /\ uno = 1
      BY <1>1, <1>20
    <2> DEFINE q == Len(h[uno])
               a == apps[uno]
    <2>2. HayRegistro(s, Len(h[uno - 1]), a, q)
      <3> HIDE DEF uno
      <3> QED
        BY <1>9, <2>1 DEF HayGrupos
    <2>3. a \in Seq(Octeto)
      <3> HIDE DEF uno
      <3>1. a \in Apps
        BY <2>1, ElementOfSeq DEF K
      <3> QED
        BY <3>1 DEF Apps
    <2> DEFINE p == Len(h[uno - 1])
    <2>4. p = 8
      BY <1>6, <2>1
    <2> HIDE DEF q, a, uno, p
    <2>5. q = 8 + 12 + Len(a) /\ q <= Len(s) /\ Len(a) \in Nat
      BY <2>2, <2>3, <2>4 DEF HayRegistro, p
    <2>6. ~ (Len(z) < 22)
      BY <1>10, <2>5
    <2>7. RegistrosDe(z) = Registros(z, 8)
      BY <2>6 DEF RegistrosDe, TAM_CABECERA
    <2> QED
      BY <1>2, <1>10, <1>12, <1>18, <2>7
  <1> QED
    BY <1>19, <1>20

\* What the client groups are records that fit.
LEMMA CasosEs ==
    ASSUME NEW c \in Casos
    PROVE  c.id \in Nat /\ c.clave \in Clave /\ c.pedidos \in Seq(Apps)
  <1>1. Datos = Apps
    <2>1. 65535 = MaxTrama
      BY SMT DEF MaxTrama
    <2> QED
      BY <2>1, SMT DEF Datos, Apps
  <1>2. c.id \in Nat /\ c.clave \in Clave /\ c.pedidos \in Seq(Datos)
    BY CasosAssumption DEF CasosAssumption, Clave
  <1> QED
    BY <1>1, <1>2

\* The case, and what the server read of it.
InvCaso == caso \in Casos /\ (tramo # "pedir" => leidos = caso.pedidos)

LEMMA CasoPaso == InvCaso /\ [NextTabla]_varsTabla => InvCaso'
  <1> SUFFICES ASSUME InvCaso, [NextTabla]_varsTabla PROVE InvCaso'
    OBVIOUS
  <1>1. CASE ProcesarDatos
    <2> DEFINE K == caso.clave
               w == caso.pedidos
               pay == Agrupar(caso.id, w)
    <2>1. caso \in Casos
      BY DEF InvCaso
    <2>2. caso.id \in Nat /\ K \in Clave /\ w \in Seq(Apps)
      BY <2>1, CasosEs
    <2>3. leidos' = RegistrosDe(descifrar(cifrar(pay, K), K)) /\ caso' = caso
      BY <1>1 DEF ProcesarDatos
    <2>4. pay \in Seq(Octeto) /\ RegistrosDe(pay) = w
      BY <2>2, RegistrosInversos
    <2> HIDE DEF K, w, pay
    <2>5. descifrar(cifrar(pay, K), K) = pay
      BY <2>2, <2>4, DescifrarEs
    <2> QED
      BY <2>1, <2>3, <2>4, <2>5 DEF InvCaso, w
  <1>2. ASSUME UNCHANGED <<caso, leidos>>, tramo # "pedir" PROVE InvCaso'
    BY <1>2 DEF InvCaso
  <1>3. CASE Comprimir \/ AcabarFlujo \/ EnviarListaRica \/ EnviarClassInfo
    BY <1>2, <1>3 DEF Comprimir, AcabarFlujo, EnviarListaRica, EnviarClassInfo
  <1>4. CASE \E p \in paquetes : ClienteRecibe(p)
    BY <1>2, <1>4 DEF ClienteRecibe
  <1>5. CASE InflarLiteral \/ InflarRepeticion \/ FinDeBloque
    BY <1>2, <1>5 DEF InflarLiteral, InflarRepeticion, FinDeBloque, SigueInflando
  <1>6. CASE Leida \/ UNCHANGED varsTabla
    BY <1>6 DEF Leida, varsTabla, InvCaso
  <1> QED
    BY <1>1, <1>3, <1>4, <1>5, <1>6 DEF NextTabla

LEMMA CasoInvariante == SpecTabla => []InvCaso
  <1>1. InitTabla => InvCaso
    BY DEF InitTabla, InvCaso
  <1> QED
    BY <1>1, CasoPaso, PTL DEF SpecTabla

\* procesarDatos handles the records that the client grouped, all of them, in
\* their order, whatever the key: the cipher is undone and the loop finds where
\* each record begins.
THEOREM RegistrosSiempreLeidos == SpecTabla => []RegistrosLeidos
  <1>1. InvCaso => RegistrosLeidos
    BY DEF InvCaso, RegistrosLeidos
  <1> QED
    BY <1>1, CasoInvariante, PTL

-----------------------------------------------------------------------------
(* The message of a table, and the packets that carry it.                  *)

\* M is a message with l as the size and z as the stream.
EsMensaje(M, l, z) ==
    /\ M \in Seq(Octeto) /\ Len(M) = 14 + Len(z)
    /\ Tamano(M) = l /\ Flujo(M) = z

LEMMA Escribir16Es ==
    ASSUME NEW v \in Nat
    PROVE  escribir16(v) \in Seq(Octeto) /\ Len(escribir16(v)) = 2
  <1> DEFINE a == v % 256
             b == (v \div 256) % 256
  <1>1. a \in Octeto /\ b \in Octeto
    <2>1. v \div 256 \in Nat
      OBVIOUS
    <2> QED
      BY <2>1 DEF Octeto
  <1>2. escribir16(v) = <<a, b>>
    BY DEF escribir16
  <1> HIDE DEF a, b
  <1> QED
    BY <1>1, <1>2

MensajeDe(op, cuantos, l, z) ==
    escribir16(op) \o escribir32(cuantos) \o escribir32(l) \o escribir32(Len(z)) \o z

LEMMA MensajeEs ==
    ASSUME NEW op \in Nat, NEW cuantos \in Nat, NEW l \in Nat, l <= Hasta,
           NEW z \in Seq(Octeto), Len(z) <= Hasta
    PROVE  /\ EsMensaje(MensajeDe(op, cuantos, l, z), l, z)
           /\ Sigue(escribir16(op) \o escribir32(cuantos), MensajeDe(op, cuantos, l, z))
  <1> DEFINE a == escribir16(op)
             b == escribir32(cuantos)
             c == escribir32(l)
             d == escribir32(Len(z))
             ab == a \o b
             abc == ab \o c
             abcd == abc \o d
             M == abcd \o z
  <1>1. MensajeDe(op, cuantos, l, z) = M
    BY DEF MensajeDe
  <1>2. Len(z) \in Nat
    OBVIOUS
  <1>3. a \in Seq(Octeto) /\ Len(a) = 2
    BY Escribir16Es
  <1>4. b \in Seq(Octeto) /\ Len(b) = 4 /\ c \in Seq(Octeto) /\ Len(c) = 4
    BY Escribir32Es
  <1>5. d \in Seq(Octeto) /\ Len(d) = 4
    BY <1>2, Escribir32Es
  <1> HIDE DEF a, b, c, d
  <1>6. ab \in Seq(Octeto) /\ Len(ab) = 6
    <2>1. a \in Seq(Octeto) /\ b \in Seq(Octeto)
      BY <1>3, <1>4
    <2>2. ab \in Seq(Octeto) /\ Len(ab) = Len(a) + Len(b)
      BY <2>1, PegadaOctetos
    <2> HIDE DEF ab
    <2> QED
      BY <1>3, <1>4, <2>2
  <1> HIDE DEF ab
  <1>7. abc \in Seq(Octeto) /\ Len(abc) = 10 /\ Sigue(ab, abc)
    <2>1. ab \in Seq(Octeto) /\ c \in Seq(Octeto)
      BY <1>4, <1>6
    <2>2. abc \in Seq(Octeto) /\ Len(abc) = Len(ab) + Len(c) /\ \A p \in 1 .. Len(ab) : abc[p] = ab[p]
      BY <2>1, PegadaOctetos
    <2> HIDE DEF abc
    <2> QED
      BY <1>4, <1>6, <2>2 DEF Sigue
  <1>8. abcd \in Seq(Octeto) /\ Len(abcd) = 14 /\ Sigue(abc, abcd)
    <2>1. abc \in Seq(Octeto) /\ d \in Seq(Octeto)
      BY <1>5, <1>7
    <2> HIDE DEF abc
    <2>2. abcd \in Seq(Octeto) /\ Len(abcd) = Len(abc) + Len(d) /\ \A p \in 1 .. Len(abc) : abcd[p] = abc[p]
      BY <2>1, PegadaOctetos
    <2> HIDE DEF abcd
    <2> QED
      BY <1>5, <1>7, <2>2 DEF Sigue
  <1>9. Tiene(abcd, 6, c)
    <2>1. ab \in Seq(Octeto) /\ c \in Seq(Octeto) /\ d \in Seq(Octeto)
      BY <1>4, <1>5, <1>6
    <2>2. Tiene(ab \o c \o d, Len(ab), c)
      BY <2>1, TieneMas
    <2> QED
      BY <1>6, <2>2
  <1>10. Tiene(M, 10, d)
    <2>1. abc \in Seq(Octeto) /\ d \in Seq(Octeto) /\ z \in Seq(Octeto)
      BY <1>5, <1>7
    <2> HIDE DEF abc
    <2>2. Tiene(abc \o d \o z, Len(abc), d)
      BY <2>1, TieneMas
    <2> QED
      BY <1>7, <2>2
  <1> HIDE DEF abc, abcd
  <1>11. /\ M \in Seq(Octeto) /\ Len(M) = 14 + Len(z) /\ Sigue(abcd, M)
         /\ \A j \in 1 .. Len(z) : M[14 + j] = z[j]
    <2>1. abcd \in Seq(Octeto) /\ z \in Seq(Octeto)
      BY <1>8
    <2>2. /\ M \in Seq(Octeto) /\ Len(M) = Len(abcd) + Len(z)
          /\ \A p \in 1 .. Len(abcd) : M[p] = abcd[p]
          /\ \A p \in 1 .. Len(z) : M[Len(abcd) + p] = z[p]
      BY <2>1, PegadaOctetos
    <2> HIDE DEF M
    <2> QED
      BY <1>2, <1>8, <2>2 DEF Sigue
  <1> HIDE DEF M
  <1>12. Tiene(M, 6, c)
    <2> DEFINE p == 6
    <2>1. p \in Nat /\ Tiene(abcd, p, c)
      BY <1>9
    <2> HIDE DEF p
    <2>2. Tiene(M, p, c)
      BY <1>4, <1>8, <1>11, <2>1, TieneSigue
    <2> QED
      BY <2>2 DEF p
  <1>13. leer32(M, 6) = l
    BY <1>12, LeerEscrito DEF c
  <1>14. leer32(M, 10) = Len(z)
    BY <1>2, <1>10, LeerEscrito DEF d
  <1>15. SubSeq(M, 15, 14 + Len(z)) = z
    <2> DEFINE p == 14
    <2>1. p \in Nat /\ Tiene(M, p, z)
      <3>1. \A j \in 1 .. Len(z) : M[14 + j] = z[0 + j]
        BY <1>2, <1>11
      <3>2. 14 + Len(z) <= Len(M)
        BY <1>2, <1>11
      <3> QED
        BY <3>1, <3>2 DEF Tiene, Iguales
    <2>2. p + 1 = 15 /\ p + Len(z) = 14 + Len(z)
      OBVIOUS
    <2> HIDE DEF p
    <2>3. SubSeq(M, p + 1, p + Len(z)) = z
      BY <1>11, <2>1, TieneTrozo
    <2> QED
      BY <2>2, <2>3
  <1>16. Sigue(ab, M)
    BY <1>6, <1>7, <1>8, <1>11 DEF Sigue
  <1> QED
    BY <1>1, <1>11, <1>13, <1>14, <1>15, <1>16 DEF EsMensaje, Tamano, Flujo, ab, a, b

LEMMA PrimerosDe32 ==
    ASSUME NEW v \in Nat
    PROVE  escribir32(v)[1] = v % 256 /\ escribir32(v)[2] = (v \div 256) % 256
  <1> DEFINE a == v % 256
             b == (v \div 256) % 256
             c == (v \div 65536) % 256
             d == (v \div 16777216) % 256
  <1>1. escribir32(v) = <<a, b>> \o <<c, d>>
    BY SMT DEF escribir32, escribir16
  <1> HIDE DEF a, b, c, d
  <1>2. escribir32(v) = <<a, b, c, d>>
    BY <1>1, DosYDos
  <1> QED
    BY <1>2 DEF a, b

\* The first four bytes of a rich list, read as the length of a record.
LEMMA ListaNoEsRegistro ==
    ASSUME NEW l \in Nat, l <= Hasta, NEW z \in Seq(Octeto), Len(z) <= MaxTrama
    PROVE  LET M == MensajeDe(LOGINACCEPTED, 1, l, z) IN
           M[1] = 213 /\ M[2] = 19 /\ M[3] = 1 /\ M[4] = 0
  <1> DEFINE a == escribir16(LOGINACCEPTED)
             b == escribir32(1)
             ab == a \o b
             M == MensajeDe(LOGINACCEPTED, 1, l, z)
  <1>1. a = <<213, 19>> /\ LOGINACCEPTED \in Nat
    BY DEF escribir16, LOGINACCEPTED
  <1>2. b \in Seq(Octeto) /\ Len(b) = 4
    BY Escribir32Es
  <1>3. b[1] = 1 /\ b[2] = 0
    <2> DEFINE uno == 1
    <2>1. uno \in Nat /\ uno % 256 = 1 /\ (uno \div 256) % 256 = 0
      OBVIOUS
    <2>2. b = escribir32(uno)
      BY DEF b
    <2> HIDE DEF uno, b
    <2> QED
      BY <2>1, <2>2, PrimerosDe32
  <1> HIDE DEF b
  <1>4. ab[1] = 213 /\ ab[2] = 19 /\ ab[3] = 1 /\ ab[4] = 0 /\ Len(ab) = 6
    <2>1. a \in Seq(Octeto) /\ b \in Seq(Octeto) /\ Len(a) = 2 /\ a[1] = 213 /\ a[2] = 19
      BY <1>1, <1>2 DEF Octeto
    <2> HIDE DEF a
    <2>2. /\ Len(ab) = Len(a) + Len(b) /\ \A p \in 1 .. Len(a) : ab[p] = a[p]
          /\ \A p \in 1 .. Len(b) : ab[Len(a) + p] = b[p]
      <3>1. a \in Seq(Octeto) /\ b \in Seq(Octeto)
        BY <2>1
      <3> QED
        BY <3>1, PegadaOctetos
    <2> HIDE DEF ab
    <2>3. ab[1] = a[1] /\ ab[2] = a[2] /\ ab[2 + 1] = b[1] /\ ab[2 + 2] = b[2] /\ Len(ab) = 2 + 4
      BY <1>2, <2>1, <2>2
    <2> QED
      BY <1>3, <2>1, <2>3
  <1> HIDE DEF ab
  <1>5. Sigue(ab, M)
    <2> DEFINE op == LOGINACCEPTED
               uno == 1
    <2>1. op \in Nat /\ uno \in Nat
      BY <1>1
    <2>2. Len(z) \in Nat /\ Len(z) <= Hasta
      BY SMT DEF MaxTrama, Hasta
    <2>3. M = MensajeDe(op, uno, l, z) /\ ab = escribir16(op) \o escribir32(uno)
      BY DEF ab, b
    <2> HIDE DEF op, uno, M
    <2> QED
      BY <2>1, <2>2, <2>3, MensajeEs
  <1> HIDE DEF M
  <1> QED
    BY <1>4, <1>5 DEF Sigue, M

-----------------------------------------------------------------------------
(* Putting the fragments together.                                         *)

Cuerpo(p) == SubSeq(p, 9, Len(p))

Junto(W, partes) ==
    LET junto[k \in 0 .. W] ==
            IF k = 0 THEN << >>
            ELSE junto[k - 1] \o SubSeq(partes[k - 1], 9, Len(partes[k - 1]))
    IN  junto

\* h has what the first fragments make.
SonJuntos(h, W, S, partes) ==
    /\ h \in [0 .. W -> S] /\ h[0] = << >>
    /\ \A k \in 1 .. W : h[k] = h[k - 1] \o Cuerpo(partes[k - 1])

LEMMA JuntoEs ==
    ASSUME NEW W \in Nat, NEW S, NEW partes, NEW h, SonJuntos(h, W, S, partes)
    PROVE  Junto(W, partes)[W] = h[W]
  <1> DEFINE R(k) == Cuerpo(partes[k - 1])
  <1>1. h \in [0 .. W -> S] /\ h[0] = << >> /\ \A k \in 1 .. W : h[k] = h[k - 1] \o R(k)
    BY DEF SonJuntos
  <1> DEFINE z[k \in 0 .. W] == IF k = 0 THEN << >> ELSE z[k - 1] \o R(k)
  <1>2. Junto(W, partes) = z
    BY DEF Junto, Cuerpo
  <1> HIDE DEF R
  <1>3. h = [k \in 0 .. W |-> IF k = 0 THEN << >> ELSE h[k - 1] \o R(k)]
    <2>1. ASSUME NEW k \in 0 .. W PROVE h[k] = IF k = 0 THEN << >> ELSE h[k - 1] \o R(k)
      <3>1. k = 0 \/ k \in 1 .. W
        OBVIOUS
      <3> QED
        BY <1>1, <3>1
    <2> QED
      BY <1>1, <2>1
  <1>4. z = [k \in 0 .. W |-> IF k = 0 THEN << >> ELSE z[k - 1] \o R(k)]
    BY <1>3
  <1> HIDE DEF z
  <1> DEFINE U == {k \in 0 .. W : z[k] = h[k]}
  <1>5. 0 \in U
    BY <1>1, <1>4
  <1>6. ASSUME NEW k \in 0 .. W - 1, k \in U PROVE k + 1 \in U
    <2>1. k + 1 \in 1 .. W /\ (k + 1) - 1 = k /\ k + 1 \in 0 .. W /\ k + 1 # 0
      OBVIOUS
    <2>2. z[k + 1] = z[k] \o R(k + 1)
      BY <1>4, <2>1
    <2>3. h[k + 1] = h[k] \o R(k + 1)
      BY <1>1, <2>1
    <2> QED
      BY <1>6, <2>1, <2>2, <2>3
  <1>7. 0 .. W \subseteq U
    <2> HIDE DEF U
    <2> QED
      BY <1>5, <1>6, Induccion
  <1>8. W \in U
    BY <1>7
  <1> QED
    BY <1>2, <1>8

\* A payload without its prefix.
LEMMA CuerpoEs ==
    ASSUME NEW P \in Seq(Octeto), Len(P) = 8, NEW t \in Seq(Octeto)
    PROVE  P \o t \in Seq(Octeto) /\ Len(P \o t) = 8 + Len(t) /\ Cuerpo(P \o t) = t
           /\ Tiene(P \o t, 8, t)
  <1> DEFINE z == P \o t
             p == 8
  <1>1. /\ z \in Seq(Octeto) /\ Len(z) = Len(P) + Len(t)
        /\ \A j \in 1 .. Len(t) : z[Len(P) + j] = t[j]
    <2>1. P \in Seq(Octeto) /\ t \in Seq(Octeto)
      OBVIOUS
    <2> QED
      BY <2>1, PegadaOctetos
  <1>2. Len(t) \in Nat /\ p \in Nat /\ p = Len(P)
    OBVIOUS
  <1>3. p + 1 = 9
    OBVIOUS
  <1> HIDE DEF p, z
  <1>4. Tiene(z, p, t)
    <2>1. \A j \in 1 .. Len(t) : z[p + j] = t[0 + j]
      BY <1>1, <1>2
    <2>2. p + Len(t) <= Len(z)
      BY <1>1, <1>2
    <2> QED
      BY <2>1, <2>2 DEF Tiene, Iguales
  <1>5. SubSeq(z, p + 1, p + Len(t)) = t
    BY <1>1, <1>2, <1>4, TieneTrozo
  <1> QED
    BY <1>1, <1>2, <1>3, <1>4, <1>5 DEF Cuerpo, z, p

\* Each part is a piece of the message, with its prefix.
SonPedazos(partes, P, M, f, W) ==
    \A k \in 0 .. W - 1 : partes[k] = P \o SubSeq(M, f[k] + 1, f[k + 1])

\* The pieces of a message give it back.
LEMMA TrozosJuntos ==
    ASSUME NEW M \in Seq(Octeto), NEW P \in Seq(Octeto), Len(P) = 8, NEW T \in Nat \ {0},
           NEW f, NEW W, Cortes(f, W, T, Len(M)), NEW partes, SonPedazos(partes, P, M, f, W)
    PROVE  /\ Junto(W, partes)[W] = M
           /\ \A k \in 0 .. W - 1 : partes[k] \in Seq(Octeto)
  <1> DEFINE l == Len(M)
             h == [k \in 0 .. W |-> SubSeq(M, 1, f[k])]
             S == Seq(Octeto)
  <1>1. W \in Nat /\ W >= 1 /\ l \in Nat
    BY DEF Cortes
  <1>2. /\ f[0] = 0 /\ f[W] = l /\ \A b \in 0 .. W : f[b] \in 0 .. l
        /\ \A b \in 1 .. W : f[b - 1] <= f[b]
    BY DEF Cortes
  <1>3. ASSUME NEW k \in 1 .. W
        PROVE  /\ SubSeq(M, f[k - 1] + 1, f[k]) \in Seq(Octeto)
               /\ partes[k - 1] = P \o SubSeq(M, f[k - 1] + 1, f[k])
               /\ Cuerpo(partes[k - 1]) = SubSeq(M, f[k - 1] + 1, f[k])
               /\ partes[k - 1] \in Seq(Octeto)
    <2> DEFINE c == k - 1
               a == f[c]
               b == f[k]
               t == SubSeq(M, a + 1, b)
    <2>1. c \in 0 .. W - 1 /\ c + 1 = k /\ c \in 0 .. W
      BY <1>1
    <2>2. a \in Nat /\ b \in Nat /\ a <= b /\ b <= Len(M)
      BY <1>1, <1>2, <2>1
    <2>3. partes[c] = P \o t
      BY <2>1 DEF SonPedazos
    <2> HIDE DEF a, b, c
    <2>4. t \in Seq(Octeto)
      BY <2>2, Trozos
    <2> HIDE DEF t
    <2>5. P \o t \in Seq(Octeto) /\ Cuerpo(P \o t) = t
      BY <2>4, CuerpoEs
    <2> QED
      BY <2>3, <2>4, <2>5 DEF a, b, c, t
  <1>4. ASSUME NEW k \in 1 .. W PROVE h[k] = h[k - 1] \o Cuerpo(partes[k - 1])
    <2> DEFINE a == f[k - 1]
               b == f[k]
               uno == 1
    <2>1. a \in Nat /\ b \in Nat /\ a <= b /\ b <= Len(M) /\ k - 1 \in 0 .. W /\ k \in 0 .. W
      BY <1>1, <1>2
    <2>2. h[k - 1] = SubSeq(M, uno, a) /\ h[k] = SubSeq(M, uno, b)
      BY <2>1
    <2>3. Cuerpo(partes[k - 1]) = SubSeq(M, a + 1, b)
      BY <1>3
    <2>4. uno \in 1 .. Len(M) + 1 /\ a \in uno - 1 .. Len(M) /\ b \in a .. Len(M)
      BY <1>1, <2>1
    <2> HIDE DEF a, b, uno, h
    <2>5. SubSeq(M, uno, a) \o SubSeq(M, a + 1, b) = SubSeq(M, uno, b)
      BY <2>4, ConcatAdjacentSubSeq
    <2> QED
      BY <2>2, <2>3, <2>5
  <1>5. h \in [0 .. W -> S]
    <2>1. ASSUME NEW k \in 0 .. W PROVE SubSeq(M, 1, f[k]) \in Seq(Octeto)
      <3> DEFINE a == 0
                 b == f[k]
      <3>1. a \in Nat /\ b \in Nat /\ a <= b /\ b <= Len(M) /\ a + 1 = 1
        BY <1>1, <1>2
      <3> HIDE DEF a, b
      <3>2. SubSeq(M, a + 1, b) \in Seq(Octeto)
        BY <3>1, Trozos
      <3> QED
        BY <3>1, <3>2 DEF b
    <2> QED
      BY <2>1
  <1>6. h[0] = << >>
    <2>1. 0 \in 0 .. W
      BY <1>1
    <2>2. h[0] = SubSeq(M, 1, 0)
      BY <1>2, <2>1
    <2> DEFINE uno == 1
               cero == 0
    <2>3. uno \in Int /\ cero \in Int /\ cero < uno
      OBVIOUS
    <2>4. h[0] = SubSeq(M, uno, cero)
      BY <2>2
    <2> HIDE DEF uno, cero, h
    <2>5. SubSeq(M, uno, cero) = << >>
      BY <2>3, SubSeqEmpty
    <2> QED
      BY <2>4, <2>5
  <1>7. h[W] = M
    <2>1. W \in 0 .. W
      BY <1>1
    <2>2. h[W] = SubSeq(M, 1, Len(M))
      BY <1>2, <2>1
    <2> QED
      BY <2>2, SubSeqFull
  <1>8. Junto(W, partes)[W] = h[W]
    <2> HIDE DEF h, S
    <2>1. \A k \in 1 .. W : h[k] = h[k - 1] \o Cuerpo(partes[k - 1])
      BY <1>4
    <2>2. W \in Nat /\ h \in [0 .. W -> S] /\ h[0] = << >>
      BY <1>1, <1>5, <1>6
    <2>3. SonJuntos(h, W, S, partes)
      BY <2>1, <2>2 DEF SonJuntos
    <2> QED
      BY <2>2, <2>3, JuntoEs
  <1>9. ASSUME NEW k \in 0 .. W - 1 PROVE partes[k] \in Seq(Octeto)
    <2>1. k + 1 \in 1 .. W /\ (k + 1) - 1 = k
      BY <1>1
    <2> QED
      BY <1>3, <2>1
  <1> QED
    BY <1>7, <1>8, <1>9

\* A rich list in one packet is not taken for a chain of records: its first four
\* bytes, as a length, go beyond it.
LEMMA ListaSinRegistros ==
    ASSUME NEW id \in Nat, NEW l \in Nat, l <= Hasta, NEW z \in Seq(Octeto), Len(z) <= MaxTrama
    PROVE  RegistrosDe(Prefijo(id) \o MensajeDe(LOGINACCEPTED, 1, l, z)) = << >>
  <1> DEFINE P == Prefijo(id)
             M == MensajeDe(LOGINACCEPTED, 1, l, z)
             y == P \o M
             ocho == 8
  <1>1. P \in Seq(Octeto) /\ Len(P) = 8
    BY PrefijoOctetos
  <1>2. M \in Seq(Octeto) /\ Len(M) = 14 + Len(z)
    <2> DEFINE op == LOGINACCEPTED
               uno == 1
    <2>1. op \in Nat /\ uno \in Nat
      BY DEF LOGINACCEPTED
    <2>2. Len(z) <= Hasta
      <3>1. Len(z) \in Nat
        OBVIOUS
      <3> QED
        BY <3>1, SMT DEF MaxTrama, Hasta
    <2>3. M = MensajeDe(op, uno, l, z)
      OBVIOUS
    <2> HIDE DEF op, uno, M
    <2> QED
      BY <2>1, <2>2, <2>3, MensajeEs DEF EsMensaje
  <1>3. M[1] = 213 /\ M[2] = 19 /\ M[3] = 1 /\ M[4] = 0
    BY ListaNoEsRegistro
  <1> HIDE DEF P, M
  <1>4. /\ y \in Seq(Octeto) /\ Len(y) = 22 + Len(z)
        /\ \A j \in 1 .. Len(M) : y[8 + j] = M[j]
    <2>1. P \in Seq(Octeto) /\ M \in Seq(Octeto)
      BY <1>1, <1>2
    <2>2. /\ y \in Seq(Octeto) /\ Len(y) = Len(P) + Len(M)
          /\ \A j \in 1 .. Len(M) : y[Len(P) + j] = M[j]
      BY <2>1, PegadaOctetos
    <2> HIDE DEF y
    <2>3. Len(z) \in Nat
      OBVIOUS
    <2> QED
      BY <1>1, <1>2, <2>2, <2>3
  <1> HIDE DEF y
  <1>5. y[9] = 213 /\ y[10] = 19 /\ y[11] = 1 /\ y[12] = 0 /\ Len(z) \in Nat
    <2>1. 1 \in 1 .. Len(M) /\ 2 \in 1 .. Len(M) /\ 3 \in 1 .. Len(M) /\ 4 \in 1 .. Len(M)
      BY <1>2
    <2>2. y[8 + 1] = 213 /\ y[8 + 2] = 19 /\ y[8 + 3] = 1 /\ y[8 + 4] = 0
      BY <1>3, <1>4, <2>1
    <2> QED
      BY <2>2
  <1>6. leer32(y, 8) = 70613
    <2>1. leer32(y, 8) = y[9] + 256 * y[10] + 65536 * y[11] + 16777216 * y[12]
      BY SMT DEF leer32
    <2> QED
      BY <1>5, <2>1, SMT
  <1>7. ocho \in 0 .. Len(y) /\ ocho + 4 <= Len(y)
    BY <1>4, <1>5
  <1>8. LongReg(y, ocho) = 70613
    BY <1>6, <1>7 DEF LongReg
  <1>9. SigReg(y, ocho) > Len(y)
    <2>1. SigReg(y, ocho) = 12 + 70613
      BY <1>8, SMT DEF SigReg
    <2> QED
      BY <1>4, <1>5, <2>1, SMT DEF MaxTrama
  <1>10. FinReg(y, ocho)
    BY <1>9 DEF FinReg
  <1>11. EcuacionRegistros(y, RegistrosDesde(y)) /\ Registros(y, ocho) = RegistrosDesde(y)[ocho]
    BY <1>4, RegistrosEcuacion
  <1>12. Registros(y, ocho) = << >>
    <2> HIDE DEF ocho
    <2> QED
      BY <1>7, <1>10, <1>11 DEF EcuacionRegistros
  <1>13. RegistrosDe(y) = << >>
    BY <1>12 DEF RegistrosDe
  <1> QED
    BY <1>13 DEF y, P, M

\* The pieces of a rich list, as enviarFragmentado cuts it.
Pedazos(id, M, T) ==
    [k \in 0 .. NumFragmentos(Len(M), T) - 1 |->
        Prefijo(id) \o SubSeq(M, k * T + 1, Corte(k + 1, T, Len(M)))]

LEMMA UnOcteto ==
    ASSUME NEW W \in Nat \ {0}, ~ (255 <= W - 1)
    PROVE  W \in 1 .. 255
  OBVIOUS

\* They are as many as one byte numbers, and they make the message.
LEMMA ListaReunida ==
    ASSUME NEW id \in Nat, NEW l \in Nat, l <= Hasta, NEW z \in Seq(Octeto), Len(z) <= MaxTrama,
           NEW T \in Nat \ {0}, 14 + Len(z) <= 255 * T,
           NEW M, M = MensajeDe(LOGINACCEPTED, 1, l, z), EsMensaje(M, l, z),
           NEW W, W = NumFragmentos(Len(M), T)
    PROVE  /\ W \in 1 .. 255 /\ Reunir(W, Pedazos(id, M, T)) = M
           /\ \A k \in 0 .. W - 1 : Pedazos(id, M, T)[k] \in Seq(Octeto)
  <1> DEFINE P == Prefijo(id)
             D == Len(M)
             f == [b \in 0 .. W |-> Corte(b, T, D)]
             partes == Pedazos(id, M, T)
  <1>1. M \in Seq(Octeto) /\ D = 14 + Len(z) /\ D \in Nat /\ D > 0 /\ Len(z) \in Nat
    BY DEF EsMensaje
  <1>2. W = NumBloques(D, T)
    BY DEF NumFragmentos, NumBloques
  <1>3. P \in Seq(Octeto) /\ Len(P) = 8
    BY PrefijoOctetos
  <1> HIDE DEF P, D
  <1>4. W \in Nat \ {0} /\ (W - 1) * T < D
    BY <1>1, <1>2, NumBloquesEs
  <1>5. W \in 1 .. 255
    <2> DEFINE a == 255
               b == W - 1
    <2>1. a \in Nat /\ b \in Nat /\ b * T < D /\ D <= a * T
      BY <1>1, <1>4
    <2> HIDE DEF a, b
    <2>2. a * T \in Nat /\ b * T \in Nat /\ (a <= b => a * T <= b * T)
      BY <2>1, Producto
    <2>3. ~ (a <= b)
      BY <1>1, <2>1, <2>2
    <2>4. ~ (255 <= W - 1)
      BY <2>3 DEF a, b
    <2>5. W \in Nat \ {0}
      BY <1>4
    <2> QED
      BY <2>4, <2>5, UnOcteto
  <1>6. Cortes(f, W, T, D)
    BY <1>1, <1>2, CortesEs
  <1>7. ASSUME NEW k \in 0 .. W - 1 PROVE partes[k] = P \o SubSeq(M, f[k] + 1, f[k + 1])
    <2>1. k \in 0 .. NumFragmentos(Len(M), T) - 1
      OBVIOUS
    <2>2. partes[k] = P \o SubSeq(M, k * T + 1, Corte(k + 1, T, D))
      BY <2>1 DEF Pedazos, P, D
    <2>3. k + 1 \in 0 .. W /\ k + 1 \in 1 .. W /\ (k + 1) - 1 = k
      BY <1>4
    <2>4. f[k + 1] = Corte(k + 1, T, D)
      BY <2>3
    <2> HIDE DEF f
    <2>5. f[k] = k * T
      <3>1. ((k + 1) - 1) * T = f[(k + 1) - 1]
        BY <1>6, <2>3 DEF Cortes
      <3> QED
        BY <2>3, <3>1
    <2> QED
      BY <2>2, <2>4, <2>5
  <1> HIDE DEF f, partes
  <1>8. Junto(W, partes)[W] = M /\ \A k \in 0 .. W - 1 : partes[k] \in Seq(Octeto)
    <2>1. Cortes(f, W, T, Len(M))
      BY <1>6 DEF D
    <2>2. SonPedazos(partes, P, M, f, W)
      BY <1>7 DEF SonPedazos
    <2> QED
      BY <1>1, <1>3, <2>1, <2>2, TrozosJuntos
  <1>9. W = 1 => RegistrosDe(partes[0]) = << >>
    <2> SUFFICES ASSUME W = 1 PROVE RegistrosDe(partes[0]) = << >>
      OBVIOUS
    <2>1. 0 \in 0 .. W - 1 /\ 0 + 1 = W
      OBVIOUS
    <2>2. f[0] = 0 /\ f[W] = D
      BY <1>6 DEF Cortes
    <2>3. partes[0] = P \o SubSeq(M, 0 + 1, f[0 + 1])
      BY <1>7, <2>1, <2>2
    <2>4. partes[0] = P \o SubSeq(M, 1, Len(M))
      BY <2>1, <2>2, <2>3 DEF D
    <2>5. partes[0] = P \o M
      BY <1>1, <2>4, SubSeqFull
    <2> QED
      BY <2>5, ListaSinRegistros DEF P
  <1>10. Reunir(W, partes) = Junto(W, partes)[W]
    BY <1>9 DEF Reunir, Junto
  <1> QED
    BY <1>5, <1>8, <1>10 DEF partes

\* CLASSINFO in its packet is one record.
LEMMA ClassInfoReunido ==
    ASSUME NEW id \in Nat, NEW M \in Apps, NEW partes, partes[0] = componerMensajeApp(id, M)
    PROVE  partes[0] \in Seq(Octeto) /\ Reunir(1, partes) = M
  <1> DEFINE apps == <<M>>
             h == Grupos(id, apps)
             uno == 1
  <1>1. apps \in Seq(Apps) /\ Len(apps) = uno /\ apps[uno] = M /\ uno \in 1 .. Len(apps)
        /\ uno - 1 = 0
    OBVIOUS
  <1> HIDE DEF apps
  <1>2. SonGrupos(h, id, apps)
    BY <1>1, GruposEs
  <1>3. Agrupar(id, apps) = h[Len(apps)] \o escribir32(0)
    BY DEF Agrupar, Grupos
  <1> HIDE DEF h, uno
  <1>4. h[uno] = Prefijo(id) \o Registro(id, M)
    BY <1>1, <1>2 DEF SonGrupos
  <1>5. partes[0] = Agrupar(id, apps)
    BY <1>1, <1>3, <1>4 DEF componerMensajeApp
  <1>6. partes[0] \in Seq(Octeto) /\ RegistrosDe(partes[0]) = apps
    BY <1>1, <1>5, RegistrosInversos
  <1>7. apps # << >> /\ apps[1] = M
    BY DEF apps
  <1> QED
    BY <1>6, <1>7 DEF Reunir

-----------------------------------------------------------------------------
(* The packets.                                                            *)

\* The packets ps carry the parts of a message of l bytes and stream z.
Reparto(ps, W, partes, K, l, z) ==
    /\ W \in 1 .. 255 /\ partes \in [0 .. W - 1 -> Seq(Octeto)]
    /\ \A p \in ps : \E k \in 0 .. W - 1 :
          p = [ventana |-> W, ack |-> k, payload |-> cifrar(partes[k], K)]
    /\ EsMensaje(Reunir(W, partes), l, z)

\* What the client has of them.
Recibidos(tr, partes, W) ==
    /\ DOMAIN tr \subseteq 0 .. W - 1
    /\ tr = [a \in DOMAIN tr |-> tr[a]]
    /\ \A a \in DOMAIN tr : tr[a] = partes[a]

LEMMA CabenEnOcteto ==
    ASSUME NEW W \in 1 .. 255, NEW k \in 0 .. W - 1
    PROVE  W % 256 = W /\ k % 256 = k
  OBVIOUS

LEMMA FragmentosEs ==
    ASSUME NEW id, NEW M, NEW T, NEW W, W = NumFragmentos(Len(M), T), W \in 1 .. 255,
           NEW p \in Fragmentos(id, M, T)
    PROVE  \E k \in 0 .. W - 1 : p = [ventana |-> W, ack |-> k, payload |-> Pedazos(id, M, T)[k]]
  <1>1. PICK k \in 0 .. W - 1 :
           p = [ventana |-> W % 256, ack |-> k % 256,
                payload |-> Prefijo(id) \o SubSeq(M, k * T + 1, Corte(k + 1, T, Len(M)))]
    BY DEF Fragmentos, Corte
  <1>2. W % 256 = W /\ k % 256 = k
    BY CabenEnOcteto
  <1>3. Pedazos(id, M, T)[k] = Prefijo(id) \o SubSeq(M, k * T + 1, Corte(k + 1, T, Len(M)))
    BY DEF Pedazos
  <1> QED
    BY <1>1, <1>2, <1>3

Cifradas(id, M, T, K) == {[p EXCEPT !.payload = cifrar(@, K)] : p \in Fragmentos(id, M, T)}

\* A rich list goes out whole.
LEMMA ListaRepartida ==
    ASSUME NEW id \in Nat, NEW l \in Nat, l <= Hasta, NEW z \in Seq(Octeto), 14 + Len(z) <= MaxTrama,
           NEW T \in Nat \ {0}, 14 + Len(z) <= 255 * T, NEW K,
           NEW M, M = MensajeDe(LOGINACCEPTED, 1, l, z)
    PROVE  \E W, partes : Reparto(Cifradas(id, M, T, K), W, partes, K, l, z)
  <1> DEFINE W == NumFragmentos(Len(M), T)
             partes == Pedazos(id, M, T)
             op == LOGINACCEPTED
             uno == 1
             ps == {[p EXCEPT !.payload = cifrar(@, K)] : p \in Fragmentos(id, M, T)}
  <1>1. Len(z) \in Nat /\ Len(z) <= MaxTrama /\ Len(z) <= Hasta
    <2>1. Len(z) \in Nat
      OBVIOUS
    <2> QED
      BY <2>1, SMT DEF MaxTrama, Hasta
  <1>2. op \in Nat /\ uno \in Nat
    BY DEF LOGINACCEPTED
  <1>3. M = MensajeDe(op, uno, l, z)
    OBVIOUS
  <1> HIDE DEF W, partes, op, uno
  <1>4. EsMensaje(M, l, z)
    BY <1>1, <1>2, <1>3, MensajeEs
  <1>5. /\ W \in 1 .. 255 /\ Reunir(W, partes) = M
        /\ \A k \in 0 .. W - 1 : partes[k] \in Seq(Octeto)
    <2>1. W = NumFragmentos(Len(M), T)
      BY DEF W
    <2> QED
      BY <1>1, <1>4, <2>1, ListaReunida DEF partes
  <1>6. partes \in [0 .. W - 1 -> Seq(Octeto)]
    <2>1. partes = [k \in 0 .. W - 1 |-> partes[k]]
      BY DEF partes, Pedazos, W
    <2> QED
      BY <1>5, <2>1
  <1>7. ASSUME NEW q \in ps
        PROVE  \E k \in 0 .. W - 1 : q = [ventana |-> W, ack |-> k, payload |-> cifrar(partes[k], K)]
    <2>1. PICK p \in Fragmentos(id, M, T) : q = [p EXCEPT !.payload = cifrar(@, K)]
      OBVIOUS
    <2>2. W = NumFragmentos(Len(M), T)
      BY DEF W
    <2>3. PICK k \in 0 .. W - 1 : p = [ventana |-> W, ack |-> k, payload |-> partes[k]]
      BY <1>5, <2>2, FragmentosEs DEF partes
    <2>4. q = [ventana |-> W, ack |-> k, payload |-> cifrar(partes[k], K)]
      BY <2>1, <2>3
    <2> QED
      BY <2>4
  <1>8. EsMensaje(Reunir(W, partes), l, z)
    BY <1>4, <1>5
  <1> HIDE DEF ps
  <1>9. Reparto(ps, W, partes, K, l, z)
    BY <1>5, <1>6, <1>7, <1>8 DEF Reparto
  <1> QED
    BY <1>9 DEF ps, Cifradas

\* And so does CLASSINFO.
LEMMA ClassInfoRepartido ==
    ASSUME NEW id \in Nat, NEW l \in Nat, l <= Hasta, NEW z \in Seq(Octeto), 14 + Len(z) <= MaxTrama,
           NEW K, NEW M, M = MensajeDe(CLASSINFO, 0, l, z),
           NEW p, p = [ventana |-> 1, ack |-> 0, payload |-> componerMensajeApp(id, M)]
    PROVE  \E W, partes : Reparto({[p EXCEPT !.payload = cifrar(@, K)]}, W, partes, K, l, z)
  <1> DEFINE y == componerMensajeApp(id, M)
             partes == [k \in 0 .. 0 |-> y]
             op == CLASSINFO
             cero == 0
             q == [p EXCEPT !.payload = cifrar(@, K)]
  <1>1. Len(z) \in Nat /\ Len(z) <= Hasta
    <2>1. Len(z) \in Nat
      OBVIOUS
    <2> QED
      BY <2>1, SMT DEF MaxTrama, Hasta
  <1>2. op \in Nat /\ cero \in Nat
    BY DEF CLASSINFO
  <1>3. M = MensajeDe(op, cero, l, z)
    OBVIOUS
  <1> HIDE DEF op, cero, y
  <1>4. EsMensaje(M, l, z)
    BY <1>1, <1>2, <1>3, MensajeEs
  <1>5. M \in Apps
    <2>1. M \in Seq(Octeto) /\ Len(M) = 14 + Len(z)
      BY <1>4 DEF EsMensaje
    <2> QED
      BY <2>1 DEF Apps
  <1>6. partes[0] = y
    OBVIOUS
  <1>7. partes[0] \in Seq(Octeto) /\ Reunir(1, partes) = M
    <2>1. partes[0] = componerMensajeApp(id, M)
      BY <1>6 DEF y
    <2> HIDE DEF partes
    <2> QED
      BY <1>5, <2>1, ClassInfoReunido
  <1>8. q = [ventana |-> 1, ack |-> 0, payload |-> cifrar(y, K)]
    BY DEF y
  <1>9. 0 .. 1 - 1 = {0} /\ 0 .. 0 = {0} /\ 1 \in 1 .. 255
    OBVIOUS
  <1>10. partes \in [0 .. 1 - 1 -> Seq(Octeto)]
    BY <1>6, <1>7, <1>9
  <1>11. \A r \in {q} : \E k \in 0 .. 1 - 1 : r = [ventana |-> 1, ack |-> k, payload |-> cifrar(partes[k], K)]
    <2> HIDE DEF q, partes
    <2> QED
      BY <1>6, <1>8, <1>9
  <1> HIDE DEF q, partes
  <1>12. Reparto({q}, 1, partes, K, l, z)
    BY <1>4, <1>7, <1>9, <1>10, <1>11 DEF Reparto
  <1> QED
    BY <1>12 DEF q

-----------------------------------------------------------------------------
(* From the stream to the message that the client makes of its packets.    *)

LEMMA EnteroFlujo ==
    ASSUME NEW en, NEW fs, NEW e, NEW l, NEW z, Entero(en, fs, e, l, z), Bytes(en) \in Seq(Octeto)
    PROVE  EsFlujo(z, e) /\ z[1] = 120 /\ z[2] = 1 /\ BitsBajos(z, 16, 3) = 3
  <1> DEFINE s == Escrito(e)
             t == BytesAdler(Bytes(en))
             c == Cabecera
             cs == c \o s
  <1>1. e \in Bits /\ Len(e) % 8 = 0 /\ 3 <= Len(e) /\ Baja(e, 0, 3, 3) /\ z = cs \o t
    BY DEF Entero
  <1>2. s \in Seq(Octeto)
    BY <1>1, EscritoEs
  <1>3. t \in Seq(Octeto)
    BY AdlerBytes
  <1>4. c \in Seq(Octeto) /\ Len(c) = 2 /\ c[1] = 120 /\ c[2] = 1
    BY DEF Cabecera, Octeto
  <1>5. EsFlujo(z, e)
    BY <1>1, <1>3, <1>4 DEF EsFlujo
  <1> HIDE DEF s, t, c
  <1>6. cs \in Seq(Octeto) /\ Len(cs) = 2 + Len(s) /\ cs[1] = 120 /\ cs[2] = 1 /\ Len(s) \in Nat
    <2>1. c \in Seq(Octeto) /\ s \in Seq(Octeto)
      BY <1>2, <1>4
    <2>2. cs \in Seq(Octeto) /\ Len(cs) = Len(c) + Len(s) /\ \A p \in 1 .. Len(c) : cs[p] = c[p]
      BY <2>1, PegadaOctetos
    <2>3. Len(s) \in Nat
      BY <1>2
    <2> HIDE DEF cs
    <2> QED
      BY <1>4, <2>2, <2>3
  <1> HIDE DEF cs
  <1>7. z[1] = 120 /\ z[2] = 1
    <2>1. cs \in Seq(Octeto) /\ t \in Seq(Octeto)
      BY <1>3, <1>6
    <2>2. \A p \in 1 .. Len(cs) : (cs \o t)[p] = cs[p]
      BY <2>1, PegadaOctetos
    <2>3. 1 \in 1 .. Len(cs) /\ 2 \in 1 .. Len(cs)
      BY <1>6
    <2> QED
      BY <1>1, <1>6, <2>2, <2>3
  <1>8. BitsBajos(z, 16, 3) = 3
    <2> DEFINE a == 0
               w == 3
    <2>1. a \in Nat /\ w \in Nat /\ w \in 0 .. 13 /\ a + w <= Len(e) /\ Baja(e, a, w, w)
          /\ 16 + a = 16 /\ w < 2^w
      BY <1>1, Potencias
    <2> HIDE DEF a, w
    <2>2. BitsBajos(z, 16 + a, w) = w
      BY <1>5, <2>1, LeerBaja
    <2>3. 16 + a = 16
      BY <2>1
    <2> QED
      BY <2>2, <2>3 DEF w
  <1> QED
    BY <1>5, <1>7, <1>8

\* What is known of the stream once it is made.
Medida(l, z) ==
    /\ l \in Nat /\ l <= Hasta /\ z \in Seq(Octeto)
    /\ 14 + Len(z) <= MaxTrama /\ 14 + Len(z) <= 255 * Trozo

LEMMA MedidaEs == InvFlujo /\ tramo \notin {"pedir", "comprimir"} => Medida(n, salida)
  <1> SUFFICES ASSUME InvFlujo, tramo \notin {"pedir", "comprimir"} PROVE Medida(n, salida)
    OBVIOUS
  <1>1. Entero(entrada, fichas, escritor, n, salida) /\ InvLZ
    BY DEF InvFlujo, InvEscritor
  <1>2. Bytes(entrada) \in Seq(Octeto) /\ Len(Bytes(entrada)) = n /\ n \in Nat
    BY <1>1, BytesEs
  <1>3. salida \in Seq(Octeto) /\ Len(salida) <= n + n \div 8 + 10
    BY <1>1, <1>2, SalidaMedida
  <1>4. Cardinality(DOMAIN entrada) = n
    <2> DEFINE c == Cardinality(DOMAIN entrada)
    <2>1. entrada \in Entradas
      BY <1>1 DEF InvLZ, InvCompresor, TypeOK
    <2>2. c \in Nat
      BY <2>1, CompresorAssumption, FS_CardinalityType DEF CompresorAssumption
    <2>3. Bytes(entrada) = [j \in 1 .. c |-> entrada[j - 1]]
      BY DEF Bytes
    <2> HIDE DEF c
    <2>4. Len(Bytes(entrada)) = c
      BY <2>2, <2>3
    <2> QED
      BY <1>2, <2>4 DEF c
  <1>5. n + n \div 8 + 24 <= 255 * Trozo /\ n + n \div 8 <= 65000
    <2>1. entrada \in Entradas
      BY <1>1 DEF InvLZ, InvCompresor, TypeOK
    <2> QED
      BY <1>4, <2>1, EntradasAssumption DEF EntradasAssumption
  <1>6. Trozo \in Nat
    BY EntradasAssumption DEF EntradasAssumption
  <1> DEFINE x == n \div 8
             y == Len(salida)
             w == 255 * Trozo
  <1>7. x \in Nat /\ y \in Nat /\ w \in Nat /\ n \in Nat
    BY <1>2, <1>3, <1>6
  <1>8. n + x + 24 <= w /\ n + x <= 65000 /\ y <= n + x + 10
    BY <1>3, <1>5
  <1> HIDE DEF x, y, w
  <1>9. 14 + y <= w
    BY <1>7, <1>8
  <1>10. 14 + y <= MaxTrama /\ n <= Hasta
    BY <1>7, <1>8, SMT DEF MaxTrama, Hasta
  <1> QED
    BY <1>3, <1>7, <1>9, <1>10 DEF Medida, y, w

\* The packets and the client while the table is on its way.
InvEntrega ==
    /\ tramo \in {"pedir", "comprimir", "enviar"} => trozos = << >>
    /\ tramo \in {"pedir", "comprimir", "enviar", "recibir"} => recibida = << >>
    /\ tramo = "recibir" =>
          \E W, partes : /\ Reparto(paquetes, W, partes, caso.clave, n, salida)
                         /\ Recibidos(trozos, partes, W)

LEMMA NadaRecibido ==
    ASSUME NEW W \in 1 .. 255, NEW partes
    PROVE  Recibidos(<< >>, partes, W)
  <1>1. DOMAIN << >> = {}
    OBVIOUS
  <1>2. << >> = [a \in {} |-> << >>[a]]
    OBVIOUS
  <1> QED
    BY <1>1, <1>2 DEF Recibidos

LEMMA EnviarEntrega ==
    ASSUME InvFlujo, InvCaso, InvEntrega, EnviarListaRica \/ EnviarClassInfo
    PROVE  InvEntrega'
  <1> DEFINE K == caso.clave
             id == caso.id
  <1>1. tramo = "enviar" /\ tramo' = "recibir" /\ UNCHANGED <<caso, n, salida, trozos, recibida>>
    BY DEF EnviarListaRica, EnviarClassInfo, varsCompresor, cliente
  <1>2. trozos = << >> /\ recibida = << >>
    BY <1>1 DEF InvEntrega
  <1>3. id \in Nat
    <2>1. caso \in Casos
      BY DEF InvCaso
    <2> QED
      BY <2>1, CasosEs
  <1>4. /\ n \in Nat /\ n <= Hasta /\ salida \in Seq(Octeto)
        /\ 14 + Len(salida) <= MaxTrama /\ 14 + Len(salida) <= 255 * Trozo
    BY <1>1, MedidaEs DEF Medida
  <1>5. \E W, partes : Reparto(paquetes', W, partes, K, n, salida)
    <2>1. CASE EnviarListaRica
      <3> DEFINE M == MensajeDe(LOGINACCEPTED, 1, n, salida)
      <3>1. Mensaje(LOGINACCEPTED, 1) = M
        BY DEF Mensaje, MensajeDe
      <3>2. paquetes' = {[p EXCEPT !.payload = cifrar(@, K)] : p \in Fragmentos(id, M, Trozo)}
        BY <2>1, <3>1 DEF EnviarListaRica, Cifrada
      <3>3. Trozo \in Nat \ {0}
        BY EntradasAssumption DEF EntradasAssumption
      <3>4. paquetes' = Cifradas(id, M, Trozo, K)
        BY <3>2 DEF Cifradas
      <3> HIDE DEF K, id
      <3> QED
        BY <1>3, <1>4, <3>3, <3>4, ListaRepartida
    <2>2. CASE EnviarClassInfo
      <3> DEFINE M == MensajeDe(CLASSINFO, 0, n, salida)
                 p == [ventana |-> 1, ack |-> 0, payload |-> componerMensajeApp(id, M)]
      <3>1. Mensaje(CLASSINFO, 0) = M
        BY DEF Mensaje, MensajeDe
      <3>2. paquetes' = {[p EXCEPT !.payload = cifrar(@, K)]}
        BY <2>2, <3>1 DEF EnviarClassInfo, Cifrada
      <3> HIDE DEF K, id
      <3>3. \E W, partes : Reparto({[p EXCEPT !.payload = cifrar(@, K)]}, W, partes, K, n, salida)
        BY <1>3, <1>4, ClassInfoRepartido
      <3> QED
        BY <3>2, <3>3
    <2> QED
      BY <2>1, <2>2
  <1>6. PICK W, partes : Reparto(paquetes', W, partes, K, n, salida)
    BY <1>5
  <1>7. W \in 1 .. 255
    BY <1>6 DEF Reparto
  <1>8. Recibidos(trozos', partes, W)
    BY <1>1, <1>2, <1>7, NadaRecibido
  <1>9. Reparto(paquetes', W, partes, caso'.clave, n', salida')
    BY <1>1, <1>6
  <1> QED
    BY <1>1, <1>2, <1>8, <1>9 DEF InvEntrega

-----------------------------------------------------------------------------
(* The client.                                                             *)

FinFicha(fs, k) == IF k = 0 THEN 0 ELSE fs[k].en + fs[k].lon

\* The first k tokens are inflated: the next begins at bit lu, and rec has the
\* bytes that they tell.
EnFicha(en, fs, e, ini, k, lu, rec) ==
    /\ EsCamino(en, fs, e, ini) /\ Final(ini) + 7 <= Len(e) /\ Alta(e, Final(ini), 0, 7)
    /\ k \in 0 .. Len(fs) /\ lu = 16 + ini[k + 1]
    /\ rec = SubSeq(Bytes(en), 1, FinFicha(fs, k))

Leyendo(en, fs, e, lu, rec) == \E ini, k : EnFicha(en, fs, e, ini, k, lu, rec)

LEMMA EmpiezaLeyendo ==
    ASSUME NEW en, NEW fs \in Seq([en : Nat, lon : Nat, dist : Nat]), NEW e, NEW l, NEW z, Entero(en, fs, e, l, z)
    PROVE  Leyendo(en, fs, e, 19, << >>)
  <1>1. PICK ini : EsCamino(en, fs, e, ini) /\ Final(ini) + 7 <= Len(e) /\ Alta(e, Final(ini), 0, 7)
    BY DEF Entero
  <1>2. ini[0 + 1] = 3
    BY <1>1 DEF EsCamino
  <1>3. 0 \in 0 .. Len(fs)
    OBVIOUS
  <1>4. SubSeq(Bytes(en), 1, FinFicha(fs, 0)) = << >>
    <2> DEFINE uno == 1
               cero == 0
    <2>1. uno \in Int /\ cero \in Int /\ cero < uno /\ FinFicha(fs, 0) = cero
      BY DEF FinFicha
    <2> HIDE DEF uno, cero
    <2>2. SubSeq(Bytes(en), uno, cero) = << >>
      BY <2>1, SubSeqEmpty
    <2> QED
      BY <2>1, <2>2 DEF uno
  <1>5. EnFicha(en, fs, e, ini, 0, 19, << >>)
    <2>1. 19 = 16 + ini[0 + 1]
      BY <1>2
    <2> QED
      BY <1>1, <1>3, <1>4, <2>1 DEF EnFicha
  <1> QED
    BY <1>5 DEF Leyendo

LEMMA DeUnoAOcteto ==
    ASSUME NEW W \in 1 .. 255
    PROVE  W - 1 \in Int /\ ~ (0 > W - 1) /\ (W - 1) - 0 + 1 = W
  OBVIOUS

\* One more packet.
LEMMA RecibirUno ==
    ASSUME NEW W, NEW partes, NEW ps, NEW K, NEW l, NEW z, Reparto(ps, W, partes, K, l, z), K \in Clave,
           NEW tr, Recibidos(tr, partes, W), NEW p \in ps,
           NEW tr2, tr2 = [a \in DOMAIN tr \cup {p.ack} |->
                              IF a = p.ack THEN descifrar(p.payload, K) ELSE tr[a]]
    PROVE  /\ Reparto(ps \ {p}, W, partes, K, l, z) /\ Recibidos(tr2, partes, W)
           /\ p.ventana = W /\ W \in 1 .. 255
           /\ Cardinality(DOMAIN tr2) = W => tr2 = partes
  <1>1. PICK k \in 0 .. W - 1 : p = [ventana |-> W, ack |-> k, payload |-> cifrar(partes[k], K)]
    BY DEF Reparto
  <1>2. p.ventana = W /\ p.ack = k /\ p.payload = cifrar(partes[k], K)
    BY <1>1
  <1>3. W \in 1 .. 255 /\ partes \in [0 .. W - 1 -> Seq(Octeto)]
    BY DEF Reparto
  <1>4. descifrar(p.payload, K) = partes[k]
    <2>1. partes[k] \in Seq(Octeto)
      BY <1>3
    <2> QED
      BY <1>2, <2>1, DescifrarEs
  <1>5. tr2 = [a \in DOMAIN tr \cup {k} |-> IF a = k THEN partes[k] ELSE tr[a]]
    BY <1>2, <1>4
  <1>6. /\ DOMAIN tr2 = DOMAIN tr \cup {k}
        /\ \A a \in DOMAIN tr2 : tr2[a] = IF a = k THEN partes[k] ELSE tr[a]
        /\ tr2 = [a \in DOMAIN tr2 |-> tr2[a]]
    BY <1>5
  <1>7. DOMAIN tr \subseteq 0 .. W - 1 /\ \A a \in DOMAIN tr : tr[a] = partes[a]
    BY DEF Recibidos
  <1>8. DOMAIN tr2 \subseteq 0 .. W - 1 /\ \A a \in DOMAIN tr2 : tr2[a] = partes[a]
    BY <1>6, <1>7
  <1>9. Recibidos(tr2, partes, W)
    BY <1>6, <1>8 DEF Recibidos
  <1>10. Reparto(ps \ {p}, W, partes, K, l, z)
    BY DEF Reparto
  <1>11. ASSUME Cardinality(DOMAIN tr2) = W PROVE tr2 = partes
    <2> DEFINE S == 0 .. W - 1
               T == DOMAIN tr2
    <2>1. IsFiniteSet(S) /\ Cardinality(S) = W
      <3> DEFINE a == 0
                 b == W - 1
      <3>1. a \in Int /\ b \in Int /\ ~ (a > b) /\ b - a + 1 = W
        <4>1. W \in 1 .. 255
          BY <1>3
        <4>2. b \in Int /\ ~ (0 > b) /\ b - 0 + 1 = W
          BY <4>1, DeUnoAOcteto
        <4> HIDE DEF b
        <4> QED
          BY <4>2
      <3> HIDE DEF a, b
      <3>2. IsFiniteSet(a .. b) /\ Cardinality(a .. b) = b - a + 1
        BY <3>1, FS_Interval
      <3> QED
        BY <3>1, <3>2 DEF a, b
    <2>2. T \in SUBSET S
      BY <1>8
    <2> HIDE DEF S, T
    <2>3. S = T
      BY <1>11, <2>1, <2>2, FS_Subset DEF T
    <2>4. DOMAIN tr2 = 0 .. W - 1
      BY <2>3 DEF S, T
    <2> QED
      BY <1>3, <1>6, <1>8, <2>4
  <1> QED
    BY <1>2, <1>3, <1>9, <1>10, <1>11

\* The whole message, with nothing wrong in its header.
LEMMA RecibirEntrega ==
    ASSUME InvFlujo, InvCaso, InvEntrega, NEW p \in paquetes, ClienteRecibe(p)
    PROVE  /\ InvEntrega'
           /\ \/ tramo' = "recibir"
              \/ /\ tramo' = "inflar" /\ EsMensaje(mensaje', n, salida)
                 /\ Leyendo(entrada, fichas, escritor, lugar', recibida')
  <1> DEFINE K == caso.clave
  <1>1. /\ tramo = "recibir" /\ UNCHANGED <<caso, n, salida, recibida, entrada, fichas, escritor>>
        /\ paquetes' = paquetes \ {p}
        /\ trozos' = [a \in DOMAIN trozos \cup {p.ack} |->
                         IF a = p.ack THEN descifrar(p.payload, K) ELSE trozos[a]]
    BY DEF ClienteRecibe, varsCompresor
  <1>2. recibida = << >>
    BY <1>1 DEF InvEntrega
  <1>3. PICK W, partes : Reparto(paquetes, W, partes, K, n, salida) /\ Recibidos(trozos, partes, W)
    BY <1>1 DEF InvEntrega
  <1>4. K \in Clave
    <2>1. caso \in Casos
      BY DEF InvCaso
    <2> QED
      BY <2>1, CasosEs
  <1> HIDE DEF K
  <1>5. /\ Reparto(paquetes', W, partes, K, n, salida) /\ Recibidos(trozos', partes, W)
        /\ p.ventana = W /\ W \in 1 .. 255
        /\ Cardinality(DOMAIN trozos') = W => trozos' = partes
    BY <1>1, <1>3, <1>4, RecibirUno
  <1>6. Reparto(paquetes', W, partes, caso'.clave, n', salida')
    BY <1>1, <1>5 DEF K
  <1>7. CASE Cardinality(DOMAIN trozos') # W
    <2>1. tramo' = "recibir"
      BY <1>1, <1>5, <1>7 DEF ClienteRecibe
    <2> QED
      BY <1>1, <1>2, <1>5, <1>6, <2>1 DEF InvEntrega
  <1>8. CASE Cardinality(DOMAIN trozos') = W
    <2>1. mensaje' = Reunir(W, partes) /\ lugar' = 19
      BY <1>5, <1>8 DEF ClienteRecibe
    <2>2. EsMensaje(mensaje', n, salida)
      BY <1>5, <2>1 DEF Reparto
    <2>3. Flujo(mensaje') = salida
      BY <2>2 DEF EsMensaje
    <2>4. Entero(entrada, fichas, escritor, n, salida) /\ Bytes(entrada) \in Seq(Octeto)
      BY <1>1, BytesEs DEF InvFlujo, InvEscritor
    <2>5. salida[1] = 120 /\ salida[2] = 1 /\ BitsBajos(salida, 16, 3) = 3
      BY <2>4, EnteroFlujo
    <2>6. 256 * salida[1] + salida[2] = 30721
      BY <2>5
    <2>7. tramo' = "inflar"
      <3>1. tramo' = IF 256 * Flujo(mensaje')[1] + Flujo(mensaje')[2] = 30721 /\ BitsBajos(Flujo(mensaje'), 16, 3) = 3
                     THEN "inflar" ELSE "rota"
        BY <1>5, <1>8 DEF ClienteRecibe
      <3> QED
        BY <2>3, <2>5, <2>6, <3>1
    <2>8. Leyendo(entrada, fichas, escritor, 19, << >>)
      <3>1. fichas \in Seq([en : Nat, lon : Nat, dist : Nat])
        BY DEF InvFlujo, InvLZ, InvCompresor, TypeOK
      <3> QED
        BY <2>4, <3>1, EmpiezaLeyendo
    <2>9. Leyendo(entrada, fichas, escritor, lugar', recibida')
      BY <1>1, <1>2, <2>1, <2>8
    <2>10. InvEntrega'
      BY <2>7 DEF InvEntrega
    <2> QED
      BY <2>2, <2>7, <2>9, <2>10
  <1> QED
    BY <1>7, <1>8

\* From p up to q, every byte is the one dist before it.
Iguala(en, p, q, dist) == \A j \in p .. q - 1 : en[j] = en[j - dist]

\* The tokens fs tell the l bytes of en.
Exacta(en, l, fs) ==
    /\ fs \in Seq([en : Nat, lon : Nat, dist : Nat]) /\ l \in Nat
    /\ FinFicha(fs, Len(fs)) = l
    /\ \A k \in 1 .. Len(fs) :
          /\ fs[k].en = FinFicha(fs, k - 1)
          /\ fs[k].dist > 0 =>
                /\ fs[k].dist <= fs[k].en
                /\ Iguala(en, fs[k].en, fs[k].en + fs[k].lon, fs[k].dist)

LEMMA FinFichaCabe ==
    ASSUME NEW en, NEW l, NEW fs, Exacta(en, l, fs)
    PROVE  \A k \in 0 .. Len(fs) : FinFicha(fs, k) \in 0 .. l
  <1> DEFINE N == Len(fs)
             S == [en : Nat, lon : Nat, dist : Nat]
             U == {j \in 0 .. N : FinFicha(fs, N - j) \in 0 .. l}
  <1>1. fs \in Seq(S) /\ N \in Nat /\ l \in Nat /\ FinFicha(fs, N) = l
    BY DEF Exacta
  <1>2. 0 \in U
    <2>1. N - 0 = N /\ l \in 0 .. l /\ 0 \in 0 .. N
      BY <1>1
    <2> QED
      BY <1>1, <2>1
  <1>3. ASSUME NEW j \in 0 .. N - 1, j \in U PROVE j + 1 \in U
    <2> DEFINE k == N - j
    <2>1. k \in 1 .. N /\ k - 1 = N - (j + 1) /\ j + 1 \in 0 .. N /\ k # 0
      BY <1>1
    <2>2. FinFicha(fs, k) \in 0 .. l
      BY <1>3
    <2> HIDE DEF k
    <2>3. fs[k] \in S
      <3> HIDE DEF S
      <3> QED
        BY <1>1, <2>1, ElementOfSeq
    <2>4. FinFicha(fs, k) = fs[k].en + fs[k].lon
      BY <2>1 DEF FinFicha
    <2>5. fs[k].en = FinFicha(fs, k - 1)
      BY <2>1 DEF Exacta
    <2>6. FinFicha(fs, k - 1) \in 0 .. l
      <3> DEFINE x == fs[k].en
                 y == fs[k].lon
      <3>1. x \in Nat /\ y \in Nat
        BY <2>3
      <3>2. x + y \in 0 .. l
        BY <2>2, <2>4
      <3> HIDE DEF x, y
      <3>3. x \in 0 .. l
        BY <1>1, <3>1, <3>2
      <3> QED
        BY <2>5, <3>3 DEF x
    <2> QED
      BY <2>1, <2>6
  <1>4. 0 .. N \subseteq U
    <2> HIDE DEF U, N
    <2> QED
      BY <1>1, <1>2, <1>3, Induccion
  <1>5. ASSUME NEW k \in 0 .. N PROVE FinFicha(fs, k) \in 0 .. l
    <2>1. N - k \in 0 .. N /\ N - (N - k) = k
      BY <1>1
    <2>2. N - k \in U
      BY <1>4, <2>1
    <2> QED
      BY <2>1, <2>2
  <1> QED
    BY <1>5

LEMMA UnCociente ==
    ASSUME NEW d \in Nat \ {0}, NEW q \in Nat, NEW u \in Nat, NEW r \in 0 .. d - 1, NEW t \in 0 .. d - 1,
           q * d + r = u * d + t, q < u
    PROVE  FALSE
  <1> DEFINE v == q + 1
             x == q * d
             y == u * d
             w == v * d
  <1>1. v \in Nat /\ v <= u
    OBVIOUS
  <1>2. x \in Nat /\ w = x + d
    BY Producto
  <1>3. y \in Nat /\ w <= y
    <2> HIDE DEF v
    <2> QED
      BY <1>1, Producto
  <1>4. x + r = y + t
    OBVIOUS
  <1> HIDE DEF x, y, w
  <1> QED
    BY <1>2, <1>3, <1>4

LEMMA RestoMenos ==
    ASSUME NEW d \in Nat \ {0}, NEW j \in Nat
    PROVE  /\ j % d \in 0 .. d - 1
           /\ j < d => j % d = j
           /\ j >= d => (j - d) % d = j % d /\ j - d \in Nat
  <1> DEFINE q == j \div d
             r == j % d
  <1>1. q \in Nat /\ r \in 0 .. d - 1 /\ j = q * d + r
    OBVIOUS
  <1>2. ASSUME j < d PROVE r = j
    BY <1>2
  <1>3. ASSUME j >= d PROVE (j - d) % d = r /\ j - d \in Nat
    <2> DEFINE x == j - d
               u == x \div d
               t == x % d
               v == u + 1
               y == u * d
               w == v * d
               z == q * d
    <2>1. x \in Nat
      BY <1>3
    <2> HIDE DEF x
    <2>2. u \in Nat /\ t \in 0 .. d - 1 /\ x = u * d + t
      BY <2>1
    <2> HIDE DEF u, t, q, r
    <2>3. y \in Nat /\ w = y + d /\ v \in Nat
      BY <2>2, Producto
    <2>4. z \in Nat /\ j = z + r /\ x = y + t
      BY <1>1, <2>2, Producto
    <2> HIDE DEF v, y, w
    <2>5. x = j - d
      BY DEF x
    <2> HIDE DEF z
    <2>6. z + r = w + t
      BY <1>1, <2>2, <2>3, <2>4, <2>5
    <2>7. q * d + r = v * d + t /\ v * d + t = q * d + r
      BY <2>6 DEF z, w
    <2>8. ~ (q < v)
      BY <1>1, <2>2, <2>3, <2>7, UnCociente
    <2>9. ~ (v < q)
      BY <1>1, <2>2, <2>3, <2>7, UnCociente
    <2>10. q = v
      BY <1>1, <2>3, <2>8, <2>9
    <2>11. z = w
      BY <2>10 DEF z, w
    <2>12. r = t
      BY <1>1, <2>2, <2>3, <2>4, <2>6, <2>11
    <2> QED
      BY <2>1, <2>12 DEF x, t
  <1> QED
    BY <1>1, <1>2, <1>3

DelPeriodo(d, a, l, dist) == \A j \in 0 .. l - 1 : d[a + 1 + j] = d[a + 1 - dist + (j % dist)]
Repite(d, a, l, dist) == \A j \in 0 .. l - 1 : d[a + 1 + j] = d[a + 1 + j - dist]

\* Bytes that repeat those dist before them repeat the first dist.
LEMMA Periodo ==
    ASSUME NEW d, NEW a \in Nat, NEW l \in Nat, NEW dist \in Nat \ {0},
           Repite(d, a, l, dist)
    PROVE  DelPeriodo(d, a, l, dist)
  <1> DEFINE Bien(j) == d[a + 1 + j] = d[a + 1 - dist + (j % dist)]
             U == {k \in 0 .. l : \A j \in 0 .. k - 1 : Bien(j)}
  <1>1. 0 \in U
    <2>1. 0 .. 0 - 1 = {} /\ 0 \in 0 .. l
      OBVIOUS
    <2> HIDE DEF Bien
    <2> QED
      BY <2>1
  <1>2. ASSUME NEW k \in 0 .. l - 1, k \in U PROVE k + 1 \in U
    <2>1. k + 1 \in 0 .. l /\ k \in Nat
      OBVIOUS
    <2>2. \A j \in 0 .. k - 1 : Bien(j)
      BY <1>2
    <2>3. d[a + 1 + k] = d[a + 1 + k - dist]
      BY DEF Repite
    <2>4. CASE k < dist
      <3>1. k % dist = k
        BY <2>1, <2>4, RestoMenos
      <3>2. a + 1 + k - dist = a + 1 - dist + k
        BY <2>1
      <3>3. Bien(k)
        BY <2>3, <3>1, <3>2
      <3>4. \A j \in 0 .. (k + 1) - 1 : Bien(j)
        <4> HIDE DEF Bien
        <4>1. \A j \in 0 .. (k + 1) - 1 : j = k \/ j \in 0 .. k - 1
          BY <2>1
        <4> QED
          BY <2>2, <3>3, <4>1
      <3> HIDE DEF Bien
      <3> QED
        BY <2>1, <3>4
    <2>5. CASE k >= dist
      <3>1. (k - dist) % dist = k % dist /\ k - dist \in Nat
        BY <2>1, <2>5, RestoMenos
      <3>2. k - dist \in 0 .. k - 1
        BY <2>1, <3>1
      <3>3. Bien(k - dist)
        <4> HIDE DEF Bien
        <4> QED
          BY <2>2, <3>2
      <3>4. a + 1 + (k - dist) = a + 1 + k - dist
        BY <2>1
      <3>5. Bien(k)
        BY <2>3, <3>1, <3>3, <3>4
      <3>6. \A j \in 0 .. (k + 1) - 1 : Bien(j)
        <4> HIDE DEF Bien
        <4>1. \A j \in 0 .. (k + 1) - 1 : j = k \/ j \in 0 .. k - 1
          BY <2>1
        <4> QED
          BY <2>2, <3>5, <4>1
      <3> HIDE DEF Bien
      <3> QED
        BY <2>1, <3>6
    <2> QED
      BY <2>1, <2>4, <2>5
  <1>3. l \in U
    <2> HIDE DEF U
    <2>1. 0 .. l \subseteq U
      BY <1>1, <1>2, Induccion
    <2> QED
      BY <2>1
  <1> QED
    BY <1>3 DEF DelPeriodo

\* inflate's copy gives the bytes that the repetition stands for, also when it
\* reads what it has just written.
LEMMA CopiarEs ==
    ASSUME NEW d \in Seq(Octeto), NEW a \in Nat, NEW l \in Nat, NEW dist \in 1 .. a,
           NEW b, b = a + l, b <= Len(d), Repite(d, a, l, dist)
    PROVE  Copiar(SubSeq(d, 1, a), l, dist) = SubSeq(d, 1, b)
  <1> DEFINE s == SubSeq(d, 1, a)
             w == SubSeq(d, 1, b)
             t == [k \in 1 .. l |-> s[Len(s) - dist + 1 + ((k - 1) % dist)]]
             cero == 0
  <1>1. cero \in Nat /\ cero + 1 = 1 /\ cero <= a /\ a <= Len(d) /\ b - cero = b /\ a - cero = a
        /\ b \in Nat /\ cero <= b
    OBVIOUS
  <1>2. /\ s \in Seq(Octeto) /\ Len(s) = a /\ \A j \in 1 .. a : s[j] = d[j]
    <2> HIDE DEF cero
    <2>1. /\ SubSeq(d, cero + 1, a) \in Seq(Octeto) /\ Len(SubSeq(d, cero + 1, a)) = a - cero
          /\ \A j \in 1 .. a - cero : SubSeq(d, cero + 1, a)[j] = d[cero + j]
      BY <1>1, Trozos
    <2> QED
      BY <1>1, <2>1 DEF cero
  <1>3. /\ w \in Seq(Octeto) /\ Len(w) = b /\ \A j \in 1 .. b : w[j] = d[j]
    <2> HIDE DEF cero
    <2>1. /\ SubSeq(d, cero + 1, b) \in Seq(Octeto) /\ Len(SubSeq(d, cero + 1, b)) = b - cero
          /\ \A j \in 1 .. b - cero : SubSeq(d, cero + 1, b)[j] = d[cero + j]
      BY <1>1, Trozos
    <2> QED
      BY <1>1, <2>1 DEF cero
  <1>4. dist \in Nat \ {0} /\ dist <= a
    OBVIOUS
  <1>5. \A j \in 0 .. l - 1 : d[a + 1 + j] = d[a + 1 - dist + (j % dist)]
    <2>1. DelPeriodo(d, a, l, dist)
      BY <1>4, Periodo
    <2> QED
      BY <2>1 DEF DelPeriodo
  <1> HIDE DEF s, w
  <1>6. ASSUME NEW k \in 1 .. l PROVE t[k] = d[a + k] /\ t[k] \in Octeto
    <2> DEFINE j == k - 1
               r == j % dist
               p == a - dist + 1 + r
    <2>1. j \in 0 .. l - 1 /\ j \in Nat /\ a + 1 + j = a + k
      OBVIOUS
    <2>2. d[a + k] = d[a + 1 - dist + r]
      BY <1>5, <2>1
    <2> HIDE DEF j
    <2>3. r \in 0 .. dist - 1
      BY <1>4, <2>1, RestoMenos
    <2>4. t[k] = s[Len(s) - dist + 1 + r]
      BY DEF j
    <2> HIDE DEF r, t
    <2>5. p \in 1 .. a /\ p = a + 1 - dist + r
      BY <1>4, <2>3
    <2> HIDE DEF p
    <2>6. t[k] = s[p]
      BY <1>2, <2>4 DEF p
    <2>7. s[p] = d[p] /\ s[p] \in Octeto
      <3>1. s[p] = d[p]
        BY <1>2, <2>5
      <3>2. p \in 1 .. Len(s)
        BY <1>2, <2>5
      <3> QED
        BY <1>2, <3>1, <3>2, ElementOfSeq
    <2> QED
      BY <2>2, <2>5, <2>6, <2>7
  <1>7. t \in Seq(Octeto) /\ Len(t) = l
    <2>1. t = [k \in 1 .. l |-> t[k]]
      OBVIOUS
    <2> HIDE DEF t
    <2>2. t \in [1 .. l -> Octeto]
      BY <1>6, <2>1
    <2> QED
      BY <2>2
  <1>8. Copiar(s, l, dist) = s \o t
    BY DEF Copiar
  <1> HIDE DEF t
  <1>9. /\ s \o t \in Seq(Octeto) /\ Len(s \o t) = a + l
        /\ \A p \in 1 .. a : (s \o t)[p] = s[p]
        /\ \A p \in 1 .. l : (s \o t)[a + p] = t[p]
    <2>1. s \in Seq(Octeto) /\ t \in Seq(Octeto)
      BY <1>2, <1>7
    <2> QED
      BY <1>2, <1>7, <2>1, PegadaOctetos
  <1>10. ASSUME NEW p \in 1 .. b PROVE (s \o t)[p] = w[p]
    <2>1. CASE p <= a
      <3>1. p \in 1 .. a
        BY <2>1
      <3> QED
        BY <1>2, <1>3, <1>9, <3>1
    <2>2. CASE ~ (p <= a)
      <3>1. p - a \in 1 .. l /\ a + (p - a) = p
        BY <2>2
      <3>2. (s \o t)[p] = t[p - a] /\ t[p - a] = d[p]
        BY <1>6, <1>9, <3>1
      <3> QED
        BY <1>3, <3>2
    <2> QED
      BY <2>1, <2>2
  <1>11. s \o t = w
    <2> DEFINE u == s \o t
    <2>1. u \in Seq(Octeto) /\ Len(u) = b /\ \A p \in 1 .. b : u[p] = w[p]
      BY <1>9, <1>10
    <2> HIDE DEF u
    <2> QED
      BY <1>3, <2>1 DEF u
  <1> QED
    BY <1>8, <1>11 DEF s, w

\* The bytes of the buffer.
SonBytes(d, en, l) ==
    d \in Seq(Octeto) /\ Len(d) = l /\ \A j \in 1 .. l : d[j] = en[j - 1]

HaySimbolo(e, a, sym) ==
    a \in Nat /\ sym \in 0 .. 287 /\ a + Ancho(sym) <= Len(e) /\ Alta(e, a, Valor(sym), Ancho(sym))

LEMMA LeerHaySimbolo ==
    ASSUME NEW e, NEW z, EsFlujo(z, e), NEW a, NEW sym, HaySimbolo(e, a, sym),
           NEW b, b = a + Ancho(sym)
    PROVE  Simbolo(z, 16 + a) = [es |-> sym, fin |-> 16 + b]
  <1>1. a \in Nat /\ sym \in 0 .. 287 /\ a + Ancho(sym) <= Len(e) /\ Alta(e, a, Valor(sym), Ancho(sym))
    BY DEF HaySimbolo
  <1>2. Simbolo(z, 16 + a) = [es |-> sym, fin |-> 16 + a + Ancho(sym)]
    BY <1>1, LeerSimbolo
  <1> DEFINE w == Ancho(sym)
  <1>3. w \in 7 .. 9
    BY <1>1, AnchoEs
  <1> HIDE DEF w
  <1>4. 16 + a + w = 16 + (a + w)
    BY <1>1, <1>3
  <1> QED
    BY <1>2, <1>4 DEF w

HayRepeticion(e, a, len, dist, b) ==
    /\ a \in Nat /\ b \in Nat /\ b <= Len(e) /\ len \in 3 .. 258 /\ dist \in 1 .. Lejos
    /\ EsRepeticion(e, a, len, dist, b)

LEMMA LeerHayRepeticion ==
    ASSUME NEW e, NEW z, EsFlujo(z, e), NEW a, NEW b, NEW len, NEW dist,
           HayRepeticion(e, a, len, dist, b), NEW r, r = Simbolo(z, 16 + a)
    PROVE  /\ r.es \in 257 .. 285
           /\ Repeticion(z, r.es, r.fin) = [lon |-> len, dist |-> dist, fin |-> 16 + b]
  <1>1. /\ a \in Nat /\ b \in Nat /\ b <= Len(e) /\ len \in 3 .. 258 /\ dist \in 1 .. Lejos
        /\ EsRepeticion(e, a, len, dist, b)
    BY DEF HayRepeticion
  <1>2. DaRepeticion(z, 16 + a, len, dist, 16 + b)
    BY <1>1, LeerRepeticion
  <1> QED
    BY <1>2 DEF DaRepeticion

\* After the tokens, the end of the block.
LEMMA LeerFin ==
    ASSUME NEW en, NEW fs, NEW e, NEW ini, NEW k, NEW lu, NEW rec, EnFicha(en, fs, e, ini, k, lu, rec),
           k = Len(fs), NEW z, EsFlujo(z, e)
    PROVE  Simbolo(z, lu).es = 256
  <1> DEFINE sym == 256
             a == Final(ini)
  <1>1. /\ ini \in Seq(Nat) /\ Len(ini) = k + 1 /\ a + 7 <= Len(e) /\ Alta(e, a, 0, 7)
        /\ lu = 16 + ini[k + 1] /\ k \in 0 .. Len(fs)
    BY DEF EnFicha, EsCamino
  <1>2. k \in Nat
    <2>1. Len(ini) \in Nat
      BY <1>1
    <2>2. k \in Int
      BY <1>1
    <2>3. k >= 0
      BY <1>1
    <2> QED
      BY <2>2, <2>3
  <1>3. a = ini[k + 1] /\ a \in Nat
    <2>1. a = ini[k + 1] /\ k + 1 \in 1 .. Len(ini)
      BY <1>1, <1>2 DEF Final
    <2> HIDE DEF a
    <2> QED
      BY <1>1, <2>1, ElementOfSeq
  <1>4. sym \in 0 .. 287 /\ Ancho(sym) = 7 /\ Valor(sym) = 0
    BY DEF Ancho, Valor
  <1> HIDE DEF a, sym
  <1>5. HaySimbolo(e, a, sym)
    BY <1>1, <1>3, <1>4 DEF HaySimbolo
  <1> DEFINE b == a + Ancho(sym)
  <1>6. Simbolo(z, 16 + a) = [es |-> sym, fin |-> 16 + b]
    BY <1>5, LeerHaySimbolo
  <1>7. Simbolo(z, lu).es = sym
    BY <1>1, <1>3, <1>6
  <1> QED
    BY <1>7 DEF sym

\* What is there to know of the token that comes.
LEMMA SiguienteFicha ==
    ASSUME NEW en, NEW fs, NEW e, NEW ini, NEW k, NEW lu, NEW rec, EnFicha(en, fs, e, ini, k, lu, rec),
           k # Len(fs), NEW l, Exacta(en, l, fs), NEW d, SonBytes(d, en, l), d = Bytes(en)
    PROVE  LET f == fs[k + 1] IN
           /\ k \in Nat /\ k + 1 \in 1 .. Len(fs) /\ (k + 1) - 1 = k
           /\ f.en \in Nat /\ f.lon \in Nat /\ f.dist \in Nat /\ f.en = FinFicha(fs, k)
           /\ f.en + f.lon = FinFicha(fs, k + 1) /\ f.en + f.lon <= l
           /\ rec = SubSeq(d, 1, f.en) /\ rec \in Seq(Octeto) /\ Len(rec) = f.en
           /\ EsFicha(en, e, ini[k + 1], f, ini[k + 2]) /\ lu = 16 + ini[k + 1]
           /\ ini[k + 1] \in Nat /\ ini[k + 2] \in Nat
  <1> DEFINE N == Len(fs)
             S == [en : Nat, lon : Nat, dist : Nat]
             f == fs[k + 1]
  <1>1. fs \in Seq(S) /\ N \in Nat /\ l \in Nat
    BY DEF Exacta
  <1>2. k \in 0 .. N
    BY DEF EnFicha
  <1>3. k \in Nat /\ k + 1 \in 1 .. N /\ (k + 1) - 1 = k /\ k + 1 \in 0 .. N /\ k + 1 # 0
    BY <1>1, <1>2
  <1>4. f \in S
    <2> HIDE DEF S
    <2> QED
      BY <1>1, <1>3, ElementOfSeq
  <1>5. f.en \in Nat /\ f.lon \in Nat /\ f.dist \in Nat
    BY <1>4
  <1>6. f.en = FinFicha(fs, k)
    BY <1>3 DEF Exacta
  <1>7. f.en + f.lon = FinFicha(fs, k + 1)
    BY <1>3 DEF FinFicha
  <1>8. FinFicha(fs, k + 1) \in 0 .. l
    BY <1>3, FinFichaCabe
  <1>9. f.en + f.lon <= l
    BY <1>1, <1>7, <1>8
  <1>10. rec = SubSeq(d, 1, f.en)
    BY <1>6 DEF EnFicha
  <1>11. rec \in Seq(Octeto) /\ Len(rec) = f.en
    <2> DEFINE cero == 0
               b == f.en
    <2>1. d \in Seq(Octeto) /\ Len(d) = l
      BY DEF SonBytes
    <2>2. cero \in Nat /\ b \in Nat /\ cero <= b /\ b <= Len(d) /\ cero + 1 = 1 /\ b - cero = b
      BY <1>1, <1>5, <1>9, <2>1
    <2>3. rec = SubSeq(d, cero + 1, b)
      BY <1>10, <2>2
    <2> HIDE DEF cero, b
    <2> QED
      BY <2>1, <2>2, <2>3, Trozos DEF b
  <1>12. EsFicha(en, e, ini[k + 1], f, ini[k + 2]) /\ lu = 16 + ini[k + 1]
    <2>1. EsFicha(en, e, ini[k + 1], fs[k + 1], ini[(k + 1) + 1])
      BY <1>3 DEF EnFicha, EsCamino
    <2>2. (k + 1) + 1 = k + 2
      BY <1>3
    <2>3. lu = 16 + ini[k + 1]
      BY DEF EnFicha
    <2> QED
      BY <2>1, <2>2, <2>3
  <1>13. ini[k + 1] \in Nat /\ ini[k + 2] \in Nat
    BY <1>12 DEF EsFicha
  <1> QED
    BY <1>3, <1>5, <1>6, <1>7, <1>9, <1>10, <1>11, <1>12, <1>13

\* One token more: where the client is then.
LEMMA OtraFicha ==
    ASSUME NEW en, NEW fs, NEW e, NEW ini, NEW k, NEW lu, NEW rec, EnFicha(en, fs, e, ini, k, lu, rec),
           k \in Nat, k + 1 \in 1 .. Len(fs),
           NEW lu2, lu2 = 16 + ini[k + 2], NEW rec2, rec2 = SubSeq(Bytes(en), 1, FinFicha(fs, k + 1))
    PROVE  EnFicha(en, fs, e, ini, k + 1, lu2, rec2)
  <1>1. k + 1 \in 0 .. Len(fs) /\ (k + 1) + 1 = k + 2
    OBVIOUS
  <1>2. EsCamino(en, fs, e, ini) /\ Final(ini) + 7 <= Len(e) /\ Alta(e, Final(ini), 0, 7)
    BY DEF EnFicha
  <1> QED
    BY <1>1, <1>2 DEF EnFicha

LEMMA LeerLiteral ==
    ASSUME NEW en, NEW fs, NEW e, NEW ini, NEW k, NEW lu, NEW rec, EnFicha(en, fs, e, ini, k, lu, rec),
           k # Len(fs), NEW l, Exacta(en, l, fs), NEW d, SonBytes(d, en, l), d = Bytes(en),
           NEW z, EsFlujo(z, e), fs[k + 1].dist = 0
    PROVE  LET r == Simbolo(z, lu) IN
           /\ r.es \in Octeto
           /\ EnFicha(en, fs, e, ini, k + 1, r.fin, Append(rec, r.es))
  <1> DEFINE f == fs[k + 1]
             a == ini[k + 1]
             b == ini[k + 2]
             r == Simbolo(z, lu)
             o == en[f.en]
  <1>1. /\ k \in Nat /\ k + 1 \in 1 .. Len(fs)
        /\ f.en \in Nat /\ f.lon \in Nat /\ f.en + f.lon = FinFicha(fs, k + 1) /\ f.en + f.lon <= l
        /\ rec = SubSeq(d, 1, f.en) /\ rec \in Seq(Octeto) /\ Len(rec) = f.en
        /\ EsFicha(en, e, a, f, b) /\ lu = 16 + a /\ a \in Nat /\ b \in Nat
    BY SiguienteFicha
  <1>2. ~ (f.dist \in 1 .. Lejos)
    <2>1. f.dist = 0
      OBVIOUS
    <2>2. ~ (0 \in 1 .. Lejos)
      BY LejosEs
    <2> HIDE DEF f
    <2> QED
      BY <2>1, <2>2
  <1>3. /\ f.lon = 1 /\ o \in Octeto /\ b <= Len(e)
        /\ b = a + Ancho(o) /\ Alta(e, a, Valor(o), Ancho(o))
    BY <1>1, <1>2 DEF EsFicha
  <1> HIDE DEF f, a, b, o
  <1>4. o \in 0 .. 287
    BY <1>3 DEF Octeto
  <1>5. HaySimbolo(e, a, o) /\ b = a + Ancho(o)
    BY <1>1, <1>3, <1>4 DEF HaySimbolo
  <1>6. r.es = o /\ r.fin = 16 + b
    <2>1. Simbolo(z, 16 + a) = [es |-> o, fin |-> 16 + b]
      BY <1>5, LeerHaySimbolo
    <2>2. r = [es |-> o, fin |-> 16 + b]
      BY <1>1, <2>1
    <2> HIDE DEF r
    <2> QED
      BY <2>2
  <1> HIDE DEF r
  <1>7. Append(rec, o) = SubSeq(d, 1, FinFicha(fs, k + 1))
    <2> DEFINE p == f.en
               q == p + 1
               cero == 0
               w == SubSeq(d, 1, q)
    <2>1. p \in Nat /\ FinFicha(fs, k + 1) = q /\ q <= l /\ l \in Nat
      BY <1>1, <1>3 DEF Exacta
    <2>2. d \in Seq(Octeto) /\ Len(d) = l /\ \A j \in 1 .. l : d[j] = en[j - 1]
      BY DEF SonBytes
    <2>3. o = d[q]
      <3>1. q \in 1 .. l /\ q - 1 = p
        BY <2>1
      <3> QED
        BY <2>2, <3>1 DEF o
    <2>4. rec = SubSeq(d, 1, p) /\ rec \in Seq(Octeto) /\ Len(rec) = p
      BY <1>1
    <2> HIDE DEF p
    <2> DEFINE uno == 1
    <2>5. uno \in 1 .. Len(d) /\ q \in uno .. Len(d) /\ q - 1 = p
      BY <2>1, <2>2
    <2> HIDE DEF uno, q
    <2>6. SubSeq(d, uno, q) = SubSeq(d, uno, q - 1) \o <<d[q]>>
      BY <2>2, <2>5, SubSeqRecursiveSecond
    <2>7. SubSeq(d, uno, q) = rec \o <<o>>
      BY <2>3, <2>4, <2>5, <2>6 DEF uno
    <2>8. Append(rec, o) = rec \o <<o>>
      BY <1>3, <2>4, AppendIsConcat
    <2> QED
      BY <2>1, <2>7, <2>8 DEF uno
  <1>8. EnFicha(en, fs, e, ini, k + 1, r.fin, Append(rec, r.es))
    <2>1. r.fin = 16 + ini[k + 2] /\ Append(rec, r.es) = SubSeq(Bytes(en), 1, FinFicha(fs, k + 1))
      BY <1>6, <1>7 DEF b
    <2> QED
      BY <1>1, <2>1, OtraFicha
  <1> QED
    BY <1>3, <1>6, <1>8 DEF r

LEMMA IgualaEn ==
    ASSUME NEW en, NEW p, NEW q, NEW dist, Iguala(en, p, q, dist), NEW x \in p .. q - 1
    PROVE  en[x] = en[x - dist]
  BY DEF Iguala

LEMMA LeerCopia ==
    ASSUME NEW en, NEW fs, NEW e, NEW ini, NEW k, NEW lu, NEW rec, EnFicha(en, fs, e, ini, k, lu, rec),
           k # Len(fs), NEW l, Exacta(en, l, fs), NEW d, SonBytes(d, en, l), d = Bytes(en),
           NEW z, EsFlujo(z, e), fs[k + 1].dist # 0
    PROVE  LET r == Simbolo(z, lu)
               c == Repeticion(z, r.es, r.fin)
           IN  /\ r.es \in 257 .. 285 /\ ~ (c.dist > Len(rec))
               /\ EnFicha(en, fs, e, ini, k + 1, c.fin, Copiar(rec, c.lon, c.dist))
  <1> DEFINE f == fs[k + 1]
             a == ini[k + 1]
             b == ini[k + 2]
             r == Simbolo(z, lu)
             c == Repeticion(z, r.es, r.fin)
             ln == f.lon
             ds == f.dist
             p == f.en
             q == p + ln
  <1>1. /\ k \in Nat /\ k + 1 \in 1 .. Len(fs)
        /\ f.en \in Nat /\ f.lon \in Nat /\ f.dist \in Nat
        /\ f.en + f.lon = FinFicha(fs, k + 1) /\ f.en + f.lon <= l
        /\ rec = SubSeq(d, 1, f.en) /\ rec \in Seq(Octeto) /\ Len(rec) = f.en
        /\ EsFicha(en, e, a, f, b) /\ lu = 16 + a /\ a \in Nat /\ b \in Nat
    BY SiguienteFicha
  <1>2. f.dist # 0
    OBVIOUS
  <1>3. f.lon \in 3 .. 258 /\ f.dist \in 1 .. Lejos /\ b <= Len(e) /\ EsRepeticion(e, a, f.lon, f.dist, b)
    BY <1>1, <1>2 DEF EsFicha
  <1>4. ds <= p /\ Iguala(en, p, q, ds)
    <2>1. f.dist > 0
      <3> HIDE DEF f
      <3> QED
        BY <1>1, <1>2
    <2>2. ds <= p /\ Iguala(en, f.en, f.en + f.lon, f.dist)
      BY <1>1, <2>1 DEF Exacta
    <2> QED
      BY <2>2
  <1> HIDE DEF f, a, b
  <1>5. r.es \in 257 .. 285 /\ c = [lon |-> ln, dist |-> ds, fin |-> 16 + b]
    <2>1. HayRepeticion(e, a, ln, ds, b)
      BY <1>1, <1>3 DEF HayRepeticion
    <2>2. r = Simbolo(z, 16 + a)
      BY <1>1
    <2> HIDE DEF ln, ds, r
    <2> QED
      BY <2>1, <2>2, LeerHayRepeticion
  <1> HIDE DEF r, c
  <1>6. c.lon = ln /\ c.dist = ds /\ c.fin = 16 + b
    BY <1>5
  <1>7. /\ ds \in 1 .. p /\ ln \in Nat /\ p \in Nat /\ q <= l /\ l \in Nat /\ ds \in Nat
        /\ q = FinFicha(fs, k + 1) /\ Len(rec) = p /\ rec = SubSeq(d, 1, p)
    <2>1. ds \in Nat /\ ds # 0 /\ ds <= p /\ p \in Nat
      BY <1>1, <1>2, <1>4 DEF f
    <2> HIDE DEF ds, p
    <2>2. ds \in 1 .. p
      BY <2>1
    <2> QED
      BY <1>1, <2>1, <2>2 DEF Exacta, p
  <1>8. d \in Seq(Octeto) /\ Len(d) = l /\ \A j \in 1 .. l : d[j] = en[j - 1]
    BY DEF SonBytes
  <1> HIDE DEF ln, ds, p
  <1>10. Repite(d, p, ln, ds)
    <2>1. ASSUME NEW j \in 0 .. ln - 1 PROVE d[p + 1 + j] = d[p + 1 + j - ds]
      <3>1. p + j \in p .. q - 1 /\ p + 1 + j \in 1 .. l /\ (p + 1 + j) - 1 = p + j
        BY <1>7
      <3>2. p + 1 + j - ds \in 1 .. l /\ (p + 1 + j - ds) - 1 = p + j - ds
        BY <1>7
      <3>3. en[p + j] = en[p + j - ds]
        <4> HIDE DEF q
        <4>1. p + j \in p .. q - 1 /\ Iguala(en, p, q, ds)
          BY <1>4, <3>1
        <4>2. en[p + j] = en[(p + j) - ds]
          BY <4>1, IgualaEn
        <4>3. (p + j) - ds = p + j - ds
          BY <1>7
        <4> QED
          BY <4>2, <4>3
      <3> QED
        BY <1>8, <3>1, <3>2, <3>3
    <2> QED
      BY <2>1 DEF Repite
  <1>11. Copiar(SubSeq(d, 1, p), ln, ds) = SubSeq(d, 1, q)
    <2>1. q = p + ln /\ q <= Len(d)
      BY <1>7, <1>8
    <2> HIDE DEF q
    <2> QED
      BY <1>7, <1>8, <1>10, <2>1, CopiarEs
  <1>12. EnFicha(en, fs, e, ini, k + 1, c.fin, Copiar(rec, c.lon, c.dist))
    <2>1. c.fin = 16 + ini[k + 2]
      BY <1>6 DEF b
    <2>2. Copiar(rec, c.lon, c.dist) = SubSeq(Bytes(en), 1, FinFicha(fs, k + 1))
      BY <1>6, <1>7, <1>11
    <2> QED
      BY <1>1, <2>1, <2>2, OtraFicha
  <1>13. ~ (c.dist > Len(rec))
    BY <1>6, <1>7
  <1> QED
    BY <1>5, <1>12, <1>13 DEF r, c

-----------------------------------------------------------------------------
(* The client inflates the table.                                          *)

LEMMA ExactaEs ==
    InvFlujo /\ tramo = "inflar" =>
        /\ Exacta(entrada, n, fichas) /\ SonBytes(Bytes(entrada), entrada, n)
        /\ Entero(entrada, fichas, escritor, n, salida) /\ EsFlujo(salida, escritor)
  <1> SUFFICES ASSUME InvFlujo, tramo = "inflar"
               PROVE  /\ Exacta(entrada, n, fichas) /\ SonBytes(Bytes(entrada), entrada, n)
                      /\ Entero(entrada, fichas, escritor, n, salida) /\ EsFlujo(salida, escritor)
    OBVIOUS
  <1>1. InvLZ /\ Entero(entrada, fichas, escritor, n, salida) /\ fase = "mirar" /\ i = n
    BY DEF InvFlujo, InvEscritor
  <1>2. /\ Bytes(entrada) \in Seq(Octeto) /\ Len(Bytes(entrada)) = n /\ n \in Nat
        /\ \A j \in 1 .. n : Bytes(entrada)[j] = entrada[j - 1]
    BY <1>1, BytesEs
  <1>3. SonBytes(Bytes(entrada), entrada, n)
    BY <1>2 DEF SonBytes
  <1>4. EsFlujo(salida, escritor)
    BY <1>1, <1>2, EnteroFlujo
  <1>5. /\ fichas \in Seq([en : Nat, lon : Nat, dist : Nat]) /\ FichasExactas /\ FichasValidas
        /\ n \in Nat
    BY <1>1 DEF InvLZ, InvCompresor, InvExactas, TypeOK
  <1>6. \A k : FinDe(k) = FinFicha(fichas, k)
    BY DEF FinDe, FinFicha
  <1>7. FinFicha(fichas, Len(fichas)) = n
    BY <1>1, <1>5, <1>6 DEF FichasExactas
  <1>8. ASSUME NEW k \in 1 .. Len(fichas)
        PROVE  /\ fichas[k].en = FinFicha(fichas, k - 1)
               /\ fichas[k].dist > 0 =>
                     /\ fichas[k].dist <= fichas[k].en
                     /\ Iguala(entrada, fichas[k].en, fichas[k].en + fichas[k].lon, fichas[k].dist)
    <2>1. fichas[k].en = FinFicha(fichas, k - 1)
      BY <1>5, <1>6 DEF FichasExactas
    <2>2. ASSUME fichas[k].dist > 0
          PROVE  Iguala(entrada, fichas[k].en, fichas[k].en + fichas[k].lon, fichas[k].dist)
      <3>1. \A p \in fichas[k].en .. fichas[k].en + fichas[k].lon - 1 :
               entrada[p] = entrada[p - fichas[k].dist]
        BY <1>5, <2>2 DEF FichasExactas
      <3>2. fichas[k].en + fichas[k].lon - 1 = (fichas[k].en + fichas[k].lon) - 1
        <4>1. fichas[k] \in [en : Nat, lon : Nat, dist : Nat]
          BY <1>5, ElementOfSeq
        <4> QED
          BY <4>1
      <3> QED
        BY <3>1, <3>2, Zenon DEF Iguala
    <2>3. ASSUME fichas[k].dist > 0 PROVE fichas[k].dist <= fichas[k].en
      BY <1>5, <2>3 DEF FichasValidas
    <2> QED
      BY <2>1, <2>2, <2>3
  <1>9. Exacta(entrada, n, fichas)
    BY <1>5, <1>7, <1>8 DEF Exacta
  <1> QED
    BY <1>1, <1>3, <1>4, <1>9

\* The last four bytes of the stream are the checksum.
LEMMA SumaAlFinal ==
    ASSUME NEW en, NEW fs, NEW e, NEW l, NEW z, Entero(en, fs, e, l, z), Bytes(en) \in Seq(Octeto)
    PROVE  SubSeq(z, Len(z) - 3, Len(z)) = BytesAdler(Bytes(en))
  <1> DEFINE s == Escrito(e)
             t == BytesAdler(Bytes(en))
             c == Cabecera
             cs == c \o s
             cero == 0
             m == Len(cs)
  <1>1. e \in Bits /\ Len(e) % 8 = 0 /\ z = cs \o t
    BY DEF Entero
  <1>2. s \in Seq(Octeto)
    BY <1>1, EscritoEs
  <1>3. t \in Seq(Octeto) /\ Len(t) = 4
    BY AdlerBytes
  <1>4. c \in Seq(Octeto)
    BY DEF Cabecera, Octeto
  <1> HIDE DEF s, t, c
  <1>5. cs \in Seq(Octeto)
    BY <1>2, <1>4, PegadaOctetos
  <1> HIDE DEF cs
  <1>6. z \in Seq(Octeto) /\ Len(z) = m + 4 /\ m \in Nat /\ \A p \in 1 .. 4 : z[m + p] = t[p]
    <2>1. cs \in Seq(Octeto) /\ t \in Seq(Octeto)
      BY <1>3, <1>5
    <2>2. cs \o t \in Seq(Octeto) /\ Len(cs \o t) = m + Len(t) /\ \A p \in 1 .. Len(t) : (cs \o t)[m + p] = t[p]
      BY <2>1, PegadaOctetos
    <2>3. m \in Nat
      BY <1>5
    <2>4. z = cs \o t /\ Len(t) = 4
      BY <1>1, <1>3
    <2> HIDE DEF m, cs
    <2> QED
      BY <2>2, <2>3, <2>4
  <1> HIDE DEF m
  <1> DEFINE l4 == 4
  <1>7. cero \in Nat /\ l4 \in Nat /\ cero + l4 = l4 /\ m + l4 <= Len(z) /\ cero + l4 <= Len(t)
    BY <1>3, <1>6
  <1>8. Iguales(z, m, t, cero, l4)
    BY <1>3, <1>6 DEF Iguales
  <1>9. m + 1 = Len(z) - 3 /\ m + l4 = Len(z) /\ cero + 1 = 1 /\ cero + l4 = Len(t)
    BY <1>3, <1>6
  <1> HIDE DEF cero, l4
  <1>10. SubSeq(z, m + 1, m + l4) = SubSeq(t, cero + 1, cero + l4)
    BY <1>3, <1>6, <1>7, <1>8, TrozosIguales
  <1>11. SubSeq(t, 1, Len(t)) = t
    BY <1>3, SubSeqFull
  <1> QED
    BY <1>9, <1>10, <1>11 DEF t

\* All the tokens inflated, all the bytes are there.
LEMMA TodoInflado ==
    ASSUME NEW en, NEW fs, NEW e, NEW ini, NEW k, NEW lu, NEW rec, EnFicha(en, fs, e, ini, k, lu, rec),
           k = Len(fs), NEW l, Exacta(en, l, fs), SonBytes(Bytes(en), en, l)
    PROVE  rec = Bytes(en) /\ Len(rec) = l
  <1>1. FinFicha(fs, k) = l
    BY DEF Exacta
  <1>2. Bytes(en) \in Seq(Octeto) /\ Len(Bytes(en)) = l
    BY DEF SonBytes
  <1>3. rec = SubSeq(Bytes(en), 1, l)
    BY <1>1 DEF EnFicha
  <1>4. SubSeq(Bytes(en), 1, Len(Bytes(en))) = Bytes(en)
    BY <1>2, SubSeqFull
  <1> QED
    BY <1>2, <1>3, <1>4

\* While it inflates: the message is whole, and it stands between two tokens.
InvLectura ==
    tramo = "inflar" => EsMensaje(mensaje, n, salida) /\ Leyendo(entrada, fichas, escritor, lugar, recibida)

\* What there is to know of a step of the client.
Inflando(k, ini) ==
    /\ EnFicha(entrada, fichas, escritor, ini, k, lugar, recibida)
    /\ Exacta(entrada, n, fichas) /\ SonBytes(Bytes(entrada), entrada, n)
    /\ EsFlujo(salida, escritor) /\ Entero(entrada, fichas, escritor, n, salida)
    /\ EsMensaje(mensaje, n, salida) /\ Leido = Simbolo(salida, lugar) /\ Flujo(mensaje) = salida

LEMMA HayInflando ==
    ASSUME InvFlujo, InvLectura, tramo = "inflar"
    PROVE  \E k, ini : Inflando(k, ini)
  <1>1. EsMensaje(mensaje, n, salida) /\ Leyendo(entrada, fichas, escritor, lugar, recibida)
    BY DEF InvLectura
  <1>2. PICK ini, k : EnFicha(entrada, fichas, escritor, ini, k, lugar, recibida)
    BY <1>1 DEF Leyendo
  <1>3. Flujo(mensaje) = salida
    BY <1>1 DEF EsMensaje
  <1>4. Leido = Simbolo(salida, lugar)
    BY <1>3 DEF Leido
  <1>5. /\ Exacta(entrada, n, fichas) /\ SonBytes(Bytes(entrada), entrada, n)
        /\ Entero(entrada, fichas, escritor, n, salida) /\ EsFlujo(salida, escritor)
    BY ExactaEs
  <1>6. Inflando(k, ini)
    BY <1>1, <1>2, <1>3, <1>4, <1>5 DEF Inflando
  <1> QED
    BY <1>6

LEMMA EsDeLiteral == ASSUME NEW x \in Octeto PROVE x # 256 /\ ~ (x > 256)
  BY DEF Octeto

LEMMA EsDeRepeticion == ASSUME NEW x \in 257 .. 285 PROVE x # 256 /\ ~ (x < 256)
  OBVIOUS

\* The three kinds of symbol, each where a token, or the end, was written.
LEMMA SimboloLiteral ==
    ASSUME NEW k, NEW ini, Inflando(k, ini), k # Len(fichas), fichas[k + 1].dist = 0
    PROVE  Leido.es \in Octeto /\ Leyendo(entrada, fichas, escritor, Leido.fin, Append(recibida, Leido.es))
  <1>1. /\ EnFicha(entrada, fichas, escritor, ini, k, lugar, recibida)
        /\ Exacta(entrada, n, fichas) /\ SonBytes(Bytes(entrada), entrada, n)
        /\ EsFlujo(salida, escritor) /\ Leido = Simbolo(salida, lugar)
    BY DEF Inflando
  <1> DEFINE r == Simbolo(salida, lugar)
  <1>2. r.es \in Octeto /\ EnFicha(entrada, fichas, escritor, ini, k + 1, r.fin, Append(recibida, r.es))
    BY <1>1, LeerLiteral
  <1>3. Leido = r
    BY <1>1
  <1> HIDE DEF r
  <1> QED
    BY <1>2, <1>3 DEF Leyendo

LEMMA SimboloCopia ==
    ASSUME NEW k, NEW ini, Inflando(k, ini), k # Len(fichas), fichas[k + 1].dist # 0,
           NEW c, c = Repeticion(Flujo(mensaje), Leido.es, Leido.fin)
    PROVE  /\ Leido.es \in 257 .. 285 /\ ~ (c.dist > Len(recibida))
           /\ Leyendo(entrada, fichas, escritor, c.fin, Copiar(recibida, c.lon, c.dist))
  <1>1. /\ EnFicha(entrada, fichas, escritor, ini, k, lugar, recibida)
        /\ Exacta(entrada, n, fichas) /\ SonBytes(Bytes(entrada), entrada, n)
        /\ EsFlujo(salida, escritor) /\ Leido = Simbolo(salida, lugar) /\ Flujo(mensaje) = salida
    BY DEF Inflando
  <1> DEFINE r == Simbolo(salida, lugar)
             x == Repeticion(salida, r.es, r.fin)
  <1>2. /\ r.es \in 257 .. 285 /\ ~ (x.dist > Len(recibida))
        /\ EnFicha(entrada, fichas, escritor, ini, k + 1, x.fin, Copiar(recibida, x.lon, x.dist))
    BY <1>1, LeerCopia
  <1>3. Leido = r /\ c = x
    BY <1>1
  <1> HIDE DEF r, x
  <1> QED
    BY <1>2, <1>3 DEF Leyendo

LEMMA SimboloFin ==
    ASSUME NEW k, NEW ini, Inflando(k, ini), k = Len(fichas)
    PROVE  /\ Leido.es = 256 /\ recibida = Bytes(entrada) /\ Len(recibida) = Tamano(mensaje)
           /\ SubSeq(Flujo(mensaje), Len(Flujo(mensaje)) - 3, Len(Flujo(mensaje))) = BytesAdler(recibida)
  <1>1. /\ EnFicha(entrada, fichas, escritor, ini, k, lugar, recibida)
        /\ Exacta(entrada, n, fichas) /\ SonBytes(Bytes(entrada), entrada, n)
        /\ EsFlujo(salida, escritor) /\ Leido = Simbolo(salida, lugar) /\ Flujo(mensaje) = salida
        /\ Entero(entrada, fichas, escritor, n, salida) /\ EsMensaje(mensaje, n, salida)
    BY DEF Inflando
  <1>2. Leido.es = 256
    BY <1>1, LeerFin
  <1>3. recibida = Bytes(entrada) /\ Len(recibida) = n
    BY <1>1, TodoInflado
  <1>4. Tamano(mensaje) = n
    BY <1>1 DEF EsMensaje
  <1>5. Bytes(entrada) \in Seq(Octeto)
    BY <1>1 DEF SonBytes
  <1>6. SubSeq(salida, Len(salida) - 3, Len(salida)) = BytesAdler(Bytes(entrada))
    BY <1>1, <1>5, SumaAlFinal
  <1> QED
    BY <1>1, <1>2, <1>3, <1>4, <1>6

\* A step of the inflate leaves the table, the stream and the message as they are.
LEMMA InflarQuieto ==
    ASSUME SigueInflando
    PROVE  UNCHANGED <<entrada, fichas, n, escritor, salida, mensaje>> /\ tramo = "inflar"
  BY DEF SigueInflando, varsCompresor

\* Nothing is wrong with the table, on its way and in the client.
InvTabla == TablaLlega /\ InvEntrega /\ InvLectura

LEMMA LiteralLlega ==
    ASSUME InvFlujo, InvTabla, InflarLiteral
    PROVE  InvTabla'
  <1>1. SigueInflando /\ Leido.es < 256
    BY DEF InflarLiteral
  <1>2. /\ tramo = "inflar" /\ tramo' = "inflar" /\ UNCHANGED <<entrada, fichas, n, escritor, salida, mensaje>>
        /\ recibida' = Append(recibida, Leido.es) /\ lugar' = Leido.fin
    BY <1>1, InflarQuieto DEF InflarLiteral
  <1>3. InvLectura
    BY DEF InvTabla
  <1>4. PICK k, ini : Inflando(k, ini)
    BY <1>2, <1>3, HayInflando
  <1>5. k # Len(fichas)
    <2>1. SUFFICES ASSUME k = Len(fichas) PROVE FALSE
      OBVIOUS
    <2>2. Leido.es = 256
      BY <1>4, <2>1, SimboloFin
    <2> QED
      BY <1>1, <2>2
  <1>6. fichas[k + 1].dist = 0
    <2>1. SUFFICES ASSUME fichas[k + 1].dist # 0 PROVE FALSE
      OBVIOUS
    <2> DEFINE c == Repeticion(Flujo(mensaje), Leido.es, Leido.fin)
               x == Leido.es
    <2>2. c = c
      OBVIOUS
    <2>3. x \in 257 .. 285
      BY <1>4, <1>5, <2>1, <2>2, SimboloCopia
    <2>4. x < 256
      BY <1>1
    <2> HIDE DEF x
    <2> QED
      BY <2>3, <2>4, EsDeRepeticion
  <1>7. Leyendo(entrada, fichas, escritor, lugar', recibida')
    BY <1>2, <1>4, <1>5, <1>6, SimboloLiteral
  <1>8. EsMensaje(mensaje, n, salida)
    BY <1>2, <1>3 DEF InvLectura
  <1>9. InvLectura'
    BY <1>2, <1>7, <1>8 DEF InvLectura
  <1>10. TablaLlega' /\ InvEntrega'
    BY <1>2 DEF TablaLlega, InvEntrega
  <1> QED
    BY <1>9, <1>10 DEF InvTabla

LEMMA RepeticionLlega ==
    ASSUME InvFlujo, InvTabla, InflarRepeticion
    PROVE  InvTabla'
  <1> DEFINE c == Repeticion(Flujo(mensaje), Leido.es, Leido.fin)
  <1>1. SigueInflando /\ Leido.es > 256
    BY DEF InflarRepeticion
  <1>2. /\ tramo = "inflar" /\ UNCHANGED <<entrada, fichas, n, escritor, salida, mensaje>>
        /\ IF c.dist > Len(recibida) THEN tramo' = "rota"
           ELSE recibida' = Copiar(recibida, c.lon, c.dist) /\ lugar' = c.fin /\ tramo' = tramo
    BY <1>1, InflarQuieto DEF InflarRepeticion
  <1>3. InvLectura
    BY DEF InvTabla
  <1>4. PICK k, ini : Inflando(k, ini)
    BY <1>2, <1>3, HayInflando
  <1>5. k # Len(fichas)
    <2>1. SUFFICES ASSUME k = Len(fichas) PROVE FALSE
      OBVIOUS
    <2>2. Leido.es = 256
      BY <1>4, <2>1, SimboloFin
    <2> QED
      BY <1>1, <2>2
  <1>6. fichas[k + 1].dist # 0
    <2>1. SUFFICES ASSUME fichas[k + 1].dist = 0 PROVE FALSE
      OBVIOUS
    <2> DEFINE x == Leido.es
    <2>2. x \in Octeto
      BY <1>4, <1>5, <2>1, SimboloLiteral
    <2>3. x > 256
      BY <1>1
    <2> HIDE DEF x
    <2> QED
      BY <2>2, <2>3, EsDeLiteral
  <1>7. ~ (c.dist > Len(recibida)) /\ Leyendo(entrada, fichas, escritor, c.fin, Copiar(recibida, c.lon, c.dist))
    <2>1. c = Repeticion(Flujo(mensaje), Leido.es, Leido.fin)
      OBVIOUS
    <2> HIDE DEF c
    <2> QED
      BY <1>4, <1>5, <1>6, <2>1, SimboloCopia
  <1> HIDE DEF c
  <1>8. Leyendo(entrada, fichas, escritor, lugar', recibida') /\ tramo' = "inflar"
    BY <1>2, <1>7
  <1>9. EsMensaje(mensaje, n, salida)
    BY <1>2, <1>3 DEF InvLectura
  <1>10. InvLectura'
    BY <1>2, <1>8, <1>9 DEF InvLectura
  <1>11. TablaLlega' /\ InvEntrega'
    BY <1>8 DEF TablaLlega, InvEntrega
  <1> QED
    BY <1>10, <1>11 DEF InvTabla

LEMMA FinLlega ==
    ASSUME InvFlujo, InvTabla, FinDeBloque
    PROVE  InvTabla'
  <1>1. SigueInflando /\ Leido.es = 256
    BY DEF FinDeBloque
  <1>2. /\ tramo = "inflar" /\ UNCHANGED <<entrada, fichas, n, escritor, salida, mensaje, recibida>>
        /\ tramo' = IF /\ Len(recibida) = Tamano(mensaje)
                       /\ SubSeq(Flujo(mensaje), Len(Flujo(mensaje)) - 3, Len(Flujo(mensaje))) = BytesAdler(recibida)
                    THEN "leida" ELSE "rota"
    BY <1>1, InflarQuieto DEF FinDeBloque
  <1>3. InvLectura
    BY DEF InvTabla
  <1>4. PICK k, ini : Inflando(k, ini)
    BY <1>2, <1>3, HayInflando
  <1>5. k = Len(fichas)
    <2>1. SUFFICES ASSUME k # Len(fichas) PROVE FALSE
      OBVIOUS
    <2> DEFINE x == Leido.es
    <2>2. x = 256
      BY <1>1
    <2>3. CASE fichas[k + 1].dist = 0
      <3>1. x \in Octeto
        BY <1>4, <2>1, <2>3, SimboloLiteral
      <3> HIDE DEF x
      <3> QED
        BY <2>2, <3>1, EsDeLiteral
    <2>4. CASE fichas[k + 1].dist # 0
      <3> DEFINE c == Repeticion(Flujo(mensaje), Leido.es, Leido.fin)
      <3>1. c = c
        OBVIOUS
      <3>2. x \in 257 .. 285
        BY <1>4, <2>1, <2>4, <3>1, SimboloCopia
      <3> HIDE DEF x
      <3> QED
        BY <2>2, <3>2, EsDeRepeticion
    <2> QED
      BY <2>3, <2>4
  <1>6. /\ recibida = Bytes(entrada) /\ Len(recibida) = Tamano(mensaje)
        /\ SubSeq(Flujo(mensaje), Len(Flujo(mensaje)) - 3, Len(Flujo(mensaje))) = BytesAdler(recibida)
    BY <1>4, <1>5, SimboloFin
  <1>7. tramo' = "leida" /\ recibida' = Bytes(entrada')
    BY <1>2, <1>6
  <1>8. Bytes(entrada)' = Bytes(entrada')
    BY DEF Bytes
  <1>9. TablaLlega' /\ InvEntrega' /\ InvLectura'
    BY <1>7, <1>8 DEF TablaLlega, InvEntrega, InvLectura
  <1> QED
    BY <1>9 DEF InvTabla

LEMMA TablaLlegaPaso == InvFlujo /\ InvCaso /\ InvTabla /\ [NextTabla]_varsTabla => InvTabla'
  <1> SUFFICES ASSUME InvFlujo, InvCaso, InvTabla, [NextTabla]_varsTabla PROVE InvTabla'
    OBVIOUS
  <1>1. TablaLlega /\ InvEntrega /\ InvLectura
    BY DEF InvTabla
  <1>2. CASE ProcesarDatos \/ Comprimir \/ AcabarFlujo
    <2>1. /\ tramo \in {"pedir", "comprimir"} /\ tramo' \in {"comprimir", "enviar"}
          /\ UNCHANGED <<trozos, recibida>>
      BY <1>2 DEF ProcesarDatos, Comprimir, AcabarFlujo, cliente
    <2> QED
      BY <1>1, <2>1 DEF InvTabla, TablaLlega, InvEntrega, InvLectura
  <1>3. CASE EnviarListaRica \/ EnviarClassInfo
    <2>1. InvEntrega'
      BY <1>1, <1>3, EnviarEntrega
    <2>2. tramo' = "recibir"
      BY <1>3 DEF EnviarListaRica, EnviarClassInfo
    <2> QED
      BY <2>1, <2>2 DEF InvTabla, TablaLlega, InvLectura
  <1>4. CASE \E p \in paquetes : ClienteRecibe(p)
    <2>1. PICK p \in paquetes : ClienteRecibe(p)
      BY <1>4
    <2>2. /\ InvEntrega'
          /\ \/ tramo' = "recibir"
             \/ /\ tramo' = "inflar" /\ EsMensaje(mensaje', n, salida)
                /\ Leyendo(entrada, fichas, escritor, lugar', recibida')
      BY <1>1, <2>1, RecibirEntrega
    <2>3. UNCHANGED <<n, salida, entrada, fichas, escritor>>
      BY <2>1 DEF ClienteRecibe, varsCompresor
    <2>4. InvLectura'
      BY <2>2, <2>3 DEF InvLectura
    <2>5. TablaLlega'
      BY <2>2 DEF TablaLlega
    <2> QED
      BY <2>2, <2>4, <2>5 DEF InvTabla
  <1>5. CASE InflarLiteral
    BY <1>5, LiteralLlega
  <1>6. CASE InflarRepeticion
    BY <1>6, RepeticionLlega
  <1>7. CASE FinDeBloque
    BY <1>7, FinLlega
  <1>8. CASE Leida \/ UNCHANGED varsTabla
    <2>1. UNCHANGED <<entrada, fichas, n, escritor, salida, mensaje, tramo, trozos, recibida, lugar, caso, paquetes>>
      BY <1>8 DEF Leida, varsTabla, varsCompresor, cliente
    <2>2. Bytes(entrada)' = Bytes(entrada)
      BY <2>1 DEF Bytes
    <2>3. TablaLlega' /\ InvLectura'
      BY <1>1, <2>1, <2>2 DEF TablaLlega, InvLectura
    <2>4. InvEntrega'
      BY <1>1, <2>1 DEF InvEntrega
    <2> QED
      BY <2>3, <2>4 DEF InvTabla
  <1> QED
    BY <1>2, <1>3, <1>4, <1>5, <1>6, <1>7, <1>8 DEF NextTabla

\* The client never finds a table broken, and the one it takes is, byte by byte,
\* the buffer that the server compressed: for every buffer, key, way of sending
\* and order of the packets.
THEOREM TablaSiempreLlega == SpecTabla => []TablaLlega
  <1>1. InitTabla => InvTabla
    BY DEF InitTabla, InvTabla, TablaLlega, InvEntrega, InvLectura
  <1>2. InvTabla => TablaLlega
    BY DEF InvTabla
  <1>3. SpecTabla => [](InvLZ /\ Escribibles /\ InvEscritor)
    BY EscritorInvariante
  <1>4. InvLZ /\ Escribibles /\ InvEscritor => InvFlujo
    BY DEF InvFlujo
  <1> QED
    BY <1>1, <1>2, <1>3, <1>4, CasoInvariante, TablaLlegaPaso, PTL DEF SpecTabla
==============================================================================
