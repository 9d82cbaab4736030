------------------------------- MODULE Cifrado -------------------------------
(***************************************************************************)
(* The algorithms of cifrado.cpp on bytes: the XOR chain, Adler-32, the    *)
(* stored zlib stream, and the bit writer with the fixed Huffman codes     *)
(* that comprimirZlib feeds.  Byte buffers are sequences: index j holds    *)
(* the byte at offset j - 1.  Loops are recursive functions.               *)
(***************************************************************************)
EXTENDS Integers, Sequences

\* Exclusive or of two bytes.
XorOcteto(a, b) ==
    LET peso(k) == IF (a \div k) % 2 = (b \div k) % 2 THEN 0 ELSE k
    IN  peso(1) + peso(2) + peso(4) + peso(8) + peso(16) + peso(32) + peso(64) + peso(128)

SEMILLA == 59

\* What both directions mix a byte with: the key byte of its group of four,
\* its offset, and the enciphered byte before it.  K is the key, low byte first.
Mascarada(K, j, anterior) == XorOcteto(XorOcteto(K[(((j - 1) \div 4) % 4) + 1], (j - 1) % 256), anterior)

cifrar(p, K) ==
    LET c[j \in 0 .. Len(p)] ==
            IF j = 0 THEN << >>
            ELSE LET antes == c[j - 1] IN
                 Append(antes, XorOcteto(p[j], Mascarada(K, j, IF j = 1 THEN SEMILLA ELSE antes[j - 1])))
    IN  c[Len(p)]

\* Mutant: the chain goes on with the byte in clear.
descifrar_EncadenaClaro(p, K) == cifrar(p, K)

descifrar(p, K) ==
    [j \in 1 .. Len(p) |->
        XorOcteto(p[j], Mascarada(K, j, IF j = 1 THEN SEMILLA ELSE p[j - 1]))]

-----------------------------------------------------------------------------
(* Adler-32, as its two halves, and its four bytes in big-endian order.    *)

adler32(datos) ==
    LET a[k \in 0 .. Len(datos)] == IF k = 0 THEN 1 ELSE (a[k - 1] + datos[k]) % 65521
        b[k \in 0 .. Len(datos)] == IF k = 0 THEN 0 ELSE (b[k - 1] + a[k]) % 65521
    IN  <<a[Len(datos)], b[Len(datos)]>>

BytesAdler(datos) ==
    LET ad == adler32(datos)
    IN  <<ad[2] \div 256, ad[2] % 256, ad[1] \div 256, ad[1] % 256>>

Cabecera == <<120, 1>>

\* One stored block of a stream: BFINAL, LEN and its complement, the bytes.
Bloque(trozo, ultimo) ==
    LET l == Len(trozo)
    IN  <<IF ultimo THEN 1 ELSE 0, l % 256, l \div 256,
          255 - (l % 256), 255 - (l \div 256)>> \o trozo

\* Some blocks of at most `maximo` bytes, with header and checksum.
EnBloques(datos, maximo, bloques) ==
    LET fin(b) == IF b * maximo < Len(datos) THEN b * maximo ELSE Len(datos)
        z[b \in 0 .. bloques] ==
            IF b = 0 THEN Cabecera
            ELSE z[b - 1] \o Bloque(SubSeq(datos, (b - 1) * maximo + 1, fin(b)), fin(b) = Len(datos))
    IN  z[bloques] \o BytesAdler(datos)

\* Mutant: the loop tests before the first block.
comprimirZlibStored_SinBloqueVacio(datos, maximo) ==
    EnBloques(datos, maximo, (Len(datos) + maximo - 1) \div maximo)

\* One block, empty, when there is nothing.
comprimirZlibStored(datos, maximo) ==
    EnBloques(datos, maximo,
              IF datos = << >> THEN 1 ELSE (Len(datos) + maximo - 1) \div maximo)

-----------------------------------------------------------------------------
(* EscritorBits and the fixed Huffman codes.                               *)

LBASE == <<3, 4, 5, 6, 7, 8, 9, 10, 11, 13, 15, 17, 19, 23, 27, 31, 35, 43, 51, 59, 67,
           83, 99, 115, 131, 163, 195, 227, 258>>
LEXTRA == <<0, 0, 0, 0, 0, 0, 0, 0, 1, 1, 1, 1, 2, 2, 2, 2, 3, 3, 3, 3, 4, 4, 4, 4, 5, 5, 5, 5, 0>>
DBASE == <<1, 2, 3, 4, 5, 7, 9, 13, 17, 25, 33, 49, 65, 97, 129, 193, 257, 385, 513, 769, 1025,
           1537, 2049, 3073, 4097, 6145, 8193, 12289, 16385, 24577>>
DEXTRA == <<0, 0, 0, 0, 1, 1, 2, 2, 3, 3, 4, 4, 5, 5, 6, 6, 7, 7, 8, 8, 9, 9, 10, 10, 11, 11,
            12, 12, 13, 13>>

\* The last base that is not greater; 0 is the first.
Indice(bases, x) ==
    CHOOSE k \in 0 .. Len(bases) - 1 :
        /\ k = 0 \/ bases[k + 1] <= x
        /\ \A m \in k + 1 .. Len(bases) - 1 : bases[m + 1] > x

indiceLongitud(len) == Indice(LBASE, len)

\* Mutant: >= in the loop.
indiceDistancia_Estricta(dist) == IF dist = 1 THEN 0 ELSE Indice(DBASE, dist - 1)

indiceDistancia(dist) == Indice(DBASE, dist)

\* What was written, bit by bit; put adds some bits, the low one first.
EscritorVacio == << >>

Put(e, v, l) == e \o [k \in 1 .. l |-> (v \div 2^(k - 1)) % 2]

\* The last byte is filled with zeros.
Flush(e) == e \o [k \in 1 .. (8 - (Len(e) % 8)) % 8 |-> 0]

\* The bytes of out: the first of eight bits is the low one.
Escrito(e) ==
    [k \in 1 .. Len(e) \div 8 |-> LET b(j) == e[8 * (k - 1) + j + 1] IN
        b(0) + 2 * b(1) + 4 * b(2) + 8 * b(3) + 16 * b(4) + 32 * b(5) + 64 * b(6) + 128 * b(7)]

invertir(v, l) ==
    LET r[k \in 0 .. l] == IF k = 0 THEN 0 ELSE 2 * r[k - 1] + ((v \div 2^(k - 1)) % 2)
    IN  r[l]

\* Mutant: every symbol begins a byte.
emitirSimbolo_Alineado(e, sym) ==
    Flush(CASE sym <= 143 -> Put(e, invertir(48 + sym, 8), 8)
            [] sym \in 144 .. 255 -> Put(e, invertir(400 + sym - 144, 9), 9)
            [] sym \in 256 .. 279 -> Put(e, invertir(sym - 256, 7), 7)
            [] OTHER -> Put(e, invertir(192 + sym - 280, 8), 8))

emitirSimbolo(e, sym) ==
    CASE sym <= 143 -> Put(e, invertir(48 + sym, 8), 8)
      [] sym \in 144 .. 255 -> Put(e, invertir(400 + sym - 144, 9), 9)
      [] sym \in 256 .. 279 -> Put(e, invertir(sym - 256, 7), 7)
      [] OTHER -> Put(e, invertir(192 + sym - 280, 8), 8)

\* Mutant: the extra bits of the length are inverted, as the codes are.
EscribirCoincidencia_ExtraInvertido(e, len, dist) ==
    LET li == indiceLongitud(len)
        di == indiceDistancia(dist)
        l1 == emitirSimbolo(e, 257 + li)
        l2 == Put(l1, invertir(len - LBASE[li + 1], LEXTRA[li + 1]), LEXTRA[li + 1])
        d1 == Put(l2, invertir(di, 5), 5)
    IN  Put(d1, dist - DBASE[di + 1], DEXTRA[di + 1])

\* A repetition: length and distance, each a code and its extra bits.
EscribirCoincidencia(e, len, dist) ==
    LET li == indiceLongitud(len)
        di == indiceDistancia(dist)
        l1 == emitirSimbolo(e, 257 + li)
        l2 == Put(l1, len - LBASE[li + 1], LEXTRA[li + 1])
        d1 == Put(l2, invertir(di, 5), 5)
    IN  Put(d1, dist - DBASE[di + 1], DEXTRA[di + 1])
==============================================================================
