------------------------------- MODULE MCTabla -------------------------------
(***************************************************************************)
(* Small instances of Tabla: bytes on both sides of the ranges of the      *)
(* Huffman code, every short buffer, and long ones that repeat.            *)
(***************************************************************************)
EXTENDS Tabla, Bitwise

MCByte == {0, 97, 143, 144, 255}
MCCubos == 0 .. 7
MCDispersion ==
    [t \in MCByte \X MCByte \X MCByte |-> (((t[1] * 4) ^^ (t[2] * 2)) ^^ t[3]) % 8]

\* A sequence as a buffer.
Bufer(s) == [j \in 0 .. Len(s) - 1 |-> s[j + 1]]

\* The sequence s, repeated up to l bytes.
Repetida(s, l) == [j \in 0 .. l - 1 |-> s[(j % Len(s)) + 1]]

MCEntradas ==
    {Bufer(s) : s \in UNION {[1 .. l -> {97, 144}] : l \in 0 .. 7}}
        \cup {Bufer(s) : s \in UNION {[1 .. l -> {0, 143, 255}] : l \in 1 .. 4}}
        \cup {Repetida(s, l) : s \in {<<0>>, <<97, 144>>, <<255, 0, 143, 97, 144>>,
                                     <<0, 0, 0, 97, 0, 0, 144, 0, 0, 0, 255, 97, 143>>},
                               l \in {19, 40}}

MCCasos ==
    {[id |-> 1, clave |-> <<90, 165, 0, 255>>, pedidos |-> << <<161, 19>>, <<170, 19, 7>> >>],
     [id |-> 300, clave |-> <<1, 2, 3, 4>>, pedidos |-> << <<153, 19>>, <<136, 19>>, <<0, 0, 0, 0>> >>]}
==============================================================================
