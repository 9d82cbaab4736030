------------------------------- MODULE MCEnlace -------------------------------
(***************************************************************************)
(* Small instances of Enlace: words of four bits, the low ones of the      *)
(* constants of the code, and an address whose key is 0.                   *)
(***************************************************************************)
EXTENDS Enlace

MCBits == 0 .. 3
MCSemilla == {0, 2}              \* 0x5
MCMascara == {1}                 \* 0x2
MCExtremos == {{0, 2}, {1, 2, 3}}   \* 0x5, whose key is 0, and 0xE
MCMarca == << {2}, {0, 2}, {1, 2} >>   \* 0x4, 0x5, 0x6
==============================================================================
