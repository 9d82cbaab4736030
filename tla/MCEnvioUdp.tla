------------------------------ MODULE MCEnvioUdp ------------------------------
(* Small instances of EnvioUdp. *)
EXTENDS EnvioUdp

MCHiloDe == [s \in {"l", "m"} |-> IF s = "l" THEN "LOGIN" ELSE "MUNDO"]

MCMaxPaquetes == [s \in {"l", "m"} |-> IF s = "l" THEN 3 ELSE 2]
==============================================================================
