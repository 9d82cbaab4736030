\* Two players, four datagrams, the window: a second SYN of a player who is listed.
CONSTANTS
    Claves = {"p", "q"}
    ClavesNulas = {}
    Spawn = TRUE
    Room = TRUE
    NumBarrido = 0
    MaxLlegadas = 4
SPECIFICATION Spec
INVARIANT ListaActual
CHECK_DEADLOCK FALSE
