\* Two players, four datagrams, the window: appearances, PINGs and the monitor.
CONSTANTS
    Claves = {"p", "q"}
    ClavesNulas = {}
    Spawn = TRUE
    Room = TRUE
    NumBarrido = 0
    MaxLlegadas = 4
SPECIFICATION Spec
INVARIANTS TypeOK AparicionEntera ListaFiel VistaCoherente
PROPERTIES PingContestado ImplementaServicio
CHECK_DEADLOCK FALSE
