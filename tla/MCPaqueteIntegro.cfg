\* The static array of enviarFiable under both threads.
CONSTANTS
    Hilos = {"LOGIN", "MUNDO"}
    Fragmentan = {"LOGIN"}
    Sesiones = {"l", "m"}
    HiloDe <- MCHiloDe
    NumsFrag = {2}
    MaxPaquetes <- MCMaxPaquetes
SPECIFICATION Spec
INVARIANT PaqueteIntegro
CHECK_DEADLOCK FALSE
