\* One login client and one player: the two threads that send at once.
CONSTANTS
    Hilos = {"LOGIN", "MUNDO"}
    Fragmentan = {"LOGIN"}
    Sesiones = {"l", "m"}
    HiloDe <- MCHiloDe
    NumsFrag = {2}
    MaxPaquetes <- MCMaxPaquetes
SPECIFICATION Spec
INVARIANTS TypeOK FragmentosIntegros MezclaSoloSolapada
CHECK_DEADLOCK FALSE
