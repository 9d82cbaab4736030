\* Two connections that create characters of two accounts, deletions by other
\* programs and a MySQL that may die: slots, nicks, and what CUENTA shows.
CONSTANTS
    Hashes <- MCHashes
    Mantenimiento = FALSE
    ExigirContrasena = FALSE
    Activacion = 2
    Claves = {"a1", "b1"}
    Ip <- MCIp
    ClavesNulas = {}
    Usuarios = {"ana", "luis"}
    FilasCuenta <- FilasDos
    Nicks = {"Recluso", "x", "y"}
    Nombres <- MCNombres
    Corto <- MCCorto
    Datagramas <- DatosPersonajes
    NumPrisiones = 1
    ListaRica = FALSE
    ClassInfo = FALSE
    EnterGame = FALSE
    IdInicial = 0
    CaducidadUso = 2
    Palabra = 64
    BdFalla = TRUE
    InsercionFalla = FALSE
    MaxId = 2
    MaxIdMensaje = 2
    MaxReloj = 1
    MaxBorrados = 1
SPECIFICATION Spec
INVARIANTS RanurasContiguas CreadoUnaVez InsercionPrevista
PROPERTY CuentaCompleta
