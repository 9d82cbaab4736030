\* One account whose row an administrator edits, every record of a login session,
\* several records per datagram, a dying MySQL: the flags and the message ids.
CONSTANTS
    Hashes <- MCHashes
    Mantenimiento = FALSE
    ExigirContrasena = FALSE
    Activacion = 2
    Claves = {"a1", "b1"}
    Ip <- MCIp
    ClavesNulas = {"b1"}
    Usuarios = {"ana"}
    FilasCuenta <- FilasPasos
    Nicks = {"Recluso"}
    Nombres <- UnNombre
    Corto <- UnCorto
    Datagramas <- DatosPasos
    NumPrisiones = 1
    ListaRica = TRUE
    ClassInfo = TRUE
    EnterGame = TRUE
    IdInicial = 0
    CaducidadUso = 2
    Palabra = 64
    BdFalla = TRUE
    InsercionFalla = FALSE
    MaxId = 2
    MaxIdMensaje = 4
    MaxReloj = 1
    MaxBorrados = 0
SPECIFICATION Spec
INVARIANTS TypeOK RespuestasUnicas NumeracionContinua
PROPERTY ImplementaServicio
