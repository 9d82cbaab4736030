\* A LOGIN refused as "account in use" while nobody is in.
CONSTANTS
    Hashes <- MCHashes
    Mantenimiento = FALSE
    ExigirContrasena = FALSE
    Activacion = 2
    Claves = {"a1", "a2", "b1"}
    Ip <- MCIp
    ClavesNulas = {}
    Usuarios = {"ana"}
    FilasCuenta <- FilasUna
    Nicks = {"Recluso"}
    Nombres <- UnNombre
    Corto <- UnCorto
    Datagramas <- DatosSesiones
    NumPrisiones = 1
    ListaRica = FALSE
    ClassInfo = FALSE
    EnterGame = FALSE
    IdInicial = 0
    CaducidadUso = 2
    Palabra = 64
    BdFalla = FALSE
    InsercionFalla = FALSE
    MaxId = 3
    MaxIdMensaje = 20
    MaxReloj = 3
    MaxBorrados = 0
SPECIFICATION Spec
PROPERTY EnUsoReal
