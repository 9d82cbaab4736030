\* Tables compressed, sent in one packet or in fragments, and read by the client.
CONSTANTS
    Byte <- MCByte
    Cubos <- MCCubos
    Dispersion <- MCDispersion
    MinMatch = 3
    MaxMatch = 24
    MaxDist = 10
    MaxCadena = 2
    Entradas <- MCEntradas
    Casos <- MCCasos
    Trozo = 12
    MaxBloque = 3
SPECIFICATION SpecTablaJusta
INVARIANTS TypeOK Fiel FichasValidas FichasExactas CadenasCompletas Voraz RegistrosLeidos TablaLlega TamanoAcotado CodigosExactos StoredFiel
PROPERTY Acaba
