\* One client that opens twice, a network that loses two datagrams and repeats any.
CONSTANTS
    Bits <- MCBits
    Extremos <- MCExtremos
    Semilla <- MCSemilla
    Mascara <- MCMascara
    Marca <- MCMarca
    MaxIntentos = 2
    MaxId = 3
    MaxPerdidas = 2
SPECIFICATION SpecJusta
INVARIANTS TypeOK ClaveCompartida ConfirmadoNoEspera
PROPERTIES VeredictoLlega CierreConfirmado
