\* The start, three servers that log, and a window that drains, fills its console and closes.
CONSTANTS
    Principal = principal
    Login = login
    Updates = updates
    Mundo = mundo
    MaxCola = 8
    LimiteEdit = 17
    MaxTexto = 36
    Recorte = 18
    Ancho = 2
    Contenido = 1
    PorPaquete <- MCPorPaquete
    MaxLineas <- MCMaxLineas
CHECK_DEADLOCK FALSE
SPECIFICATION Spec
INVARIANTS TypeOK ColaFiel ConsolaFiel OrdenReal FicheroAlDia
