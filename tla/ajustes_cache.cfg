\* Two calls, one PUT in flight, edits by hand, a TTL of two ticks; two
\* uploads of which one fits, one of them an image, and a crash.
CONSTANTS
    Llamadas = {c1, c2}
    Nadie = Nadie
    Guardados = {p1}
    TTL = 2
    MaxVersion = 2
    MaxInvalidaciones = 2
    MaxReloj = 3
    Subidas = {s1, s2}
    Imagenes = {s1}
    Tamano <- DosBytes
    Cuota = 3
    Ninguna = Ninguna
    MaxMuertes = 1
SPECIFICATION CerrojosSpec
SYMMETRY Simetria
CHECK_DEADLOCK FALSE
INVARIANTS
    FrescoTrasInvalidar
    UnaRecarga
    EdadAcotada
    CuotaRespetada
    LoEntregadoSeLee
