\* Two calls of one process and two writers of its event loop; two turns that
\* ask for the context of governance, two of its reloads and a touch of the seal.
CONSTANTS
    Procesos = {p1}
    Mesa = p1
    Llamadas = {c1, c2}
    Escritores = {w1, w2}
    EscritoresDeMesa = {w1, w2}
    Entornos <- Tres
    FTTL = 1
    FSTALE = 2
    CTTL = 1
    CSTALE = 2
    BindingsVacios = {2}
    MaxBinding = 2
    MaxLlaves = 2
    MaxReloj = 4
    Turnos = {t1, t2}
    MaxRecargas = 2
    MaxCatalogo = 1
    MaxFicheros = 1
    MaxSellos = 1
SPECIFICATION SellosSpec
CONSTRAINT DentroDeAmbas
SYMMETRY Simetria
CHECK_DEADLOCK FALSE
INVARIANTS
    FrescoTrasSello
    EdadDeLoServido
    VeSuMarca
    UnaSenal
