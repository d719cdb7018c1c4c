\* The provider's only key is revoked, with the database up.
CONSTANTS
    Procesos = {p1}
    Mesa = p1
    Llamadas = {c1}
    Escritores = {}
    EscritoresDeMesa = {}
    Entornos <- LlavesConBase
    FTTL = 1
    FSTALE = 2
    CTTL = 1
    CSTALE = 2
    BindingsVacios = {}
    MaxBinding = 0
    MaxLlaves = 1
    MaxReloj = 2
SPECIFICATION Spec
CHECK_DEADLOCK FALSE
INVARIANTS
    RevocacionEnTTL
