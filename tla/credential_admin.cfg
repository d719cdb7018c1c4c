\* Two requests, two activations and cuts between statements; two requests of
\* each lane; three extractions in pools of two workers.
CONSTANTS
    Peticiones = {r1, r2}
    Activaciones = {a1, a2}
    Nadie = nadie
    MAX_ACTIVE = 2
    MaxLlaves = 4
    HayCortes = TRUE
    Mesas = {m1, m2}
    Ejecutores = {e1, e2}
    Nada = nada
    Extracciones = {x1, x2, x3}
    Cierre = cierre
    SinDueno = sinDueno
    Procesos = 2
    MaxPools = 3
    MaxRoturas = 1
SPECIFICATION ProcesosSpec
SYMMETRY Simetria
CHECK_DEADLOCK FALSE
INVARIANTS
    CotaDeActivas
    AuditoriaVeraz
    CarrilConDueno
    MesaPrimero
    SinColaEnElPool
    NingunPoolFantasma
PROPERTIES
    MotorConLaMasNueva
