\* A revocation by id and an activation.
CONSTANTS
    Peticiones = {r1}
    Activaciones = {a1}
    Nadie = nadie
    MAX_ACTIVE = 2
    MaxLlaves = 2
    HayCortes = FALSE
SPECIFICATION Spec
CHECK_DEADLOCK FALSE
PROPERTIES
    MotorConservaSuLlave
