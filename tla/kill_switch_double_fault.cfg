\* The sync fails after the unlink, and the rollback fails: nothing is put back.
CONSTANTS
    Llamadas = {c1, c2}
    Entornos <- DiscoYBase
SPECIFICATION Spec
PROPERTIES
    SiempreSeRepone
