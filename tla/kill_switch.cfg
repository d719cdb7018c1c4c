\* Every combination of faults, and somebody changing the legacy file; two
\* requests for missions, a change of the pause and the contracts of JAX; two
\* invitations of one subject, two runs of the worker, two guests, a run that dies.
CONSTANTS
    Llamadas = {c1, c2}
    Entornos <- Todos
    Turnos = {t1, t2}
    CambiosDePausa = {p1}
    SinTurno = SinTurno
    EntornosEM <- TodosEM
    theSubject = theSubject
    Invitations = {i1, i2}
    Subject <- OneSubject
    Unreadable = {}
    Workers = {w1, w2}
    Guests = {g1, g2}
    Nobody = Nobody
    ExpiryLimit = 1
    BatchLimit = 2
    MaxDeaths = 1
SPECIFICATION FrenosSpec
SYMMETRY SimetriaFrenos
INVARIANTS
    SueltoConAuditoria
    AvisoAlDia
    UnTurnoALaVez
    PausaFrena
    AtMostOneMail
    RelayTruth
    BearerErased
    OneMember
PROPERTIES
    RespuestaVeraz
    UnSoloCierre
