\* One document, two jobs, a crash and a forgotten job; two invitations, one of them
\* with a mail that cannot be decrypted, that nobody accepts, and a run of the worker
\* that dies; two runs of the synchronisation of the catalogue, with two failures.
SPECIFICATION PlazosSpec
CONSTANTS
  Docs = {d1}
  Copias = {c1}
  Trabajos = {j1, j2}
  Despachadores = {p1}
  Peticiones = {r1}
  Usuarios = {u1}
  Nadie = Nadie
  Fuente = Fuente
  Respuestas <- RespuestasMinimas
  RutasPorTrabajo = 1
  MaxVueltas = 2
  MaxCambios = 0
  MaxCaidas = 1
  MaxOlvidos = 1
  MaxPerdidas = 0
  i1 = i1
  i2 = i2
  s1 = s1
  s2 = s2
  Invitations = {i1, i2}
  Subject <- TwoSubjects
  Unreadable = {i2}
  Workers = {w1}
  Guests = {}
  Nobody = Nobody
  ExpiryLimit = 1
  BatchLimit = 2
  MaxDeaths = 1
  Corridas = {k1, k2}
  SinCorrida = SinCorrida
  MaxTropiezos = 2
INVARIANTS
  UnaCorriendo
  CierreVeraz
PROPERTIES
  NoQuedaAbierta
  Resolved
  CerradaSeQueda
  NadieCorreParaSiempre
CHECK_DEADLOCK FALSE
