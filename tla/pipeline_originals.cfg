SPECIFICATION Spec
CONSTANTS
  Docs = {d1}
  Copias = {c1, c2}
  Trabajos = {j1, j2}
  Despachadores = {p1, p2}
  Peticiones = {r1, r2}
  Usuarios = {u1}
  Nadie = Nadie
  Fuente = Fuente
  Respuestas <- RespuestasMC
  RutasPorTrabajo = 1
  MaxVueltas = 2
  MaxCambios = 0
  MaxCaidas = 0
  MaxOlvidos = 1
  MaxPerdidas = 1
  Escenarios = {"archivos", "candado", "cierres"}
CONSTRAINT Dentro
SYMMETRY SimetriaDeEscenarios
INVARIANTS OriginalNuncaSePierde
PROPERTIES FinalSoloPorReencolar
CHECK_DEADLOCK FALSE
