SPECIFICATION Spec
CONSTANTS
  Docs = {d1, d2}
  Copias = {c1, c2}
  Trabajos = {j1, j2, j3}
  Despachadores = {p1, p2}
  Peticiones = {r1}
  Usuarios = {u1, u2}
  Nadie = Nadie
  Fuente = Fuente
  Respuestas <- RespuestasMC
  RutasPorTrabajo = 2
  MaxVueltas = 3
  MaxCambios = 2
  MaxCaidas = 1
  MaxOlvidos = 1
  MaxPerdidas = 1
  Escenarios = {"intentos", "caida", "cambios", "duenos", "tardio"}
CONSTRAINT Dentro
SYMMETRY SimetriaDeEscenarios
INVARIANTS ResultadoDelIntento UnTrabajoPorTrozo TrabajoDeUnDueno
CHECK_DEADLOCK FALSE
