SPECIFICATION Spec
CONSTANTS
  Docs = {d1}
  Copias = {c1, c2}
  Trabajos = {j1, j2}
  Despachadores = {p1, p2}
  Peticiones = {r1}
  Usuarios = {u1}
  Nadie = Nadie
  Fuente = Fuente
  Respuestas <- RespuestasMinimas
  RutasPorTrabajo = 1
  MaxVueltas = 2
  MaxCambios = 0
  MaxCaidas = 0
  MaxOlvidos = 0
  MaxPerdidas = 1
SYMMETRY Simetria
INVARIANTS DuplicadoSeIgnora
CHECK_DEADLOCK FALSE
