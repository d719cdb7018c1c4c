-------------------------- MODULE DocumentPipeline --------------------------
(***************************************************************************)
(* The durable document pipeline of a project (proyectos_documentos): the  *)
(* rows of project_documents, the copies under entrada/, the originals     *)
(* under fuente/, the jobs of the external service LAS MANOS, the          *)
(* dispatcher tasks that move rows between them and the HTTP requests that *)
(* add, re-queue, hide and restore documents.                              *)
(*                                                                         *)
(* One model action is one await-delimited step of the code, so the tasks  *)
(* interleave exactly where asyncio lets them.  One project is modelled; a *)
(* "document" is a content (its sha256), and UNIQUE (project_id, sha256)   *)
(* makes it also the row.                                                  *)
(***************************************************************************)
EXTENDS Naturals, FiniteSets

CONSTANTS
  Docs,               \* documents of the project (one row each at most)
  Copias,             \* file names under entrada/, each used by one upload
  Trabajos,           \* job ids LAS MANOS can hand out
  Despachadores,      \* dispatcher tasks: the interval loop, despachar_ahora
  Peticiones,         \* HTTP requests in flight
  Usuarios,           \* users that upload or reprocess
  Nadie,              \* null value of every optional field
  Fuente,             \* the path of a document's original under fuente/
  Respuestas,         \* results LAS MANOS gives a file (a subset of Resultados)
  RutasPorTrabajo,    \* ajuste proyectos.documentos.rutas_por_trabajo
  MaxVueltas,         \* bound: times a row enters the queue
  MaxCambios,         \* bound: hide/restore and archive/reactivate operations
  MaxCaidas,          \* bound: crashes of the platform process
  MaxOlvidos,         \* bound: jobs LAS MANOS forgets
  MaxPerdidas         \* bound: drops of the connection that holds GET_LOCK

ASSUME DatosAssumption ==
  /\ Fuente \notin Copias
  /\ Nadie \notin Copias \union Docs \union Trabajos \union Despachadores
                  \union Usuarios \union {Fuente}

ASSUME NumerosAssumption ==
  /\ RutasPorTrabajo \in Nat \ {0}
  /\ MaxVueltas \in Nat
  /\ MaxCambios \in Nat
  /\ MaxCaidas \in Nat
  /\ MaxOlvidos \in Nat
  /\ MaxPerdidas \in Nat

VARIABLES
  \* project_documents, one function per column
  estado, jobId, ruta, carpeta, oculto, dueno, actualizado,
  vuelta,         \* history: how many times the row entered en_cola
  \* the workspace
  contenido,      \* document written under each name of entrada/
  presente,       \* names of entrada/ that exist on disk
  fuente,         \* documents whose original is under fuente/
  activo,         \* jax_project_scope.status = 'ACTIVE'
  \* LAS MANOS (external)
  tEstado, pedido, resultado,
  \* the dispatcher
  candado,        \* task whose connection holds GET_LOCK
  incertidumbre,  \* _en_incertidumbre, memory of the process
  paso, porConsultar, trabajo, foto, filas, leidas, trozo, porBorrar,
  \* the requests
  pPaso, pDoc, pUsuario, pCopia,
  cambios, caidas, olvidos, perdidas   \* how much of each bound is spent

columnas  == <<estado, jobId, ruta, carpeta, oculto, dueno, actualizado, vuelta>>
archivos  == <<contenido, presente, fuente>>
lasManos  == <<tEstado, pedido, resultado>>
tareas    == <<paso, porConsultar, trabajo, foto, filas, leidas, trozo, porBorrar>>
peticion  == <<pPaso, pDoc, pUsuario, pCopia>>
cotas     == <<cambios, caidas, olvidos, perdidas>>
vars == <<columnas, archivos, activo, lasManos, candado, incertidumbre, tareas,
          peticion, cotas>>

-----------------------------------------------------------------------------
Abiertos == {"pendiente", "procesando"}
\* "parcial" follows the same path as "listo" everywhere and is folded into it.
ESTADOS_FINALES == {"listo", "error", "sin_extractor", "cancelado"}
Estados  == {"no_existe", "en_cola"} \union Abiertos \union ESTADOS_FINALES
Carpetas == {"ninguna", "propia", "ajena"}

SinResultado == [estado |-> "sin_resultado", carpeta |-> "ninguna"]
Resultados   == [estado : ESTADOS_FINALES, carpeta : Carpetas]
ASSUME RespuestasAssumption == Respuestas \subseteq Resultados
Foto         == [estado : {"corriendo", "completed", "cancelled"},
                 res : [Docs -> Resultados \union {SinResultado}]]
FotoVacia    == [estado |-> "corriendo", res |-> [d \in Docs |-> SinResultado]]

\* A row as tomar_en_cola reads it; vuelta rides along as history.
Leida == [doc : Docs, ruta : Copias \union {Fuente}, dueno : Usuarios,
          actualizado : Nat, vuelta : Nat]
Fila  == [doc : Docs, ruta : Copias \union {Fuente}]

\* Fault: a key that forgets updated_at, the attempt.
ClaveSinIntento(filas_) == {[doc |-> f.doc, ruta |-> f.ruta] : f \in filas_}

\* The idempotency key of a chunk: per row its id, sha256, path and updated_at.
ClaveDe(filas_) ==
  {[doc |-> f.doc, ruta |-> f.ruta, actualizado |-> f.actualizado] : f \in filas_}

\* jax_project_scope and jax_users give a job's rows one owner or quarantine it.
DuenosDe(j) == {dueno[d] : d \in {e \in Docs : jobId[e] = j /\ estado[e] \in Abiertos}}
TrabajosAbiertos == {j \in Trabajos : Cardinality(DuenosDe(j)) = 1}

FilasEnCola ==
  {[doc |-> d, ruta |-> ruta[d], dueno |-> dueno[d], actualizado |-> actualizado[d],
    vuelta |-> vuelta[d]] :
     d \in {e \in Docs : estado[e] = "en_cola" /\ activo /\ e \notin incertidumbre}}

FrenoDeIncertidumbre == Cardinality(incertidumbre) >= 2 * RutasPorTrabajo

\* What LAS MANOS finds at a path: the copy if it is still there, the original.
Legible(d, r) == \/ r = Fuente /\ d \in fuente
                 \/ r \in presente /\ contenido[r] = d

-----------------------------------------------------------------------------
Init ==
  /\ estado = [d \in Docs |-> "no_existe"]
  /\ jobId = [d \in Docs |-> Nadie]
  /\ ruta = [d \in Docs |-> Nadie]
  /\ carpeta = [d \in Docs |-> "ninguna"]
  /\ oculto = [d \in Docs |-> FALSE]
  /\ dueno = [d \in Docs |-> Nadie]
  /\ actualizado = [d \in Docs |-> 0]
  /\ vuelta = [d \in Docs |-> 0]
  /\ contenido = [c \in Copias |-> Nadie]
  /\ presente = {}
  /\ fuente = {}
  /\ activo = TRUE
  /\ tEstado = [j \in Trabajos |-> "libre"]
  /\ pedido = [j \in Trabajos |-> {}]
  /\ resultado = [j \in Trabajos |-> [d \in Docs |-> SinResultado]]
  /\ candado = Nadie
  /\ incertidumbre = {}
  /\ paso = [p \in Despachadores |-> "libre"]
  /\ porConsultar = [p \in Despachadores |-> {}]
  /\ trabajo = [p \in Despachadores |-> Nadie]
  /\ foto = [p \in Despachadores |-> FotoVacia]
  /\ filas = [p \in Despachadores |-> {}]
  /\ leidas = [p \in Despachadores |-> {}]
  /\ trozo = [p \in Despachadores |-> {}]
  /\ porBorrar = [p \in Despachadores |-> Nadie]
  /\ pPaso = [r \in Peticiones |-> "libre"]
  /\ pDoc = [r \in Peticiones |-> Nadie]
  /\ pUsuario = [r \in Peticiones |-> Nadie]
  /\ pCopia = [r \in Peticiones |-> Nadie]
  /\ cambios = 0
  /\ caidas = 0
  /\ olvidos = 0
  /\ perdidas = 0

-----------------------------------------------------------------------------
(* Requests.  pCopia is the file the request still owns or must delete.    *)

Responder(r) ==
  /\ pPaso' = [pPaso EXCEPT ![r] = "libre"]
  /\ pDoc' = [pDoc EXCEPT ![r] = Nadie]
  /\ pUsuario' = [pUsuario EXCEPT ![r] = Nadie]
  /\ pCopia' = [pCopia EXCEPT ![r] = Nadie]

IrA(r, destino) ==
  /\ pPaso' = [pPaso EXCEPT ![r] = destino]
  /\ UNCHANGED <<pDoc, pUsuario, pCopia>>

\* Delete the copy c and answer; the deletion may fail and leave it on disk.
PorBorrarAntes(r, d, c) ==
  /\ pPaso' = [pPaso EXCEPT ![r] = "borrar_anterior"]
  /\ pDoc' = [pDoc EXCEPT ![r] = d]
  /\ pCopia' = [pCopia EXCEPT ![r] = c]
  /\ pUsuario' = [pUsuario EXCEPT ![r] = Nadie]

\* Every UPDATE that puts a row back in en_cola also moves updated_at.
VolverALaCola(d, camino, u) ==
  /\ estado' = [estado EXCEPT ![d] = "en_cola"]
  /\ jobId' = [jobId EXCEPT ![d] = Nadie]
  /\ ruta' = [ruta EXCEPT ![d] = camino]
  /\ dueno' = [dueno EXCEPT ![d] = u]
  /\ actualizado' = [actualizado EXCEPT ![d] = @ + 1]
  /\ vuelta' = [vuelta EXCEPT ![d] = @ + 1]
  /\ UNCHANGED <<carpeta, oculto>>

\* escribir_streaming leaves the whole file under a name no other upload uses.
Subir(r, u, d, c) ==
  /\ pPaso[r] = "libre"
  /\ activo
  /\ contenido[c] = Nadie
  /\ contenido' = [contenido EXCEPT ![c] = d]
  /\ presente' = presente \union {c}
  /\ pPaso' = [pPaso EXCEPT ![r] = "escrito"]
  /\ pDoc' = [pDoc EXCEPT ![r] = d]
  /\ pUsuario' = [pUsuario EXCEPT ![r] = u]
  /\ pCopia' = [pCopia EXCEPT ![r] = c]
  /\ UNCHANGED <<columnas, fuente, activo, lasManos, candado, incertidumbre, tareas, cotas>>

InsertaFila(r) ==
  /\ activo
  /\ estado[pDoc[r]] = "no_existe"
  /\ vuelta[pDoc[r]] < MaxVueltas
  /\ VolverALaCola(pDoc[r], pCopia[r], pUsuario[r])

\* INSERT committed, or committed and the answer lost: the file stays either way.
InsertarAceptado(r) ==
  /\ pPaso[r] = "escrito"
  /\ InsertaFila(r)
  /\ Responder(r)
  /\ UNCHANGED <<archivos, activo, lasManos, candado, incertidumbre, tareas, cotas>>

\* The outcome of the INSERT or of the re-queue is unknown and nothing was
\* written: the disk is not touched.
ResultadoIncierto(r) ==
  /\ pPaso[r] \in {"escrito", "duplicado"}
  /\ Responder(r)
  /\ UNCHANGED <<columnas, archivos, activo, lasManos, candado, incertidumbre, tareas, cotas>>

InsertarDuplicado(r) ==
  /\ pPaso[r] = "escrito"
  /\ activo
  /\ estado[pDoc[r]] # "no_existe"
  /\ IrA(r, "duplicado")
  /\ UNCHANGED <<columnas, archivos, activo, lasManos, candado, incertidumbre, tareas, cotas>>

\* ProyectoNoActivo, MembresiaPerdida or the emergency brake: a definitive no.
Rechazar(r) ==
  /\ pPaso[r] \in {"escrito", "duplicado"}
  /\ IrA(r, "borrar_propia")
  /\ UNCHANGED <<columnas, archivos, activo, lasManos, candado, incertidumbre, tareas, cotas>>

Atascado(d) == estado[d] = "error" /\ carpeta[d] = "ninguna" /\ ~oculto[d]

\* reencolar_atascado; when the commit's answer is lost the old copy stays.
ReencolarAtascado(r) ==
  LET d == pDoc[r] IN
  /\ pPaso[r] = "duplicado"
  /\ activo
  /\ Atascado(d)
  /\ vuelta[d] < MaxVueltas
  /\ VolverALaCola(d, pCopia[r], pUsuario[r])
  /\ \/ ruta[d] \in Copias /\ PorBorrarAntes(r, d, ruta[d])
     \/ Responder(r)
  /\ UNCHANGED <<archivos, activo, lasManos, candado, incertidumbre, tareas, cotas>>

DuplicadoComun(r) ==
  /\ pPaso[r] = "duplicado"
  /\ ~Atascado(pDoc[r])
  /\ IrA(r, "borrar_propia")
  /\ UNCHANGED <<columnas, archivos, activo, lasManos, candado, incertidumbre, tareas, cotas>>

\* The endpoint reads the row and finds the original in fuente/ before the
\* UPDATE repeats every condition; fuente/ only grows, so one step stands for both.
Reprocesar(r, u, d) ==
  /\ pPaso[r] = "libre"
  /\ activo
  /\ estado[d] \in {"sin_extractor", "error"}
  /\ ~oculto[d]
  /\ d \in fuente
  /\ vuelta[d] < MaxVueltas
  /\ VolverALaCola(d, Fuente, u)
  /\ IF ruta[d] \in Copias THEN PorBorrarAntes(r, d, ruta[d]) ELSE UNCHANGED peticion
  /\ UNCHANGED <<archivos, activo, lasManos, candado, incertidumbre, tareas, cotas>>

BorrarDePeticion(r) ==
  /\ pPaso[r] \in {"borrar_propia", "borrar_anterior"}
  /\ presente' \in {presente, presente \ {pCopia[r]}}
  /\ Responder(r)
  /\ UNCHANGED <<columnas, contenido, fuente, activo, lasManos, candado, incertidumbre,
                 tareas, cotas>>

Cambiar == cambios < MaxCambios /\ cambios' = cambios + 1

\* Fault: hiding lets updated_at move.
VisibilidadMueveClave(d) ==
  /\ Cambiar
  /\ activo
  /\ estado[d] # "no_existe"
  /\ oculto' = [oculto EXCEPT ![d] = ~@]
  /\ actualizado' = [actualizado EXCEPT ![d] = @ + 1]
  /\ UNCHANGED <<estado, jobId, ruta, carpeta, dueno, vuelta, archivos, activo, lasManos,
                 candado, incertidumbre, tareas, peticion, caidas, olvidos, perdidas>>

\* ocultar and restaurar assign updated_at = updated_at: the key must not move.
CambiarVisibilidad(d) ==
  /\ Cambiar
  /\ activo
  /\ estado[d] # "no_existe"
  /\ oculto' = [oculto EXCEPT ![d] = ~@]
  /\ UNCHANGED <<estado, jobId, ruta, carpeta, dueno, actualizado, vuelta, archivos, activo,
                 lasManos, candado, incertidumbre, tareas, peticion, caidas, olvidos,
                 perdidas>>

\* The project is archived or reactivated by the B9 life cycle.
CambiarProyecto ==
  /\ Cambiar
  /\ activo' = ~activo
  /\ UNCHANGED <<columnas, archivos, lasManos, candado, incertidumbre, tareas, peticion, caidas,
                 olvidos, perdidas>>

-----------------------------------------------------------------------------
(* The dispatcher: ciclo = _sincronizar, then _despachar, under GET_LOCK.  *)

Limpiar(p) ==
  /\ porConsultar' = [porConsultar EXCEPT ![p] = {}]
  /\ trabajo' = [trabajo EXCEPT ![p] = Nadie]
  /\ foto' = [foto EXCEPT ![p] = FotoVacia]
  /\ filas' = [filas EXCEPT ![p] = {}]
  /\ leidas' = [leidas EXCEPT ![p] = {}]
  /\ trozo' = [trozo EXCEPT ![p] = {}]
  /\ porBorrar' = [porBorrar EXCEPT ![p] = Nadie]

\* RELEASE_LOCK on the connection that took it; nothing to release if it dropped.
SoltarCandado(p) ==
  /\ paso' = [paso EXCEPT ![p] = "libre"]
  /\ Limpiar(p)
  /\ candado' = IF candado = p THEN Nadie ELSE candado

\* GET_LOCK(..., 0): a task that does not get it does nothing this time.
TomarCandado(p) ==
  /\ paso[p] = "libre"
  /\ candado = Nadie
  /\ candado' = p
  /\ paso' = [paso EXCEPT ![p] = "sincronizar"]
  /\ porConsultar' = [porConsultar EXCEPT ![p] = TrabajosAbiertos]
  /\ UNCHANGED <<columnas, archivos, activo, lasManos, incertidumbre, trabajo, foto, filas,
                 leidas, trozo, porBorrar, peticion, cotas>>

\* The connection that holds GET_LOCK drops; the task goes on without it.
PerderCandado(p) ==
  /\ perdidas < MaxPerdidas
  /\ perdidas' = perdidas + 1
  /\ candado = p
  /\ candado' = Nadie
  /\ UNCHANGED <<columnas, archivos, activo, lasManos, incertidumbre, tareas, peticion, cambios,
                 caidas, olvidos>>

\* GET /procesamiento/trabajos/{id}: a snapshot of the job.
Consultar(p, j) ==
  /\ paso[p] = "sincronizar"
  /\ j \in porConsultar[p]
  /\ tEstado[j] # "perdido"
  /\ porConsultar' = [porConsultar EXCEPT ![p] = @ \ {j}]
  /\ trabajo' = [trabajo EXCEPT ![p] = j]
  /\ foto' = [foto EXCEPT ![p] = [estado |-> tEstado[j], res |-> resultado[j]]]
  /\ paso' = [paso EXCEPT ![p] = "leer_filas"]
  /\ UNCHANGED <<columnas, archivos, activo, lasManos, candado, incertidumbre, filas, leidas,
                 trozo, porBorrar, peticion, cotas>>

\* 404: marcar_job_perdido closes what is still open and keeps carpeta_procesado.
TrabajoPerdido(p, j) ==
  /\ paso[p] = "sincronizar"
  /\ j \in porConsultar[p]
  /\ tEstado[j] = "perdido"
  /\ porConsultar' = [porConsultar EXCEPT ![p] = @ \ {j}]
  /\ estado' = [d \in Docs |-> IF jobId[d] = j /\ estado[d] \in Abiertos
                               THEN "error" ELSE estado[d]]
  /\ UNCHANGED <<jobId, ruta, carpeta, oculto, dueno, actualizado, vuelta, archivos, activo,
                 lasManos, candado, incertidumbre, paso, trabajo, foto, filas, leidas, trozo,
                 porBorrar, peticion, cotas>>

\* Another answer or a network error skips the job; a timeout skips them all.
ConsultaFallida(p, j) ==
  /\ paso[p] = "sincronizar"
  /\ j \in porConsultar[p]
  /\ porConsultar' \in {[porConsultar EXCEPT ![p] = @ \ {j}], [porConsultar EXCEPT ![p] = {}]}
  /\ UNCHANGED <<columnas, archivos, activo, lasManos, candado, incertidumbre, paso, trabajo,
                 foto, filas, leidas, trozo, porBorrar, peticion, cotas>>

Siguiente(p, quedan) ==
  /\ filas' = [filas EXCEPT ![p] = quedan]
  /\ paso' = [paso EXCEPT ![p] = IF quedan = {} THEN "sincronizar" ELSE "aplicar"]
  /\ foto' = [foto EXCEPT ![p] = IF quedan = {} THEN FotoVacia ELSE @]
  /\ trabajo' = [trabajo EXCEPT ![p] = IF quedan = {} THEN Nadie ELSE @]

\* filas_abiertas_de_trabajo
LeerFilas(p) ==
  /\ paso[p] = "leer_filas"
  /\ Siguiente(p, {[doc |-> d, ruta |-> ruta[d]] :
                     d \in {e \in Docs : jobId[e] = trabajo[p] /\ estado[e] \in Abiertos}})
  /\ UNCHANGED <<columnas, archivos, activo, lasManos, candado, incertidumbre, porConsultar,
                 leidas, trozo, porBorrar, peticion, cotas>>

\* The rows cannot be read: the job is left for the next cycle.
LeerFilasFalla(p) ==
  /\ paso[p] = "leer_filas"
  /\ Siguiente(p, {})
  /\ UNCHANGED <<columnas, archivos, activo, lasManos, candado, incertidumbre, porConsultar,
                 leidas, trozo, porBorrar, peticion, cotas>>

\* Fault: a job that ended without a file's result leaves the row open.
DecidirEsperando(res, estadoTrabajo) ==
  IF res # SinResultado THEN res ELSE [estado |-> "procesando", carpeta |-> "ninguna"]

\* _decidir: the new state and carpeta_procesado of an open row.
Decidir(res, estadoTrabajo) ==
  CASE res # SinResultado -> res
    [] res = SinResultado /\ estadoTrabajo = "corriendo" ->
         [estado |-> "procesando", carpeta |-> "ninguna"]
    [] res = SinResultado /\ estadoTrabajo = "cancelled" ->
         [estado |-> "cancelado", carpeta |-> "ninguna"]
    [] res = SinResultado /\ estadoTrabajo = "completed" ->
         [estado |-> "error", carpeta |-> "ninguna"]

\* por_archivo.get(ruta_entrada): results are found by path.
ResultadoDe(p, f) ==
  IF \E g \in pedido[trabajo[p]] : g.doc = f.doc /\ g.ruta = f.ruta
  THEN foto[p].res[f.doc] ELSE SinResultado

\* Fault: any carpeta_procesado counts, another project's included.
CualquierCarpeta(decision) == decision.carpeta # "ninguna"

\* Fault: any applied result deletes the copy.
SinComprobarCarpeta(decision) == decision \in Resultados

\* _original_a_salvo: a carpeta_procesado of this very project.
OriginalASalvo(decision) == decision.carpeta = "propia"

\* Fault: the result is applied whatever the state of the row.
FilaDelTrabajo(d, j, camino) == jobId[d] = j /\ ruta[d] = camino

\* aplicar_resultado touches only the open row of that job and that path.
FilaAplicable(d, j, camino) ==
  jobId[d] = j /\ ruta[d] = camino /\ estado[d] \in Abiertos

AplicarFila(p, f) ==
  LET d        == f.doc
      res      == ResultadoDe(p, f)
      decision == Decidir(res, foto[p].estado)
      cambia   == FilaAplicable(d, trabajo[p], f.ruta)
      borra    == /\ cambia
                  /\ res # SinResultado
                  /\ OriginalASalvo(decision)
                  /\ f.ruta \in Copias
  IN
  /\ paso[p] = "aplicar"
  /\ f \in filas[p]
  /\ estado' = [estado EXCEPT ![d] = IF cambia THEN decision.estado ELSE @]
  /\ carpeta' = [carpeta EXCEPT ![d] = IF cambia THEN decision.carpeta ELSE @]
  /\ IF borra
     THEN /\ porBorrar' = [porBorrar EXCEPT ![p] = f.ruta]
          /\ paso' = [paso EXCEPT ![p] = "borrar_copia"]
          /\ filas' = [filas EXCEPT ![p] = @ \ {f}]
          /\ UNCHANGED <<foto, trabajo>>
     ELSE Siguiente(p, filas[p] \ {f}) /\ UNCHANGED porBorrar
  /\ UNCHANGED <<jobId, ruta, oculto, dueno, actualizado, vuelta, archivos, activo, lasManos,
                 candado, incertidumbre, porConsultar, leidas, trozo, peticion, cotas>>

\* An exception on one row leaves it for the next cycle and goes on.
AplicarFalla(p, f) ==
  /\ paso[p] = "aplicar"
  /\ f \in filas[p]
  /\ Siguiente(p, filas[p] \ {f})
  /\ UNCHANGED <<columnas, archivos, activo, lasManos, candado, incertidumbre, porConsultar,
                 leidas, trozo, porBorrar, peticion, cotas>>

\* borrar_copia: a failure is logged and the copy stays.
BorrarCopia(p) ==
  /\ paso[p] = "borrar_copia"
  /\ presente' \in {presente, presente \ {porBorrar[p]}}
  /\ porBorrar' = [porBorrar EXCEPT ![p] = Nadie]
  /\ Siguiente(p, filas[p])
  /\ UNCHANGED <<columnas, contenido, fuente, activo, lasManos, candado, incertidumbre,
                 porConsultar, leidas, trozo, peticion, cotas>>

\* _despachar: the brake, then tomar_en_cola.
TomarEnCola(p) ==
  /\ paso[p] = "sincronizar"
  /\ porConsultar[p] = {}
  /\ IF FrenoDeIncertidumbre
     THEN SoltarCandado(p)
     ELSE /\ leidas' = [leidas EXCEPT ![p] = FilasEnCola]
          /\ paso' = [paso EXCEPT ![p] = "despachar"]
          /\ UNCHANGED <<porConsultar, trabajo, foto, filas, trozo, porBorrar, candado>>
  /\ UNCHANGED <<columnas, archivos, activo, lasManos, incertidumbre, peticion, cotas>>

\* Fault: a chunk that mixes owners.
TrozoDeVariosDuenos(p, t) ==
  /\ paso[p] = "despachar"
  /\ t \subseteq leidas[p]
  /\ Cardinality(t) \in 1 .. RutasPorTrabajo

\* A chunk: rows read in this window, one owner, at most rutas_por_trabajo.
\* Which rows share a chunk (id order, class) is abstracted to any subset.
EsTrozo(p, t) ==
  /\ paso[p] = "despachar"
  /\ t \subseteq leidas[p]
  /\ Cardinality(t) \in 1 .. RutasPorTrabajo
  /\ \A f, g \in t : f.dueno = g.dueno

\* LAS MANOS on a POST: a known key gets its job, a new key a new job.
TrabajoDe(t) == {j \in Trabajos : tEstado[j] # "libre" /\ ClaveDe(pedido[j]) = ClaveDe(t)}

Acepta(j, t) ==
  \/ j \in TrabajoDe(t) /\ tEstado[j] # "perdido" /\ UNCHANGED lasManos
  \/ /\ TrabajoDe(t) = {}
     /\ tEstado[j] = "libre"
     /\ tEstado' = [tEstado EXCEPT ![j] = "corriendo"]
     /\ pedido' = [pedido EXCEPT ![j] = t]
     /\ UNCHANGED resultado

EnviarAceptado(p, t, j) ==
  /\ EsTrozo(p, t)
  /\ Acepta(j, t)
  /\ paso' = [paso EXCEPT ![p] = "ligar"]
  /\ trabajo' = [trabajo EXCEPT ![p] = j]
  /\ trozo' = [trozo EXCEPT ![p] = t]
  /\ UNCHANGED <<columnas, archivos, activo, candado, incertidumbre, porConsultar, foto, filas,
                 leidas, porBorrar, peticion, cotas>>

\* ReadTimeout, RemoteProtocolError, ReadError: the job may exist; the cycle is cut.
EnviarIncierto(p, t) ==
  /\ EsTrozo(p, t)
  /\ UNCHANGED lasManos \/ \E j \in Trabajos : Acepta(j, t)
  /\ incertidumbre' = incertidumbre \union {f.doc : f \in t}
  /\ SoltarCandado(p)
  /\ UNCHANGED <<columnas, archivos, activo, peticion, cotas>>

\* An answer that cuts the cycle: the request did not arrive, a global error,
\* a 202 without a readable job_id.
EnviarCortado(p, t) ==
  /\ EsTrozo(p, t)
  /\ UNCHANGED lasManos \/ \E j \in Trabajos : Acepta(j, t)
  /\ SoltarCandado(p)
  /\ UNCHANGED <<columnas, archivos, activo, incertidumbre, peticion, cotas>>

\* saltar_trozo (409, 503 of a lost key), saltar_grupo, saltar_proyecto: the
\* rows stay en_cola and the rest of the owner's window may be skipped too.
EnviarSaltado(p, t) ==
  /\ EsTrozo(p, t)
  /\ \/ leidas' = [leidas EXCEPT ![p] = @ \ t]
     \/ \E f \in t : leidas' = [leidas EXCEPT ![p] = {g \in @ : g.dueno # f.dueno}]
  /\ UNCHANGED <<columnas, archivos, activo, lasManos, candado, incertidumbre, paso,
                 porConsultar, trabajo, foto, filas, trozo, porBorrar, peticion, cotas>>

\* A 4xx about the request itself: marcar_error_en_cola.
EnviarRechazado(p, t) ==
  /\ EsTrozo(p, t)
  /\ estado' = [d \in Docs |-> IF /\ estado[d] = "en_cola"
                                  /\ \E f \in t : f.doc = d /\ f.dueno = dueno[d]
                               THEN "error" ELSE estado[d]]
  /\ leidas' = [leidas EXCEPT ![p] = @ \ t]
  /\ UNCHANGED <<jobId, ruta, carpeta, oculto, dueno, actualizado, vuelta, archivos, activo,
                 lasManos, candado, incertidumbre, paso, porConsultar, trabajo, foto, filas,
                 trozo, porBorrar, peticion, cotas>>

\* marcar_despachadas: only rows still en_cola of that owner take the job.
Ganadas(t) == {d \in Docs : estado[d] = "en_cola" /\ \E f \in t : f.doc = d /\ f.dueno = dueno[d]}

Ligar(p) ==
  LET ganadas == Ganadas(trozo[p]) IN
  /\ paso[p] = "ligar"
  /\ estado' = [d \in Docs |-> IF d \in ganadas THEN "pendiente" ELSE estado[d]]
  /\ jobId' = [d \in Docs |-> IF d \in ganadas THEN trabajo[p] ELSE jobId[d]]
  /\ leidas' = [leidas EXCEPT ![p] = @ \ trozo[p]]
  /\ trozo' = [trozo EXCEPT ![p] = {}]
  /\ trabajo' = [trabajo EXCEPT ![p] = Nadie]
  /\ paso' = [paso EXCEPT ![p] = "despachar"]
  /\ UNCHANGED <<ruta, carpeta, oculto, dueno, actualizado, vuelta, archivos, activo, lasManos,
                 candado, incertidumbre, porConsultar, foto, filas, porBorrar, peticion, cotas>>

\* The end of the window, or a database exception in _despachar.
TerminarCiclo(p) ==
  /\ \/ paso[p] = "sincronizar" /\ porConsultar[p] = {}
     \/ paso[p] = "despachar" /\ leidas[p] = {}
     \/ paso[p] = "ligar"
  /\ SoltarCandado(p)
  /\ UNCHANGED <<columnas, archivos, activo, lasManos, incertidumbre, peticion, cotas>>

\* VENTANA_DE_INCERTIDUMBRE_SEGUNDOS passes for a row.
VencerIncertidumbre(d) ==
  /\ d \in incertidumbre
  /\ incertidumbre' = incertidumbre \ {d}
  /\ UNCHANGED <<columnas, archivos, activo, lasManos, candado, tareas, peticion, cotas>>

\* The platform process dies: tasks, requests, memory and the lock go with it.
Caida ==
  /\ caidas < MaxCaidas
  /\ caidas' = caidas + 1
  /\ candado' = Nadie
  /\ incertidumbre' = {}
  /\ paso' = [p \in Despachadores |-> "libre"]
  /\ porConsultar' = [p \in Despachadores |-> {}]
  /\ trabajo' = [p \in Despachadores |-> Nadie]
  /\ foto' = [p \in Despachadores |-> FotoVacia]
  /\ filas' = [p \in Despachadores |-> {}]
  /\ leidas' = [p \in Despachadores |-> {}]
  /\ trozo' = [p \in Despachadores |-> {}]
  /\ porBorrar' = [p \in Despachadores |-> Nadie]
  /\ pPaso' = [r \in Peticiones |-> "libre"]
  /\ pDoc' = [r \in Peticiones |-> Nadie]
  /\ pUsuario' = [r \in Peticiones |-> Nadie]
  /\ pCopia' = [r \in Peticiones |-> Nadie]
  /\ UNCHANGED <<columnas, archivos, activo, lasManos, cambios, olvidos, perdidas>>

-----------------------------------------------------------------------------
(* LAS MANOS, as the platform relies on it.                                *)

\* It reports a carpeta_procesado of the project only once the original is in
\* fuente/, and can only read a file that is there.
Procesar(j, f, res) ==
  /\ tEstado[j] = "corriendo"
  /\ f \in pedido[j]
  /\ resultado[j][f.doc] = SinResultado
  /\ ~Legible(f.doc, f.ruta) => res = [estado |-> "error", carpeta |-> "ninguna"]
  /\ resultado' = [resultado EXCEPT ![j][f.doc] = res]
  /\ IF res.carpeta = "propia" THEN fuente' = fuente \union {f.doc} ELSE UNCHANGED fuente
  /\ UNCHANGED <<columnas, contenido, presente, activo, tEstado, pedido, candado, incertidumbre,
                 tareas, peticion, cotas>>

\* A job may end without a result for some of its files.
TerminarTrabajo(j, como) ==
  /\ tEstado[j] = "corriendo"
  /\ tEstado' = [tEstado EXCEPT ![j] = como]
  /\ UNCHANGED <<columnas, archivos, activo, pedido, resultado, candado, incertidumbre, tareas,
                 peticion, cotas>>

\* LAS MANOS restarts and forgets a job, not its key.
PerderTrabajo(j) ==
  /\ tEstado[j] \in {"corriendo", "completed", "cancelled"}
  /\ olvidos < MaxOlvidos
  /\ olvidos' = olvidos + 1
  /\ tEstado' = [tEstado EXCEPT ![j] = "perdido"]
  /\ UNCHANGED <<columnas, archivos, activo, pedido, resultado, candado, incertidumbre, tareas,
                 peticion, cambios, caidas, perdidas>>

-----------------------------------------------------------------------------
PasoDePeticion(r) ==
  \/ \E u \in Usuarios, d \in Docs, c \in Copias : Subir(r, u, d, c)
  \/ InsertarAceptado(r)
  \/ ResultadoIncierto(r)
  \/ InsertarDuplicado(r)
  \/ Rechazar(r)
  \/ ReencolarAtascado(r)
  \/ DuplicadoComun(r)
  \/ \E u \in Usuarios, d \in Docs : Reprocesar(r, u, d)
  \/ BorrarDePeticion(r)

Sincronizar(p) ==
  \/ TomarCandado(p)
  \/ \E j \in Trabajos : Consultar(p, j) \/ TrabajoPerdido(p, j) \/ ConsultaFallida(p, j)
  \/ LeerFilas(p)
  \/ LeerFilasFalla(p)
  \/ \E f \in filas[p] : AplicarFila(p, f) \/ AplicarFalla(p, f)
  \/ BorrarCopia(p)

Despachar(p) ==
  \/ TomarEnCola(p)
  \/ \E t \in SUBSET leidas[p] :
       \/ \E j \in Trabajos : EnviarAceptado(p, t, j)
       \/ EnviarIncierto(p, t)
       \/ EnviarCortado(p, t)
       \/ EnviarSaltado(p, t)
       \/ EnviarRechazado(p, t)
  \/ Ligar(p)
  \/ TerminarCiclo(p)

PasoDeLasManos(j) ==
  \/ \E f \in pedido[j], res \in Respuestas : Procesar(j, f, res)
  \/ \E como \in {"completed", "cancelled"} : TerminarTrabajo(j, como)
  \/ PerderTrabajo(j)

Next ==
  \/ \E r \in Peticiones : PasoDePeticion(r)
  \/ \E d \in Docs : CambiarVisibilidad(d) \/ VencerIncertidumbre(d)
  \/ CambiarProyecto
  \/ \E p \in Despachadores : Sincronizar(p) \/ Despachar(p) \/ PerderCandado(p)
  \/ \E j \in Trabajos : PasoDeLasManos(j)
  \/ Caida

Spec == Init /\ [][Next]_vars

\* start_despachador never dies and always runs the next cycle; LAS MANOS ends or
\* forgets every job; its answers and the database do not fail for ever.
AplicaDoc(p, d) == \E f \in filas[p] : f.doc = d /\ AplicarFila(p, f)
Fairness ==
  /\ \A p \in Despachadores :
       /\ WF_vars(Sincronizar(p) \/ Despachar(p))
       /\ \A j \in Trabajos : SF_vars(Consultar(p, j) \/ TrabajoPerdido(p, j))
       /\ SF_vars(LeerFilas(p))
       /\ \A d \in Docs : SF_vars(AplicaDoc(p, d))
  /\ \A j \in Trabajos :
       WF_vars(PerderTrabajo(j) \/ \E como \in {"completed", "cancelled"} : TerminarTrabajo(j, como))

FairSpec == Spec /\ Fairness

-----------------------------------------------------------------------------
(* Properties.                                                             *)

TipoColumnas ==
  /\ estado \in [Docs -> Estados]
  /\ jobId \in [Docs -> Trabajos \union {Nadie}]
  /\ ruta \in [Docs -> Copias \union {Fuente, Nadie}]
  /\ carpeta \in [Docs -> Carpetas]
  /\ oculto \in [Docs -> BOOLEAN]
  /\ dueno \in [Docs -> Usuarios \union {Nadie}]
  /\ actualizado \in [Docs -> Nat]
  /\ vuelta \in [Docs -> Nat]

TipoArchivos ==
  /\ contenido \in [Copias -> Docs \union {Nadie}]
  /\ presente \in SUBSET Copias
  /\ fuente \in SUBSET Docs
  /\ activo \in BOOLEAN

TipoLasManos ==
  /\ tEstado \in [Trabajos -> {"libre", "corriendo", "completed", "cancelled", "perdido"}]
  /\ pedido \in [Trabajos -> SUBSET Leida]
  /\ resultado \in [Trabajos -> [Docs -> Resultados \union {SinResultado}]]

TipoTareas ==
  /\ candado \in Despachadores \union {Nadie}
  /\ incertidumbre \in SUBSET Docs
  /\ paso \in [Despachadores -> {"libre", "sincronizar", "leer_filas", "aplicar",
                                 "borrar_copia", "despachar", "ligar"}]
  /\ porConsultar \in [Despachadores -> SUBSET Trabajos]
  /\ trabajo \in [Despachadores -> Trabajos \union {Nadie}]
  /\ foto \in [Despachadores -> Foto]
  /\ filas \in [Despachadores -> SUBSET Fila]
  /\ leidas \in [Despachadores -> SUBSET Leida]
  /\ trozo \in [Despachadores -> SUBSET Leida]
  /\ porBorrar \in [Despachadores -> Copias \union {Nadie}]

TipoPeticiones ==
  /\ pPaso \in [Peticiones -> {"libre", "escrito", "duplicado", "borrar_propia",
                               "borrar_anterior"}]
  /\ pDoc \in [Peticiones -> Docs \union {Nadie}]
  /\ pUsuario \in [Peticiones -> Usuarios \union {Nadie}]
  /\ pCopia \in [Peticiones -> Copias \union {Nadie}]

TipoCotas ==
  /\ cambios \in Nat
  /\ caidas \in Nat
  /\ olvidos \in Nat
  /\ perdidas \in Nat

\* Every field holds a value of its column or variable (project_documents
\* columns, the dispatcher's locals, LAS MANOS's answers).
TypeOK ==
  /\ TipoColumnas
  /\ TipoArchivos
  /\ TipoLasManos
  /\ TipoTareas
  /\ TipoPeticiones
  /\ TipoCotas

EnCurso(d) == estado[d] \in {"en_cola"} \union Abiertos

\* No registered document ever loses its last original: its bytes are either in
\* fuente/ or in the copy its row points at, whatever upload, reprocess and
\* dispatcher deletions interleave, and a row still in the pipeline can be read
\* at exactly the path LAS MANOS is or will be given (borrar_copia, _guardar_lote).
OriginalNuncaSePierde ==
  \A d \in Docs : estado[d] # "no_existe" =>
    /\ d \in fuente \/ Legible(d, ruta[d])
    /\ EnCurso(d) => Legible(d, ruta[d])

\* The job of a row was asked for this very attempt: same path, same turn in the queue.
DelIntento(d) ==
  \E f \in pedido[jobId[d]] : f.doc = d /\ f.ruta = ruta[d] /\ f.vuelta = vuelta[d]
LigadaASuIntento ==
  perdidas = 0 => \A d \in Docs : jobId[d] # Nadie => DelIntento(d)

\* What a row says it ended with is what its job reported of it, and where.
DiceLoReportado ==
  \A d \in Docs : estado[d] \in {"listo", "sin_extractor"} =>
    jobId[d] # Nadie /\ resultado[jobId[d]][d] = [estado |-> estado[d], carpeta |-> carpeta[d]]

\* What a row says it ended with was reported by its job, whatever is looked up late,
\* forgotten or applied by a dispatcher without its lock; and that job was asked for
\* this very attempt, as long as no dispatcher has lost its lock
\* (clave_de_idempotencia, marcar_despachadas, aplicar_resultado).
ResultadoDelIntento == LigadaASuIntento /\ DiceLoReportado

\* A final state is never overwritten: a row leaves it only by a re-queue that
\* forgets the job, and a bound row never jumps to another job
\* (aplicar_resultado, marcar_despachadas, marcar_job_perdido).
FinalSoloPorReencolar ==
  [][\A d \in Docs :
       /\ (estado[d] \in ESTADOS_FINALES /\ estado'[d] # estado[d]) =>
            estado'[d] = "en_cola" /\ vuelta'[d] = vuelta[d] + 1
       /\ (jobId[d] # Nadie /\ jobId'[d] # jobId[d]) => jobId'[d] = Nadie]_vars

\* The same chunk of attempts is never given two jobs: a POST repeated after an
\* uncertain answer, a restart of either side, a lost lock, or with a document
\* hidden or restored in between finds the job of the first
\* (clave_de_idempotencia and its updated_at).
Intentos(j) == {<<f.doc, f.vuelta>> : f \in pedido[j]}
UnTrabajoPorTrozo ==
  \A i, j \in Trabajos : (i # j /\ pedido[i] # {}) => Intentos(i) # Intentos(j)

\* The open rows of a job have one owner, so trabajos_abiertos never quarantines
\* a job this dispatcher created.
TrabajoDeUnDueno ==
  \A c, d \in Docs :
    (/\ jobId[c] # Nadie /\ jobId[c] = jobId[d]
     /\ estado[c] \in Abiertos /\ estado[d] \in Abiertos) => dueno[c] = dueno[d]

\* A row handed to LAS MANOS is never left open for ever: its job's result, the
\* end of the job without one, or its loss closes the row (_sincronizar, _decidir).
\* Rows that wait in the queue are no part of it.
NoQuedaAbierta == \A d \in Docs : estado[d] \in Abiertos ~> estado[d] \notin Abiertos

\* What despachador.py says of a lost GET_LOCK connection: a second dispatcher
\* only duplicates a job whose result is ignored.  So a row is never closed by
\* a job that was not asked for its current attempt.
DuplicadoSeIgnora ==
  \A d \in Docs : (estado[d] \in ESTADOS_FINALES /\ jobId[d] # Nadie) => DelIntento(d)

-----------------------------------------------------------------------------
(* The inductive invariant behind OriginalNuncaSePierde.                   *)

\* A request that is not finished owns a written copy no row points at, and no
\* other request owns it.
CopiaDePeticion ==
  \A r \in Peticiones : pPaso[r] # "libre" =>
    /\ pDoc[r] \in Docs
    /\ pCopia[r] \in Copias
    /\ contenido[pCopia[r]] \in Docs
    /\ \A d \in Docs : ruta[d] # pCopia[r]
    /\ \A q \in Peticiones \ {r} : pPaso[q] # "libre" => pCopia[q] # pCopia[r]

\* The copy a request may still register holds its document and is nobody's to delete.
CopiaPorRegistrar ==
  \A r \in Peticiones : pPaso[r] \in {"escrito", "duplicado"} =>
    /\ pUsuario[r] \in Usuarios
    /\ Legible(pDoc[r], pCopia[r])
    /\ \A p \in Despachadores : porBorrar[p] # pCopia[r]

\* A row has a path and an owner, and a copy it points at holds its own document.
RutaDeFila ==
  \A d \in Docs :
    /\ estado[d] # "no_existe" => ruta[d] \in Copias \union {Fuente} /\ dueno[d] \in Usuarios
    /\ ruta[d] \in Copias => contenido[ruta[d]] = d

\* The copy the dispatcher is about to delete was written, and a row that points at
\* it is closed and safe.
CopiaPorBorrar ==
  \A p \in Despachadores : porBorrar[p] # Nadie =>
    /\ contenido[porBorrar[p]] # Nadie
    /\ \A d \in Docs : ruta[d] = porBorrar[p] => d \in fuente /\ ~EnCurso(d)

\* A carpeta_procesado of the project is only reported once the original is in fuente/.
PropiaEnFuente ==
  /\ \A j \in Trabajos, d \in Docs : resultado[j][d].carpeta = "propia" => d \in fuente
  /\ \A p \in Despachadores, d \in Docs : foto[p].res[d].carpeta = "propia" => d \in fuente

\* A job the platform knows of was handed out by LAS MANOS.
TrabajoConocido ==
  /\ \A d \in Docs : jobId[d] # Nadie => tEstado[jobId[d]] # "libre"
  /\ \A p \in Despachadores :
       /\ trabajo[p] # Nadie => tEstado[trabajo[p]] # "libre"
       /\ \A j \in porConsultar[p] : tEstado[j] # "libre"

IInv == /\ TypeOK
        /\ TrabajoConocido
        /\ CopiaDePeticion
        /\ CopiaPorRegistrar
        /\ RutaDeFila
        /\ CopiaPorBorrar
        /\ PropiaEnFuente
        /\ OriginalNuncaSePierde

=============================================================================
