----------------------- MODULE DocumentPipelineProofs -----------------------
(***************************************************************************)
(* Theorems about DocumentPipeline for every value of its constants.       *)
(*                                                                         *)
(* The argument: IInv is inductive.  TipoPaso and TrabajoConocidoPaso show *)
(* it for the types and the jobs, one step per action.  For the files, a   *)
(* step that neither writes nor deletes one keeps everything (Marco); the  *)
(* steps that do are one lemma each (ArchivosSubir and the ones after it). *)
(* OriginalNuncaSePierde is not inductive on its own: a deletion is only   *)
(* harmless because of who may still hold the copy it deletes, which is    *)
(* what CopiaDePeticion, CopiaPorRegistrar and CopiaPorBorrar say.         *)
(*                                                                         *)
(* InvDeIntentos is inductive beside it: the turn of a row in the queue    *)
(* determines what was read of it, so that equal keys are equal chunks,    *)
(* and a window read under the lock is still waiting.  InvDeResultados,    *)
(* with the types, is inductive too: it says what a look-up is worth.      *)
(***************************************************************************)
EXTENDS DocumentPipeline, FiniteSetTheorems, TLAPS

USE DEF columnas, archivos, lasManos, tareas, peticion, cotas

-----------------------------------------------------------------------------
(* Types.                                                                  *)

\* VolverALaCola keeps the types of the columns.
LEMMA TipoVolverALaCola ==
  ASSUME TipoColumnas, NEW d \in Docs, NEW camino \in Copias \union {Fuente},
         NEW u \in Usuarios, VolverALaCola(d, camino, u)
  PROVE  TipoColumnas'
BY DEF TipoColumnas, VolverALaCola, Estados

\* Releasing the lock keeps the types of the dispatcher's locals.
LEMMA TipoSoltarCandado ==
  ASSUME TipoTareas, incertidumbre' \in SUBSET Docs, NEW p \in Despachadores, SoltarCandado(p)
  PROVE  TipoTareas'
BY DEF TipoTareas, SoltarCandado, Limpiar, Foto, FotoVacia, SinResultado

\* Whatever LAS MANOS does with a POST, its jobs keep their types.
LEMMA TipoAcepta ==
  ASSUME TipoLasManos, NEW t \in SUBSET Leida,
         UNCHANGED lasManos \/ \E j \in Trabajos : Acepta(j, t)
  PROVE  TipoLasManos'
<1>1. CASE UNCHANGED lasManos
  BY <1>1 DEF TipoLasManos
<1>2. ASSUME NEW j \in Trabajos, Acepta(j, t)
      PROVE  TipoLasManos'
  BY <1>2 DEF TipoLasManos, Acepta
<1> QED
  BY <1>1, <1>2

\* Every step keeps TypeOK, one step of the proof per action.
LEMMA TipoPaso == IInv /\ [Next]_vars => TypeOK'
<1> SUFFICES ASSUME IInv, [Next]_vars PROVE TypeOK'
  OBVIOUS
<1> USE DEF IInv, TypeOK, TipoColumnas, TipoArchivos, TipoLasManos, TipoTareas, TipoPeticiones,
   TipoCotas
<1>1. ASSUME NEW r \in Peticiones, NEW u \in Usuarios, NEW d \in Docs, NEW c \in Copias, Subir(r, u, d, c)
      PROVE  TypeOK'
  BY <1>1 DEF Subir
<1>2. ASSUME NEW r \in Peticiones, InsertarAceptado(r)
      PROVE  TypeOK'
  BY <1>2
     DEF CopiaDePeticion, CopiaPorRegistrar, InsertarAceptado, InsertaFila, VolverALaCola,
         Responder, Estados
<1>3. ASSUME NEW r \in Peticiones, ResultadoIncierto(r)
      PROVE  TypeOK'
  BY <1>3 DEF ResultadoIncierto, Responder
<1>4. ASSUME NEW r \in Peticiones, InsertarDuplicado(r)
      PROVE  TypeOK'
  BY <1>4 DEF InsertarDuplicado, IrA
<1>5. ASSUME NEW r \in Peticiones, Rechazar(r)
      PROVE  TypeOK'
  BY <1>5 DEF Rechazar, IrA
<1>6. ASSUME NEW r \in Peticiones, ReencolarAtascado(r)
      PROVE  TypeOK'
  <2> DEFINE d == pDoc[r]
  <2>1. d \in Docs /\ pCopia[r] \in Copias /\ pUsuario[r] \in Usuarios
    BY <1>6 DEF ReencolarAtascado, CopiaDePeticion, CopiaPorRegistrar
  <2>2. TipoColumnas'
    BY <1>6, <2>1, TipoVolverALaCola DEF ReencolarAtascado
  <2>3. TipoPeticiones'
    <3>1. CASE ruta[d] \in Copias /\ PorBorrarAntes(r, d, ruta[d])
      BY <2>1, <3>1 DEF PorBorrarAntes
    <3>2. CASE Responder(r)
      BY <3>2 DEF Responder
    <3> QED
      BY <1>6, <3>1, <3>2 DEF ReencolarAtascado
  <2> QED
    BY <1>6, <2>2, <2>3 DEF ReencolarAtascado
<1>7. ASSUME NEW r \in Peticiones, DuplicadoComun(r)
      PROVE  TypeOK'
  BY <1>7 DEF DuplicadoComun, IrA
<1>8. ASSUME NEW r \in Peticiones, NEW u \in Usuarios, NEW d \in Docs, Reprocesar(r, u, d)
      PROVE  TypeOK'
  <2>1. TipoColumnas'
    BY <1>8, TipoVolverALaCola DEF Reprocesar
  <2>2. TipoPeticiones'
    <3>1. CASE ruta[d] \in Copias
      BY <1>8, <3>1 DEF Reprocesar, PorBorrarAntes
    <3>2. CASE ruta[d] \notin Copias
      BY <1>8, <3>2 DEF Reprocesar
    <3> QED
      BY <3>1, <3>2
  <2> QED
    BY <1>8, <2>1, <2>2 DEF Reprocesar
<1>9. ASSUME NEW r \in Peticiones, BorrarDePeticion(r)
      PROVE  TypeOK'
  BY <1>9 DEF BorrarDePeticion, Responder
<1>10. ASSUME NEW d \in Docs, CambiarVisibilidad(d)
      PROVE  TypeOK'
  BY <1>10 DEF CambiarVisibilidad, Cambiar
<1>11. ASSUME CambiarProyecto
      PROVE  TypeOK'
  BY <1>11 DEF CambiarProyecto, Cambiar
<1>12. ASSUME NEW p \in Despachadores, TomarCandado(p)
      PROVE  TypeOK'
  BY <1>12 DEF TomarCandado, TrabajosAbiertos
<1>13. ASSUME NEW p \in Despachadores, PerderCandado(p)
      PROVE  TypeOK'
  BY <1>13 DEF PerderCandado
<1>14. ASSUME NEW p \in Despachadores, NEW j \in Trabajos, Consultar(p, j)
      PROVE  TypeOK'
  <2>1. [estado |-> tEstado[j], res |-> resultado[j]] \in Foto
    BY <1>14 DEF Consultar, TrabajoConocido, Foto
  <2> QED
    BY <1>14, <2>1 DEF Consultar
<1>15. ASSUME NEW p \in Despachadores, NEW j \in Trabajos, TrabajoPerdido(p, j)
      PROVE  TypeOK'
  BY <1>15 DEF TrabajoPerdido, Estados, ESTADOS_FINALES
<1>16. ASSUME NEW p \in Despachadores, NEW j \in Trabajos, ConsultaFallida(p, j)
      PROVE  TypeOK'
  BY <1>16 DEF ConsultaFallida
<1>17. ASSUME NEW p \in Despachadores, LeerFilas(p)
      PROVE  TypeOK'
  BY <1>17 DEF RutaDeFila, LeerFilas, Siguiente, Fila, Foto, FotoVacia, SinResultado, Abiertos
<1>18. ASSUME NEW p \in Despachadores, LeerFilasFalla(p)
      PROVE  TypeOK'
  BY <1>18 DEF LeerFilasFalla, Siguiente, Foto, FotoVacia, SinResultado
<1>19. ASSUME NEW p \in Despachadores, NEW f \in filas[p], AplicarFila(p, f)
      PROVE  TypeOK'
  <2> DEFINE d        == f.doc
             res      == ResultadoDe(p, f)
             decision == Decidir(res, foto[p].estado)
  <2>1. d \in Docs /\ (f.ruta \in Copias \/ f.ruta = Fuente)
    BY DEF Fila
  <2>2. decision.estado \in Estados /\ decision.carpeta \in Carpetas
    <3>1. res \in Resultados \union {SinResultado} /\ foto[p].estado \in {"corriendo", "completed", "cancelled"}
      BY <2>1 DEF ResultadoDe, Foto
    <3> HIDE DEF res
    <3> QED
      BY <3>1 DEF Decidir, Resultados, Estados, Abiertos, ESTADOS_FINALES, Carpetas
  <2>3. TipoColumnas'
    BY <1>19, <2>1, <2>2 DEF AplicarFila
  <2>4. TipoTareas'
    <3> DEFINE borra == /\ f.ruta \in Copias
                        /\ porBorrar' = [porBorrar EXCEPT ![p] = f.ruta]
                        /\ paso' = [paso EXCEPT ![p] = "borrar_copia"]
                        /\ filas' = [filas EXCEPT ![p] = @ \ {f}]
                        /\ UNCHANGED <<foto, trabajo>>
    <3>1. borra \/ (Siguiente(p, filas[p] \ {f}) /\ UNCHANGED porBorrar)
      BY <1>19 DEF AplicarFila
    <3>2. UNCHANGED <<candado, incertidumbre, porConsultar, leidas, trozo>>
      BY <1>19 DEF AplicarFila
    <3>3. CASE UNCHANGED porBorrar /\ Siguiente(p, filas[p] \ {f})
      BY <3>2, <3>3 DEF Siguiente, Foto, FotoVacia, SinResultado
    <3>4. CASE borra
      BY <3>2, <3>4
    <3> QED
      BY <3>1, <3>3, <3>4
  <2> QED
    BY <1>19, <2>3, <2>4 DEF AplicarFila
<1>20. ASSUME NEW p \in Despachadores, NEW f \in filas[p], AplicarFalla(p, f)
      PROVE  TypeOK'
  BY <1>20 DEF AplicarFalla, Siguiente, Foto, FotoVacia, SinResultado
<1>21. ASSUME NEW p \in Despachadores, BorrarCopia(p)
      PROVE  TypeOK'
  BY <1>21 DEF BorrarCopia, Siguiente, Foto, FotoVacia, SinResultado
<1>22. ASSUME NEW p \in Despachadores, TomarEnCola(p)
      PROVE  TypeOK'
  <2>1. FilasEnCola \subseteq Leida
    BY DEF FilasEnCola, RutaDeFila, Leida
  <2>2. CASE FrenoDeIncertidumbre
    BY <1>22, <2>2, TipoSoltarCandado DEF TomarEnCola
  <2>3. CASE ~FrenoDeIncertidumbre
    BY <1>22, <2>1, <2>3 DEF TomarEnCola
  <2> QED
    BY <2>2, <2>3
<1>23. ASSUME NEW p \in Despachadores, NEW t \in SUBSET leidas[p], NEW j \in Trabajos, EnviarAceptado(p, t, j)
      PROVE  TypeOK'
  <2>1. t \in SUBSET Leida
    OBVIOUS
  <2>2. TipoLasManos'
    BY <1>23, <2>1, TipoAcepta DEF EnviarAceptado
  <2> QED
    BY <1>23, <2>1, <2>2 DEF EnviarAceptado
<1>24. ASSUME NEW p \in Despachadores, NEW t \in SUBSET leidas[p], EnviarIncierto(p, t)
      PROVE  TypeOK'
  <2>1. t \in SUBSET Leida
    OBVIOUS
  <2>2. TipoLasManos'
    BY <1>24, <2>1, TipoAcepta DEF EnviarIncierto
  <2>3. incertidumbre' \in SUBSET Docs
    BY <1>24, <2>1 DEF EnviarIncierto, Leida
  <2>4. TipoTareas'
    BY <1>24, <2>3, TipoSoltarCandado DEF EnviarIncierto
  <2> QED
    BY <1>24, <2>2, <2>4 DEF EnviarIncierto
<1>25. ASSUME NEW p \in Despachadores, NEW t \in SUBSET leidas[p], EnviarCortado(p, t)
      PROVE  TypeOK'
  <2>1. TipoLasManos'
    BY <1>25, TipoAcepta DEF EnviarCortado
  <2>2. TipoTareas'
    BY <1>25, TipoSoltarCandado DEF EnviarCortado
  <2> QED
    BY <1>25, <2>1, <2>2 DEF EnviarCortado
<1>26. ASSUME NEW p \in Despachadores, NEW t \in SUBSET leidas[p], EnviarSaltado(p, t)
      PROVE  TypeOK'
  <2>1. leidas' \in [Despachadores -> SUBSET Leida]
    <3>1. CASE leidas' = [leidas EXCEPT ![p] = @ \ t]
      BY <3>1
    <3>2. CASE \E f \in t : leidas' = [leidas EXCEPT ![p] = {g \in @ : g.dueno # f.dueno}]
      BY <3>2
    <3> QED
      BY <1>26, <3>1, <3>2 DEF EnviarSaltado
  <2> QED
    BY <1>26, <2>1 DEF EnviarSaltado
<1>27. ASSUME NEW p \in Despachadores, NEW t \in SUBSET leidas[p], EnviarRechazado(p, t)
      PROVE  TypeOK'
  BY <1>27 DEF EnviarRechazado, Estados, ESTADOS_FINALES, Leida
<1>28. ASSUME NEW p \in Despachadores, Ligar(p)
      PROVE  TypeOK'
  BY <1>28 DEF Ligar, Ganadas, Estados, Abiertos, Leida
<1>29. ASSUME NEW p \in Despachadores, TerminarCiclo(p)
      PROVE  TypeOK'
  <2>1. TipoTareas'
    BY <1>29, TipoSoltarCandado DEF TerminarCiclo
  <2> QED
    BY <1>29, <2>1 DEF TerminarCiclo
<1>30. ASSUME NEW d \in Docs, VencerIncertidumbre(d)
      PROVE  TypeOK'
  BY <1>30 DEF VencerIncertidumbre
<1>31. ASSUME Caida
      PROVE  TypeOK'
  BY <1>31 DEF Caida, Foto, FotoVacia, SinResultado
<1>32. ASSUME NEW j \in Trabajos, NEW f \in pedido[j], NEW res \in Respuestas, Procesar(j, f, res)
      PROVE  TypeOK'
  BY <1>32, RespuestasAssumption DEF Procesar, Resultados, Leida
<1>33. ASSUME NEW j \in Trabajos, NEW como \in {"completed", "cancelled"}, TerminarTrabajo(j, como)
      PROVE  TypeOK'
  BY <1>33 DEF TerminarTrabajo
<1>34. ASSUME NEW j \in Trabajos, PerderTrabajo(j)
      PROVE  TypeOK'
  BY <1>34 DEF PerderTrabajo
<1>35. CASE UNCHANGED vars
  BY <1>35 DEF vars
<1> HIDE DEF IInv, TypeOK
<1> QED
  BY <1>1, <1>2, <1>3, <1>4, <1>5, <1>6, <1>7, <1>8, <1>9, <1>10, <1>11, <1>12, <1>13, <1>14,
     <1>15, <1>16, <1>17, <1>18, <1>19, <1>20, <1>21, <1>22, <1>23, <1>24, <1>25, <1>26, <1>27,
     <1>28, <1>29, <1>30, <1>31, <1>32, <1>33, <1>34, <1>35
     DEF Next, PasoDePeticion, Sincronizar, Despachar, PasoDeLasManos

-----------------------------------------------------------------------------
(* Jobs and files.                                                         *)

\* Every step keeps TrabajoConocido: only a POST that LAS MANOS accepted gives a job.
LEMMA TrabajoConocidoPaso == IInv /\ [Next]_vars => TrabajoConocido'
<1> SUFFICES ASSUME IInv, [Next]_vars PROVE TrabajoConocido'
  OBVIOUS
<1> USE DatosAssumption DEF IInv, TypeOK, TipoColumnas, TipoArchivos, TipoLasManos, TipoTareas,
   TipoPeticiones, TipoCotas, TrabajoConocido
<1>1. ASSUME NEW r \in Peticiones, NEW u \in Usuarios, NEW d \in Docs, NEW c \in Copias, Subir(r, u, d, c)
      PROVE  TrabajoConocido'
  BY <1>1 DEF Subir
<1>2. ASSUME NEW r \in Peticiones, InsertarAceptado(r)
      PROVE  TrabajoConocido'
  BY <1>2 DEF InsertarAceptado, InsertaFila, VolverALaCola, Responder
<1>3. ASSUME NEW r \in Peticiones, ResultadoIncierto(r)
      PROVE  TrabajoConocido'
  BY <1>3 DEF ResultadoIncierto, Responder
<1>4. ASSUME NEW r \in Peticiones, InsertarDuplicado(r)
      PROVE  TrabajoConocido'
  BY <1>4 DEF InsertarDuplicado, IrA
<1>5. ASSUME NEW r \in Peticiones, Rechazar(r)
      PROVE  TrabajoConocido'
  BY <1>5 DEF Rechazar, IrA
<1>6. ASSUME NEW r \in Peticiones, ReencolarAtascado(r)
      PROVE  TrabajoConocido'
  BY <1>6 DEF ReencolarAtascado, Atascado, VolverALaCola, PorBorrarAntes, Responder
<1>7. ASSUME NEW r \in Peticiones, DuplicadoComun(r)
      PROVE  TrabajoConocido'
  BY <1>7 DEF DuplicadoComun, IrA
<1>8. ASSUME NEW r \in Peticiones, NEW u \in Usuarios, NEW d \in Docs, Reprocesar(r, u, d)
      PROVE  TrabajoConocido'
  BY <1>8 DEF Reprocesar, VolverALaCola, PorBorrarAntes
<1>9. ASSUME NEW r \in Peticiones, BorrarDePeticion(r)
      PROVE  TrabajoConocido'
  BY <1>9 DEF BorrarDePeticion, Responder
<1>10. ASSUME NEW d \in Docs, CambiarVisibilidad(d)
      PROVE  TrabajoConocido'
  BY <1>10 DEF CambiarVisibilidad, Cambiar
<1>11. ASSUME CambiarProyecto
      PROVE  TrabajoConocido'
  BY <1>11 DEF CambiarProyecto, Cambiar
<1>12. ASSUME NEW p \in Despachadores, TomarCandado(p)
      PROVE  TrabajoConocido'
  <2>1. ASSUME NEW j \in TrabajosAbiertos
        PROVE  tEstado[j] # "libre"
    <3>1. j \in Trabajos /\ Cardinality(DuenosDe(j)) = 1
      BY <2>1 DEF TrabajosAbiertos
    <3>2. DuenosDe(j) # {}
      <4> SUFFICES ASSUME DuenosDe(j) = {} PROVE FALSE
        OBVIOUS
      <4>1. Cardinality({}) = 0
        BY FS_EmptySet
      <4> QED
        BY <3>1, <4>1
    <3>3. PICK d \in Docs : jobId[d] = j
      BY <3>2 DEF DuenosDe
    <3> QED
      BY <3>1, <3>3
  <2> QED
    BY <1>12, <2>1 DEF TomarCandado, TrabajosAbiertos
<1>13. ASSUME NEW p \in Despachadores, PerderCandado(p)
      PROVE  TrabajoConocido'
  BY <1>13 DEF PerderCandado
<1>14. ASSUME NEW p \in Despachadores, NEW j \in Trabajos, Consultar(p, j)
      PROVE  TrabajoConocido'
  BY <1>14 DEF Consultar
<1>15. ASSUME NEW p \in Despachadores, NEW j \in Trabajos, TrabajoPerdido(p, j)
      PROVE  TrabajoConocido'
  BY <1>15 DEF TrabajoPerdido
<1>16. ASSUME NEW p \in Despachadores, NEW j \in Trabajos, ConsultaFallida(p, j)
      PROVE  TrabajoConocido'
  <2>1. porConsultar'[p] \subseteq porConsultar[p]
    <3>1. CASE porConsultar' = [porConsultar EXCEPT ![p] = @ \ {j}]
      BY <3>1
    <3>2. CASE porConsultar' = [porConsultar EXCEPT ![p] = {}]
      BY <3>2
    <3> QED
      BY <1>16, <3>1, <3>2 DEF ConsultaFallida
  <2>2. \A q \in Despachadores \ {p} : porConsultar'[q] = porConsultar[q]
    BY <1>16 DEF ConsultaFallida
  <2> QED
    BY <1>16, <2>1, <2>2 DEF ConsultaFallida
<1>17. ASSUME NEW p \in Despachadores, LeerFilas(p)
      PROVE  TrabajoConocido'
  BY <1>17 DEF LeerFilas, Siguiente
<1>18. ASSUME NEW p \in Despachadores, LeerFilasFalla(p)
      PROVE  TrabajoConocido'
  BY <1>18 DEF LeerFilasFalla, Siguiente
<1>19. ASSUME NEW p \in Despachadores, NEW f \in filas[p], AplicarFila(p, f)
      PROVE  TrabajoConocido'
  BY <1>19 DEF AplicarFila, Siguiente, Decidir, ResultadoDe, OriginalASalvo, FilaAplicable
<1>20. ASSUME NEW p \in Despachadores, NEW f \in filas[p], AplicarFalla(p, f)
      PROVE  TrabajoConocido'
  BY <1>20 DEF AplicarFalla, Siguiente
<1>21. ASSUME NEW p \in Despachadores, BorrarCopia(p)
      PROVE  TrabajoConocido'
  BY <1>21 DEF BorrarCopia, Siguiente
<1>22. ASSUME NEW p \in Despachadores, TomarEnCola(p)
      PROVE  TrabajoConocido'
  <2>1. CASE FrenoDeIncertidumbre
    <3>1. SoltarCandado(p) /\ UNCHANGED <<jobId, tEstado>>
      BY <1>22, <2>1 DEF TomarEnCola
    <3> QED
      BY <3>1 DEF SoltarCandado, Limpiar
  <2>2. CASE ~FrenoDeIncertidumbre
    BY <1>22, <2>2 DEF TomarEnCola
  <2> QED
    BY <2>1, <2>2
<1>23. ASSUME NEW p \in Despachadores, NEW t \in SUBSET leidas[p], NEW j \in Trabajos, EnviarAceptado(p, t, j)
      PROVE  TrabajoConocido'
  <2>1. tEstado'[j] # "libre" /\ \A i \in Trabajos : tEstado[i] # "libre" => tEstado'[i] # "libre"
    <3>1. CASE j \in TrabajoDe(t) /\ tEstado[j] # "perdido" /\ UNCHANGED lasManos
      BY <3>1 DEF TrabajoDe
    <3>2. CASE tEstado[j] = "libre" /\ tEstado' = [tEstado EXCEPT ![j] = "corriendo"]
      BY <3>2
    <3> QED
      BY <1>23, <3>1, <3>2 DEF EnviarAceptado, Acepta
  <2>2. trabajo' = [trabajo EXCEPT ![p] = j] /\ UNCHANGED <<jobId, porConsultar>>
    BY <1>23 DEF EnviarAceptado
  <2> QED
    BY <2>1, <2>2
<1>24. ASSUME NEW p \in Despachadores, NEW t \in SUBSET leidas[p], EnviarIncierto(p, t)
      PROVE  TrabajoConocido'
  BY <1>24 DEF EnviarIncierto, Acepta, SoltarCandado, Limpiar
<1>25. ASSUME NEW p \in Despachadores, NEW t \in SUBSET leidas[p], EnviarCortado(p, t)
      PROVE  TrabajoConocido'
  BY <1>25 DEF EnviarCortado, Acepta, SoltarCandado, Limpiar
<1>26. ASSUME NEW p \in Despachadores, NEW t \in SUBSET leidas[p], EnviarSaltado(p, t)
      PROVE  TrabajoConocido'
  BY <1>26 DEF EnviarSaltado
<1>27. ASSUME NEW p \in Despachadores, NEW t \in SUBSET leidas[p], EnviarRechazado(p, t)
      PROVE  TrabajoConocido'
  BY <1>27 DEF EnviarRechazado
<1>28. ASSUME NEW p \in Despachadores, Ligar(p)
      PROVE  TrabajoConocido'
  BY <1>28 DEF Ligar, Ganadas
<1>29. ASSUME NEW p \in Despachadores, TerminarCiclo(p)
      PROVE  TrabajoConocido'
  BY <1>29 DEF TerminarCiclo, SoltarCandado, Limpiar
<1>30. ASSUME NEW d \in Docs, VencerIncertidumbre(d)
      PROVE  TrabajoConocido'
  BY <1>30 DEF VencerIncertidumbre
<1>31. ASSUME Caida
      PROVE  TrabajoConocido'
  BY <1>31 DEF Caida
<1>32. ASSUME NEW j \in Trabajos, NEW f \in pedido[j], NEW res \in Respuestas, Procesar(j, f, res)
      PROVE  TrabajoConocido'
  BY <1>32 DEF Procesar
<1>33. ASSUME NEW j \in Trabajos, NEW como \in {"completed", "cancelled"}, TerminarTrabajo(j, como)
      PROVE  TrabajoConocido'
  BY <1>33 DEF TerminarTrabajo
<1>34. ASSUME NEW j \in Trabajos, PerderTrabajo(j)
      PROVE  TrabajoConocido'
  BY <1>34 DEF PerderTrabajo
<1>35. CASE UNCHANGED vars
  BY <1>35 DEF vars
<1> HIDE DEF IInv, TypeOK
<1> QED
  BY <1>1, <1>2, <1>3, <1>4, <1>5, <1>6, <1>7, <1>8, <1>9, <1>10, <1>11, <1>12, <1>13, <1>14,
     <1>15, <1>16, <1>17, <1>18, <1>19, <1>20, <1>21, <1>22, <1>23, <1>24, <1>25, <1>26, <1>27,
     <1>28, <1>29, <1>30, <1>31, <1>32, <1>33, <1>34, <1>35
     DEF Next, PasoDePeticion, Sincronizar, Despachar, PasoDeLasManos

\* The part of IInv about files and the rows that point at them.
Archivos == CopiaDePeticion /\ CopiaPorRegistrar /\ RutaDeFila /\ CopiaPorBorrar
            /\ PropiaEnFuente /\ OriginalNuncaSePierde

\* A step that writes and deletes no file and moves no row to another path.
SinTocarArchivos ==
  /\ UNCHANGED <<ruta, dueno, contenido, presente, fuente, resultado, peticion>>
  /\ \A d \in Docs : estado'[d] = estado[d] \/ (EnCurso(d) /\ estado'[d] # "no_existe")
  /\ \A p \in Despachadores :
       /\ porBorrar'[p] \in {porBorrar[p], Nadie}
       /\ foto'[p] \in {foto[p], FotoVacia} \/ \E j \in Trabajos : foto'[p].res = resultado[j]

\* Such a step keeps the part of IInv about files.
LEMMA Marco ==
  ASSUME IInv, SinTocarArchivos
  PROVE  Archivos'
<1> USE DEF IInv, SinTocarArchivos
<1>1. CopiaDePeticion'
  BY DEF CopiaDePeticion
<1>2. CopiaPorRegistrar'
  BY DatosAssumption
     DEF CopiaPorRegistrar, CopiaDePeticion, Legible, TypeOK, TipoColumnas, TipoArchivos,
         TipoLasManos, TipoTareas, TipoPeticiones, TipoCotas
<1>3. RutaDeFila'
  BY DEF RutaDeFila, EnCurso, Abiertos
<1>4. CopiaPorBorrar'
  BY DEF CopiaPorBorrar, EnCurso
<1>5. PropiaEnFuente'
  BY DEF PropiaEnFuente, FotoVacia, SinResultado
<1>6. OriginalNuncaSePierde'
  BY DEF OriginalNuncaSePierde, EnCurso, Abiertos, Legible
<1> QED
  BY <1>1, <1>2, <1>3, <1>4, <1>5, <1>6 DEF Archivos

\* Every action is such a step but the ones the next lemmas treat.
LEMMA PasoSinTocarArchivos ==
  ASSUME IInv, [Next]_vars
  PROVE  \/ SinTocarArchivos
         \/ \E r \in Peticiones : PasoDePeticion(r)
         \/ \E p \in Despachadores : BorrarCopia(p) \/ \E f \in filas[p] : AplicarFila(p, f)
         \/ \E j \in Trabajos, f \in UNION {pedido[i] : i \in Trabajos}, res \in Respuestas : f \in pedido[j] /\ Procesar(j, f, res)
         \/ Caida
<1> USE DEF IInv, TypeOK, TipoColumnas, TipoArchivos, TipoLasManos, TipoTareas, TipoPeticiones,
   TipoCotas, SinTocarArchivos
<1>1. ASSUME NEW d \in Docs, CambiarVisibilidad(d)
      PROVE  SinTocarArchivos
  BY <1>1 DEF CambiarVisibilidad, Cambiar
<1>2. ASSUME CambiarProyecto
      PROVE  SinTocarArchivos
  BY <1>2 DEF CambiarProyecto, Cambiar
<1>3. ASSUME NEW p \in Despachadores, TomarCandado(p)
      PROVE  SinTocarArchivos
  BY <1>3 DEF TomarCandado
<1>4. ASSUME NEW p \in Despachadores, PerderCandado(p)
      PROVE  SinTocarArchivos
  BY <1>4 DEF PerderCandado
<1>5. ASSUME NEW p \in Despachadores, NEW j \in Trabajos, Consultar(p, j)
      PROVE  SinTocarArchivos
  BY <1>5 DEF Consultar, Foto, FotoVacia
<1>6. ASSUME NEW p \in Despachadores, NEW j \in Trabajos, TrabajoPerdido(p, j)
      PROVE  SinTocarArchivos
  BY <1>6 DEF TrabajoPerdido, EnCurso
<1>7. ASSUME NEW p \in Despachadores, NEW j \in Trabajos, ConsultaFallida(p, j)
      PROVE  SinTocarArchivos
  BY <1>7 DEF ConsultaFallida
<1>8. ASSUME NEW p \in Despachadores, LeerFilas(p)
      PROVE  SinTocarArchivos
  BY <1>8 DEF LeerFilas, Siguiente, FotoVacia
<1>9. ASSUME NEW p \in Despachadores, LeerFilasFalla(p)
      PROVE  SinTocarArchivos
  BY <1>9 DEF LeerFilasFalla, Siguiente
<1>10. ASSUME NEW p \in Despachadores, NEW f \in filas[p], AplicarFalla(p, f)
      PROVE  SinTocarArchivos
  BY <1>10 DEF AplicarFalla, Siguiente
<1>11. ASSUME NEW p \in Despachadores, TomarEnCola(p)
      PROVE  SinTocarArchivos
  BY <1>11 DEF TomarEnCola, SoltarCandado, Limpiar, FilasEnCola
<1>12. ASSUME NEW p \in Despachadores, NEW t \in SUBSET leidas[p], NEW j \in Trabajos, EnviarAceptado(p, t, j)
      PROVE  SinTocarArchivos
  BY <1>12 DEF EnviarAceptado, Acepta
<1>13. ASSUME NEW p \in Despachadores, NEW t \in SUBSET leidas[p], EnviarIncierto(p, t)
      PROVE  SinTocarArchivos
  BY <1>13 DEF EnviarIncierto, Acepta, SoltarCandado, Limpiar
<1>14. ASSUME NEW p \in Despachadores, NEW t \in SUBSET leidas[p], EnviarCortado(p, t)
      PROVE  SinTocarArchivos
  BY <1>14 DEF EnviarCortado, Acepta, SoltarCandado, Limpiar
<1>15. ASSUME NEW p \in Despachadores, NEW t \in SUBSET leidas[p], EnviarSaltado(p, t)
      PROVE  SinTocarArchivos
  BY <1>15 DEF EnviarSaltado
<1>16. ASSUME NEW p \in Despachadores, NEW t \in SUBSET leidas[p], EnviarRechazado(p, t)
      PROVE  SinTocarArchivos
  BY <1>16 DEF EnviarRechazado, EnCurso
<1>17. ASSUME NEW p \in Despachadores, Ligar(p)
      PROVE  SinTocarArchivos
  BY <1>17 DEF Ligar, Ganadas, EnCurso
<1>18. ASSUME NEW p \in Despachadores, TerminarCiclo(p)
      PROVE  SinTocarArchivos
  BY <1>18 DEF TerminarCiclo, SoltarCandado, Limpiar
<1>19. ASSUME NEW d \in Docs, VencerIncertidumbre(d)
      PROVE  SinTocarArchivos
  BY <1>19 DEF VencerIncertidumbre
<1>20. ASSUME NEW j \in Trabajos, NEW como \in {"completed", "cancelled"}, TerminarTrabajo(j, como)
      PROVE  SinTocarArchivos
  BY <1>20 DEF TerminarTrabajo
<1>21. ASSUME NEW j \in Trabajos, PerderTrabajo(j)
      PROVE  SinTocarArchivos
  BY <1>21 DEF PerderTrabajo
<1>22. CASE UNCHANGED vars
  BY <1>22 DEF vars
<1> HIDE DEF IInv, TypeOK, SinTocarArchivos
<1> QED
  BY <1>1, <1>2, <1>3, <1>4, <1>5, <1>6, <1>7, <1>8, <1>9, <1>10, <1>11, <1>12, <1>13, <1>14,
     <1>15, <1>16, <1>17, <1>18, <1>19, <1>20, <1>21, <1>22
     DEF Next, Sincronizar, Despachar, PasoDeLasManos

\* The copy a re-queued row leaves is no row's path any more.
LEMMA RutaQueSeDeja ==
  ASSUME IInv, NEW d \in Docs, NEW camino, ruta[d] \in Copias, camino # ruta[d],
         ruta' = [ruta EXCEPT ![d] = camino]
  PROVE  contenido[ruta[d]] = d /\ \A e \in Docs : ruta'[e] # ruta[d]
BY DEF IInv, TypeOK, TipoColumnas, RutaDeFila

\* escribir_streaming: a new name.
LEMMA ArchivosSubir ==
  ASSUME IInv, NEW r \in Peticiones, NEW u \in Usuarios, NEW d \in Docs, NEW c \in Copias, Subir(r, u, d, c)
  PROVE  Archivos'
<1> USE DatosAssumption DEF IInv, TypeOK, TipoColumnas, TipoArchivos, TipoLasManos, TipoTareas,
   TipoPeticiones
<1>1. CopiaDePeticion'
  BY DEF CopiaDePeticion, RutaDeFila, Subir
<1>2. CopiaPorRegistrar'
  <2> SUFFICES ASSUME NEW q \in Peticiones, pPaso'[q] \in {"escrito", "duplicado"}
               PROVE  /\ pUsuario'[q] \in Usuarios
                      /\ Legible(pDoc[q], pCopia[q])'
                      /\ \A p \in Despachadores : porBorrar'[p] # pCopia'[q]
    BY DEF CopiaPorRegistrar
  <2>1. CASE q = r
    BY <2>1 DEF Subir, Legible, CopiaPorBorrar
  <2>2. CASE q # r
    BY <2>2 DEF Subir, CopiaPorRegistrar, CopiaDePeticion, Legible
  <2> QED
    BY <2>1, <2>2
<1>3. RutaDeFila'
  BY DEF RutaDeFila, Subir
<1>4. CopiaPorBorrar'
  BY DEF CopiaPorBorrar, EnCurso, Subir
<1>5. PropiaEnFuente'
  BY DEF PropiaEnFuente, Subir
<1>6. OriginalNuncaSePierde'
  BY DEF OriginalNuncaSePierde, EnCurso, Legible, Subir
<1> QED
  BY <1>1, <1>2, <1>3, <1>4, <1>5, <1>6 DEF Archivos

\* The copy of the request becomes the row's.
LEMMA ArchivosInsertarAceptado ==
  ASSUME IInv, NEW r \in Peticiones, InsertarAceptado(r)
  PROVE  Archivos'
<1> USE DatosAssumption DEF IInv, TypeOK, TipoColumnas, TipoArchivos, TipoLasManos, TipoTareas,
   TipoPeticiones
<1>1. CopiaDePeticion'
  BY DEF CopiaDePeticion, VolverALaCola, InsertarAceptado, InsertaFila, VolverALaCola, Responder
<1>2. CopiaPorRegistrar'
  BY DEF CopiaPorRegistrar, Legible, InsertarAceptado, InsertaFila, VolverALaCola, Responder
<1>3. RutaDeFila'
  BY
     DEF RutaDeFila, CopiaDePeticion, CopiaPorRegistrar, Legible, InsertarAceptado, InsertaFila,
         VolverALaCola, Responder
<1>4. CopiaPorBorrar'
  BY
     DEF CopiaPorBorrar, EnCurso, CopiaPorRegistrar, CopiaDePeticion, InsertarAceptado,
         InsertaFila, VolverALaCola, Responder
<1>5. PropiaEnFuente'
  BY DEF PropiaEnFuente, InsertarAceptado, InsertaFila, VolverALaCola, Responder
<1>6. OriginalNuncaSePierde'
  BY
     DEF OriginalNuncaSePierde, EnCurso, Legible, CopiaPorRegistrar, CopiaDePeticion,
         InsertarAceptado, InsertaFila, VolverALaCola, Responder
<1> QED
  BY <1>1, <1>2, <1>3, <1>4, <1>5, <1>6 DEF Archivos

\* The copy stays on disk without an owner.
LEMMA ArchivosResultadoIncierto ==
  ASSUME IInv, NEW r \in Peticiones, ResultadoIncierto(r)
  PROVE  Archivos'
<1> USE DatosAssumption DEF IInv, TypeOK, TipoColumnas, TipoArchivos, TipoLasManos, TipoTareas,
   TipoPeticiones
<1>1. CopiaDePeticion'
  BY DEF CopiaDePeticion, ResultadoIncierto, Responder
<1>2. CopiaPorRegistrar'
  BY DEF CopiaPorRegistrar, Legible, ResultadoIncierto, Responder
<1>3. RutaDeFila'
  BY DEF RutaDeFila, ResultadoIncierto, Responder
<1>4. CopiaPorBorrar'
  BY DEF CopiaPorBorrar, EnCurso, ResultadoIncierto, Responder
<1>5. PropiaEnFuente'
  BY DEF PropiaEnFuente, ResultadoIncierto, Responder
<1>6. OriginalNuncaSePierde'
  BY DEF OriginalNuncaSePierde, EnCurso, Legible, ResultadoIncierto, Responder
<1> QED
  BY <1>1, <1>2, <1>3, <1>4, <1>5, <1>6 DEF Archivos

\* The request still owns its copy.
LEMMA ArchivosInsertarDuplicado ==
  ASSUME IInv, NEW r \in Peticiones, InsertarDuplicado(r)
  PROVE  Archivos'
<1> USE DatosAssumption DEF IInv, TypeOK, TipoColumnas, TipoArchivos, TipoLasManos, TipoTareas,
   TipoPeticiones
<1>1. CopiaDePeticion'
  BY DEF CopiaDePeticion, InsertarDuplicado, IrA
<1>2. CopiaPorRegistrar'
  BY DEF CopiaPorRegistrar, Legible, InsertarDuplicado, IrA
<1>3. RutaDeFila'
  BY DEF RutaDeFila, InsertarDuplicado, IrA
<1>4. CopiaPorBorrar'
  BY DEF CopiaPorBorrar, EnCurso, InsertarDuplicado, IrA
<1>5. PropiaEnFuente'
  BY DEF PropiaEnFuente, InsertarDuplicado, IrA
<1>6. OriginalNuncaSePierde'
  BY DEF OriginalNuncaSePierde, EnCurso, Legible, InsertarDuplicado, IrA
<1> QED
  BY <1>1, <1>2, <1>3, <1>4, <1>5, <1>6 DEF Archivos

\* The copy of the request will be deleted.
LEMMA ArchivosRechazar ==
  ASSUME IInv, NEW r \in Peticiones, Rechazar(r)
  PROVE  Archivos'
<1> USE DatosAssumption DEF IInv, TypeOK, TipoColumnas, TipoArchivos, TipoLasManos, TipoTareas,
   TipoPeticiones
<1>1. CopiaDePeticion'
  BY DEF CopiaDePeticion, Rechazar, IrA
<1>2. CopiaPorRegistrar'
  BY DEF CopiaPorRegistrar, Legible, Rechazar, IrA
<1>3. RutaDeFila'
  BY DEF RutaDeFila, Rechazar, IrA
<1>4. CopiaPorBorrar'
  BY DEF CopiaPorBorrar, EnCurso, Rechazar, IrA
<1>5. PropiaEnFuente'
  BY DEF PropiaEnFuente, Rechazar, IrA
<1>6. OriginalNuncaSePierde'
  BY DEF OriginalNuncaSePierde, EnCurso, Legible, Rechazar, IrA
<1> QED
  BY <1>1, <1>2, <1>3, <1>4, <1>5, <1>6 DEF Archivos

\* The row takes the new copy and the request the old one.
LEMMA ArchivosReencolarAtascado ==
  ASSUME IInv, NEW r \in Peticiones, ReencolarAtascado(r)
  PROVE  Archivos'
<1> USE DatosAssumption DEF IInv, TypeOK, TipoColumnas, TipoArchivos, TipoLasManos, TipoTareas,
   TipoPeticiones
<1>1. CopiaDePeticion'
  <2> DEFINE d == pDoc[r]
  <2>1. /\ d \in Docs /\ pCopia[r] \in Copias /\ UNCHANGED contenido
        /\ ruta' = [ruta EXCEPT ![d] = pCopia[r]] /\ pCopia[r] # ruta[d]
        /\ pPaso[r] # "libre"
    BY DEF ReencolarAtascado, VolverALaCola, CopiaDePeticion
  <2>2. CASE ruta[d] \in Copias /\ PorBorrarAntes(r, d, ruta[d])
    <3>1. \A e \in Docs : ruta'[e] # ruta[d]
      BY <2>1, <2>2, RutaQueSeDeja
    <3>2. contenido[ruta[d]] = d
      BY <2>1, <2>2 DEF RutaDeFila
    <3>3. /\ pCopia' = [pCopia EXCEPT ![r] = ruta[d]]
          /\ pDoc' = [pDoc EXCEPT ![r] = d]
          /\ pPaso' = [pPaso EXCEPT ![r] = "borrar_anterior"]
      BY <2>2 DEF PorBorrarAntes
    <3>4. \A q \in Peticiones \ {r} : pPaso[q] # "libre" =>
            /\ pDoc[q] \in Docs /\ pCopia[q] \in Copias /\ contenido[pCopia[q]] \in Docs
            /\ pCopia[q] # ruta[d]
            /\ \A e \in Docs : ruta'[e] # pCopia[q]
      BY <2>1 DEF CopiaDePeticion
    <3> QED
      BY <2>1, <2>2, <3>1, <3>2, <3>3, <3>4 DEF CopiaDePeticion
  <2>3. CASE Responder(r)
    BY <2>1, <2>3 DEF CopiaDePeticion, Responder, ReencolarAtascado
  <2> QED
    BY <2>2, <2>3 DEF ReencolarAtascado
<1>2. CopiaPorRegistrar'
  <2>1. CASE ruta[pDoc[r]] \in Copias /\ PorBorrarAntes(r, pDoc[r], ruta[pDoc[r]])
    BY <2>1 DEF CopiaPorRegistrar, CopiaDePeticion, Legible, ReencolarAtascado, PorBorrarAntes
  <2>2. CASE Responder(r)
    BY <2>2 DEF CopiaPorRegistrar, CopiaDePeticion, Legible, ReencolarAtascado, Responder
  <2> QED
    BY <2>1, <2>2 DEF ReencolarAtascado
<1>3. RutaDeFila'
  BY
     DEF RutaDeFila, CopiaDePeticion, CopiaPorRegistrar, Legible, ReencolarAtascado, Atascado,
         VolverALaCola, PorBorrarAntes, Responder
<1>4. CopiaPorBorrar'
  BY
     DEF CopiaPorBorrar, EnCurso, CopiaPorRegistrar, CopiaDePeticion, ReencolarAtascado,
         Atascado, VolverALaCola, PorBorrarAntes, Responder
<1>5. PropiaEnFuente'
  BY DEF PropiaEnFuente, ReencolarAtascado, Atascado, VolverALaCola, PorBorrarAntes, Responder
<1>6. OriginalNuncaSePierde'
  BY
     DEF OriginalNuncaSePierde, EnCurso, Legible, CopiaPorRegistrar, CopiaDePeticion,
         ReencolarAtascado, Atascado, VolverALaCola, PorBorrarAntes, Responder
<1> QED
  BY <1>1, <1>2, <1>3, <1>4, <1>5, <1>6 DEF Archivos

\* The copy of the request will be deleted.
LEMMA ArchivosDuplicadoComun ==
  ASSUME IInv, NEW r \in Peticiones, DuplicadoComun(r)
  PROVE  Archivos'
<1> USE DatosAssumption DEF IInv, TypeOK, TipoColumnas, TipoArchivos, TipoLasManos, TipoTareas,
   TipoPeticiones
<1>1. CopiaDePeticion'
  BY DEF CopiaDePeticion, DuplicadoComun, IrA
<1>2. CopiaPorRegistrar'
  BY DEF CopiaPorRegistrar, Legible, DuplicadoComun, IrA
<1>3. RutaDeFila'
  BY DEF RutaDeFila, DuplicadoComun, IrA
<1>4. CopiaPorBorrar'
  BY DEF CopiaPorBorrar, EnCurso, DuplicadoComun, IrA
<1>5. PropiaEnFuente'
  BY DEF PropiaEnFuente, DuplicadoComun, IrA
<1>6. OriginalNuncaSePierde'
  BY DEF OriginalNuncaSePierde, EnCurso, Legible, DuplicadoComun, IrA
<1> QED
  BY <1>1, <1>2, <1>3, <1>4, <1>5, <1>6 DEF Archivos

\* The row takes the original and the request the old copy.
LEMMA ArchivosReprocesar ==
  ASSUME IInv, NEW r \in Peticiones, NEW u \in Usuarios, NEW d \in Docs, Reprocesar(r, u, d)
  PROVE  Archivos'
<1> USE DatosAssumption DEF IInv, TypeOK, TipoColumnas, TipoArchivos, TipoLasManos, TipoTareas,
   TipoPeticiones
<1>1. CopiaDePeticion'
  <2>1. /\ UNCHANGED contenido /\ pPaso[r] = "libre"
        /\ ruta' = [ruta EXCEPT ![d] = Fuente]
    BY DEF Reprocesar, VolverALaCola
  <2>2. CASE ruta[d] \in Copias
    <3>1. \A e \in Docs : ruta'[e] # ruta[d]
      BY <2>1, <2>2, RutaQueSeDeja
    <3>2. contenido[ruta[d]] = d
      BY <2>1, <2>2 DEF RutaDeFila
    <3>3. /\ pCopia' = [pCopia EXCEPT ![r] = ruta[d]]
          /\ pDoc' = [pDoc EXCEPT ![r] = d]
          /\ pPaso' = [pPaso EXCEPT ![r] = "borrar_anterior"]
      BY <2>2 DEF PorBorrarAntes, Reprocesar
    <3>4. \A q \in Peticiones \ {r} : pPaso[q] # "libre" =>
            /\ pDoc[q] \in Docs /\ pCopia[q] \in Copias /\ contenido[pCopia[q]] \in Docs
            /\ pCopia[q] # ruta[d]
            /\ \A e \in Docs : ruta'[e] # pCopia[q]
      BY <2>1 DEF CopiaDePeticion
    <3> QED
      BY <2>1, <2>2, <3>1, <3>2, <3>3, <3>4 DEF CopiaDePeticion
  <2>3. CASE ruta[d] \notin Copias
    BY <2>1, <2>3 DEF Reprocesar, CopiaDePeticion
  <2> QED
    BY <2>2, <2>3
<1>2. CopiaPorRegistrar'
  BY DEF CopiaPorRegistrar, Legible, Reprocesar, VolverALaCola, PorBorrarAntes
<1>3. RutaDeFila'
  BY DEF RutaDeFila, Reprocesar, VolverALaCola, PorBorrarAntes
<1>4. CopiaPorBorrar'
  BY DEF CopiaPorBorrar, EnCurso, Reprocesar, VolverALaCola, PorBorrarAntes
<1>5. PropiaEnFuente'
  BY DEF PropiaEnFuente, Reprocesar, VolverALaCola, PorBorrarAntes
<1>6. OriginalNuncaSePierde'
  BY DEF OriginalNuncaSePierde, EnCurso, Legible, Reprocesar, VolverALaCola, PorBorrarAntes
<1> QED
  BY <1>1, <1>2, <1>3, <1>4, <1>5, <1>6 DEF Archivos

\* No row points at the copy a request deletes.
LEMMA ArchivosBorrarDePeticion ==
  ASSUME IInv, NEW r \in Peticiones, BorrarDePeticion(r)
  PROVE  Archivos'
<1> USE DatosAssumption DEF IInv, TypeOK, TipoColumnas, TipoArchivos, TipoLasManos, TipoTareas,
   TipoPeticiones
<1>1. CopiaDePeticion'
  BY DEF CopiaDePeticion, BorrarDePeticion, Responder
<1>2. CopiaPorRegistrar'
  BY DEF CopiaPorRegistrar, Legible, CopiaDePeticion, BorrarDePeticion, Responder
<1>3. RutaDeFila'
  BY DEF RutaDeFila, BorrarDePeticion, Responder
<1>4. CopiaPorBorrar'
  BY DEF CopiaPorBorrar, EnCurso, BorrarDePeticion, Responder
<1>5. PropiaEnFuente'
  BY DEF PropiaEnFuente, BorrarDePeticion, Responder
<1>6. OriginalNuncaSePierde'
  BY DEF OriginalNuncaSePierde, EnCurso, Legible, CopiaDePeticion, BorrarDePeticion, Responder
<1> QED
  BY <1>1, <1>2, <1>3, <1>4, <1>5, <1>6 DEF Archivos

\* A closed row may hand its copy to borrar_copia, once the original is in fuente/.
LEMMA ArchivosAplicarFila ==
  ASSUME IInv, NEW p \in Despachadores, NEW f \in filas[p], AplicarFila(p, f)
  PROVE  Archivos'
<1> USE DatosAssumption DEF IInv, TypeOK, TipoColumnas, TipoArchivos, TipoLasManos, TipoTareas,
   TipoPeticiones
<1> DEFINE d        == f.doc
           res      == ResultadoDe(p, f)
           decision == Decidir(res, foto[p].estado)
           cambia   == FilaAplicable(d, trabajo[p], f.ruta)
<1>1. /\ d \in Docs
      /\ res \in Resultados \union {SinResultado}
      /\ foto[p].estado \in {"corriendo", "completed", "cancelled"}
  BY DEF Fila, ResultadoDe, Foto
<1>2. decision.estado # "no_existe" /\ (res # SinResultado => decision = res)
  <2> HIDE DEF res
  <2> QED
    BY <1>1 DEF Decidir, Resultados, ESTADOS_FINALES
<1>3. /\ UNCHANGED <<ruta, dueno, contenido, presente, fuente, resultado, peticion>>
      /\ \A e \in Docs \ {d} : estado'[e] = estado[e]
      /\ estado'[d] = IF cambia THEN decision.estado ELSE estado[d]
  BY <1>1 DEF AplicarFila
<1>4. cambia => estado[d] \in Abiertos /\ EnCurso(d) /\ ruta[d] = f.ruta
  BY DEF FilaAplicable, EnCurso
<1>5. \A q \in Despachadores : foto'[q] \in {foto[q], FotoVacia}
  BY DEF AplicarFila, Siguiente
<1>6. CASE UNCHANGED porBorrar
  <2>1. SinTocarArchivos
    BY <1>2, <1>3, <1>4, <1>5, <1>6 DEF SinTocarArchivos
  <2> QED
    BY <2>1, Marco
<1>7. CASE porBorrar' # porBorrar
  <2>1. /\ cambia
        /\ res # SinResultado
        /\ decision.carpeta = "propia"
        /\ f.ruta \in Copias
        /\ porBorrar' = [porBorrar EXCEPT ![p] = f.ruta]
    BY <1>7 DEF AplicarFila, OriginalASalvo
  <2>2. d \in fuente
    <3>1. res = foto[p].res[d]
      BY <2>1 DEF ResultadoDe
    <3>2. res.carpeta = "propia"
      BY <1>2, <2>1
    <3> QED
      BY <1>1, <3>1, <3>2 DEF PropiaEnFuente
  <2>3. ~EnCurso(d)'
    BY <1>1, <1>2, <1>3, <2>1 DEF EnCurso, Resultados, ESTADOS_FINALES, Abiertos
  <2>4. \A e \in Docs : ruta[e] = f.ruta => e = d
    BY <1>1, <1>4, <2>1 DEF RutaDeFila
  <2>5. \A e \in Docs : EnCurso(e)' => EnCurso(e)
    BY <1>3, <2>3 DEF EnCurso
  <2>6. CopiaDePeticion'
    BY <1>3 DEF CopiaDePeticion
  <2>7. CopiaPorRegistrar'
    BY <1>1, <1>3, <1>4, <2>1 DEF CopiaPorRegistrar, CopiaDePeticion, Legible
  <2>8. RutaDeFila'
    BY <1>1, <1>3, <1>4 DEF RutaDeFila, Abiertos
  <2>9. CopiaPorBorrar'
    BY <1>1, <1>3, <1>4, <2>1, <2>2, <2>3, <2>4, <2>5 DEF CopiaPorBorrar, RutaDeFila
  <2>10. PropiaEnFuente'
    <3>1. UNCHANGED <<fuente, resultado>>
      BY <1>3
    <3>2. \A q \in Despachadores, e \in Docs : FotoVacia.res[e].carpeta = "ninguna"
      BY DEF FotoVacia, SinResultado
    <3> HIDE DEF FotoVacia, TypeOK
    <3> QED
      BY <1>5, <3>1, <3>2 DEF PropiaEnFuente
  <2>11. OriginalNuncaSePierde'
    BY <1>1, <1>3, <1>4, <2>2, <2>5 DEF OriginalNuncaSePierde, Legible, Abiertos
  <2> QED
    BY <2>6, <2>7, <2>8, <2>9, <2>10, <2>11 DEF Archivos
<1> QED
  BY <1>6, <1>7

\* A row that points at the deleted copy is closed and in fuente/.
LEMMA ArchivosBorrarCopia ==
  ASSUME IInv, NEW p \in Despachadores, BorrarCopia(p)
  PROVE  Archivos'
<1> USE DatosAssumption DEF IInv, TypeOK, TipoColumnas, TipoArchivos, TipoLasManos, TipoTareas,
   TipoPeticiones
<1>1. CopiaDePeticion'
  BY DEF CopiaDePeticion, BorrarCopia, Siguiente
<1>2. CopiaPorRegistrar'
  BY DEF CopiaPorRegistrar, Legible, CopiaDePeticion, BorrarCopia, Siguiente
<1>3. RutaDeFila'
  BY DEF RutaDeFila, BorrarCopia, Siguiente
<1>4. CopiaPorBorrar'
  BY DEF CopiaPorBorrar, EnCurso, BorrarCopia, Siguiente
<1>5. PropiaEnFuente'
  BY DEF PropiaEnFuente, FotoVacia, SinResultado, BorrarCopia, Siguiente
<1>6. OriginalNuncaSePierde'
  <2>1. UNCHANGED <<estado, ruta, contenido, fuente>>
    BY DEF BorrarCopia
  <2>2. ASSUME NEW d \in Docs, Legible(d, ruta[d])
        PROVE  Legible(d, ruta[d])' \/ (d \in fuente /\ ~EnCurso(d))
    <3>1. CASE porBorrar[p] # Nadie /\ ruta[d] = porBorrar[p]
      BY <3>1 DEF CopiaPorBorrar
    <3>2. CASE ruta[d] # porBorrar[p] \/ porBorrar[p] = Nadie
      BY <2>1, <2>2, <3>2 DEF BorrarCopia, Legible
    <3> QED
      BY <3>1, <3>2
  <2> QED
    BY <2>1, <2>2 DEF OriginalNuncaSePierde, EnCurso
<1> QED
  BY <1>1, <1>2, <1>3, <1>4, <1>5, <1>6 DEF Archivos

\* A crash forgets every pending deletion.
LEMMA ArchivosCaida ==
  ASSUME IInv, Caida
  PROVE  Archivos'
<1> USE DatosAssumption DEF IInv, TypeOK, TipoColumnas, TipoArchivos, TipoLasManos, TipoTareas,
   TipoPeticiones
<1>1. CopiaDePeticion'
  BY DEF CopiaDePeticion, Caida
<1>2. CopiaPorRegistrar'
  BY DEF CopiaPorRegistrar, Legible, Caida
<1>3. RutaDeFila'
  BY DEF RutaDeFila, Caida
<1>4. CopiaPorBorrar'
  BY DEF CopiaPorBorrar, EnCurso, Caida
<1>5. PropiaEnFuente'
  BY DEF PropiaEnFuente, FotoVacia, SinResultado, Caida
<1>6. OriginalNuncaSePierde'
  BY DEF OriginalNuncaSePierde, EnCurso, Legible, Caida
<1> QED
  BY <1>1, <1>2, <1>3, <1>4, <1>5, <1>6 DEF Archivos

\* fuente/ only grows.
LEMMA ArchivosProcesar ==
  ASSUME IInv, NEW j \in Trabajos, NEW f \in pedido[j], NEW res \in Respuestas, Procesar(j, f, res)
  PROVE  Archivos'
<1> USE DatosAssumption DEF IInv, TypeOK, TipoColumnas, TipoArchivos, TipoLasManos, TipoTareas,
   TipoPeticiones
<1>1. CopiaDePeticion'
  BY RespuestasAssumption DEF CopiaDePeticion, Procesar
<1>2. CopiaPorRegistrar'
  BY RespuestasAssumption DEF CopiaPorRegistrar, Legible, Procesar
<1>3. RutaDeFila'
  BY RespuestasAssumption DEF RutaDeFila, Procesar
<1>4. CopiaPorBorrar'
  BY RespuestasAssumption DEF CopiaPorBorrar, EnCurso, Procesar
<1>5. PropiaEnFuente'
  BY RespuestasAssumption DEF PropiaEnFuente, Resultados, Procesar
<1>6. OriginalNuncaSePierde'
  BY RespuestasAssumption DEF OriginalNuncaSePierde, EnCurso, Legible, Procesar
<1> QED
  BY <1>1, <1>2, <1>3, <1>4, <1>5, <1>6 DEF Archivos
-----------------------------------------------------------------------------
(* The inductive invariant and what follows from it.                       *)

\* The initial state satisfies the inductive invariant.
LEMMA InvarianteInicial == Init => IInv
BY DatosAssumption, NumerosAssumption
   DEF Init, IInv, TypeOK, TipoColumnas, TipoArchivos, TipoLasManos, TipoTareas, TipoPeticiones,
       TipoCotas, Estados, Carpetas, Foto, FotoVacia, SinResultado, TrabajoConocido,
       CopiaDePeticion, CopiaPorRegistrar, RutaDeFila, CopiaPorBorrar, PropiaEnFuente,
       OriginalNuncaSePierde

\* Every step keeps the inductive invariant.
LEMMA InvariantePaso == IInv /\ [Next]_vars => IInv'
<1> SUFFICES ASSUME IInv, [Next]_vars
             PROVE  IInv'
  OBVIOUS
<1>1. TypeOK'
  BY TipoPaso
<1>2. TrabajoConocido'
  BY TrabajoConocidoPaso
<1>3. Archivos'
  <2>1. CASE SinTocarArchivos
    BY <2>1, Marco
  <2>2. ASSUME NEW r \in Peticiones, PasoDePeticion(r)
        PROVE  Archivos'
    BY <2>2, ArchivosSubir, ArchivosInsertarAceptado, ArchivosResultadoIncierto,
       ArchivosInsertarDuplicado, ArchivosRechazar, ArchivosReencolarAtascado,
       ArchivosDuplicadoComun, ArchivosReprocesar, ArchivosBorrarDePeticion
       DEF PasoDePeticion
  <2>3. ASSUME NEW p \in Despachadores, BorrarCopia(p) \/ \E f \in filas[p] : AplicarFila(p, f)
        PROVE  Archivos'
    BY <2>3, ArchivosBorrarCopia, ArchivosAplicarFila
  <2>4. ASSUME NEW j \in Trabajos, NEW f \in pedido[j], NEW res \in Respuestas,
               Procesar(j, f, res)
        PROVE  Archivos'
    BY <2>4, ArchivosProcesar
  <2>5. CASE Caida
    BY <2>5, ArchivosCaida
  <2> QED
    BY <2>1, <2>2, <2>3, <2>4, <2>5, PasoSinTocarArchivos
<1> QED
  BY <1>1, <1>2, <1>3 DEF IInv, Archivos

\* The inductive invariant holds in every state of the system, for every number
\* of documents, copies, jobs, dispatcher tasks and requests.
THEOREM Invariante == Spec => []IInv
BY InvarianteInicial, InvariantePaso, PTL DEF Spec

\* Every column, file and local variable keeps its type (project_documents,
\* _sincronizar, _despachar, _guardar_lote).
THEOREM TiposCorrectos == Spec => []TypeOK
<1>1. IInv => TypeOK
  BY DEF IInv
<1> QED
  BY <1>1, Invariante, PTL

\* No registered document ever loses its last original, whatever uploads,
\* re-queues, deletions, crashes and lost locks interleave (borrar_copia,
\* _guardar_lote, _reencolar_atascado, reprocesar).
THEOREM NingunOriginalSePierde == Spec => []OriginalNuncaSePierde
<1>1. IInv => OriginalNuncaSePierde
  BY DEF IInv
<1> QED
  BY <1>1, Invariante, PTL

-----------------------------------------------------------------------------
(* A final state is left only by a re-queue.                               *)

\* A row that LAS MANOS was not given yet has no job.
ColaSinTrabajo == \A d \in Docs : estado[d] \in {"no_existe", "en_cola"} => jobId[d] = Nadie

\* What one step may do to the state and the job of a row.
SoloPorReencolar(d) ==
  /\ (estado[d] \in ESTADOS_FINALES /\ estado'[d] # estado[d]) =>
       estado'[d] = "en_cola" /\ vuelta'[d] = vuelta[d] + 1
  /\ (jobId[d] # Nadie /\ jobId'[d] # jobId[d]) => jobId'[d] = Nadie

\* VolverALaCola counts a new turn and forgets the job.
LEMMA FilaReencolada ==
  ASSUME TypeOK, ColaSinTrabajo, NEW d \in Docs, NEW camino, NEW u, VolverALaCola(d, camino, u)
  PROVE  (\A e \in Docs : SoloPorReencolar(e)) /\ ColaSinTrabajo'
BY DEF TypeOK, TipoColumnas, VolverALaCola, ColaSinTrabajo, SoloPorReencolar

\* A step that changes no state and no job.
LEMMA FilasQuietas ==
  ASSUME ColaSinTrabajo, UNCHANGED <<estado, jobId>>
  PROVE  (\A e \in Docs : SoloPorReencolar(e)) /\ ColaSinTrabajo'
BY DEF ColaSinTrabajo, SoloPorReencolar

\* Every step respects final states, and no row in the queue has a job.
LEMMA FinalPaso ==
  ASSUME IInv, ColaSinTrabajo, [Next]_vars
  PROVE  (\A d \in Docs : SoloPorReencolar(d)) /\ ColaSinTrabajo'
<1> DEFINE Bien == (\A d \in Docs : SoloPorReencolar(d)) /\ ColaSinTrabajo'
<1> USE DEF IInv
<1>1. ASSUME NEW r \in Peticiones, PasoDePeticion(r)
      PROVE  Bien
  <2>1. CASE InsertarAceptado(r)
    BY <2>1, FilaReencolada DEF InsertarAceptado, InsertaFila, CopiaDePeticion
  <2>2. CASE ReencolarAtascado(r)
    BY <2>2, FilaReencolada DEF ReencolarAtascado, CopiaDePeticion
  <2>3. ASSUME NEW u \in Usuarios, NEW d \in Docs, Reprocesar(r, u, d)
        PROVE  Bien
    BY <2>3, FilaReencolada DEF Reprocesar
  <2>4. CASE UNCHANGED <<estado, jobId>>
    BY <2>4, FilasQuietas
  <2> HIDE DEF Bien
  <2> QED
    BY <1>1, <2>1, <2>2, <2>3, <2>4
       DEF PasoDePeticion, Subir, ResultadoIncierto, InsertarDuplicado, Rechazar, DuplicadoComun,
           BorrarDePeticion
<1>2. ASSUME NEW p \in Despachadores, Sincronizar(p)
      PROVE  Bien
  <2>1. ASSUME NEW j \in Trabajos, TrabajoPerdido(p, j)
        PROVE  Bien
    BY <2>1 DEF TrabajoPerdido, ColaSinTrabajo, SoloPorReencolar, Abiertos, ESTADOS_FINALES
  <2>2. ASSUME NEW f \in filas[p], AplicarFila(p, f)
        PROVE  Bien
    <3> DEFINE d        == f.doc
               res      == ResultadoDe(p, f)
               decision == Decidir(res, foto[p].estado)
    <3>1. /\ d \in Docs
          /\ res \in Resultados \union {SinResultado}
          /\ foto[p].estado \in {"corriendo", "completed", "cancelled"}
      BY DEF TypeOK, TipoTareas, TipoLasManos, Fila, ResultadoDe, Foto
    <3>2. decision.estado \notin {"no_existe", "en_cola"}
      <4> HIDE DEF res
      <4> QED
        BY <3>1 DEF Decidir, Resultados, ESTADOS_FINALES
    <3> HIDE DEF decision
    <3>3. /\ estado' = [estado EXCEPT ![d] = IF FilaAplicable(d, trabajo[p], f.ruta)
                                             THEN decision.estado ELSE @]
          /\ UNCHANGED jobId
      BY <2>2 DEF AplicarFila, decision
    <3>4. FilaAplicable(d, trabajo[p], f.ruta) => estado[d] \in Abiertos
      BY DEF FilaAplicable
    <3> QED
      BY <3>1, <3>2, <3>3, <3>4
         DEF TypeOK, TipoColumnas, ColaSinTrabajo, SoloPorReencolar, Abiertos, ESTADOS_FINALES
  <2>3. CASE UNCHANGED <<estado, jobId>>
    BY <2>3, FilasQuietas
  <2> HIDE DEF Bien
  <2> QED
    BY <1>2, <2>1, <2>2, <2>3
       DEF Sincronizar, TomarCandado, Consultar, ConsultaFallida, LeerFilas, LeerFilasFalla,
           AplicarFalla, BorrarCopia
<1>3. ASSUME NEW p \in Despachadores, Despachar(p)
      PROVE  Bien
  <2>1. ASSUME NEW t \in SUBSET leidas[p], EnviarRechazado(p, t)
        PROVE  Bien
    BY <2>1 DEF EnviarRechazado, ColaSinTrabajo, SoloPorReencolar, ESTADOS_FINALES
  <2>2. CASE Ligar(p)
    BY <2>2 DEF Ligar, Ganadas, ColaSinTrabajo, SoloPorReencolar, ESTADOS_FINALES
  <2>3. CASE UNCHANGED <<estado, jobId>>
    BY <2>3, FilasQuietas
  <2> HIDE DEF Bien
  <2> QED
    BY <1>3, <2>1, <2>2, <2>3
       DEF Despachar, TomarEnCola, EnviarAceptado, EnviarIncierto, EnviarCortado, EnviarSaltado,
           TerminarCiclo
<1>4. CASE UNCHANGED <<estado, jobId>>
  BY <1>4, FilasQuietas
<1> HIDE DEF Bien, IInv
<1>5. ASSUME NEW j \in Trabajos, PasoDeLasManos(j)
      PROVE  UNCHANGED <<estado, jobId>>
  BY <1>5 DEF PasoDeLasManos, Procesar, TerminarTrabajo, PerderTrabajo
<1>6. ASSUME NEW d \in Docs, CambiarVisibilidad(d) \/ VencerIncertidumbre(d)
      PROVE  UNCHANGED <<estado, jobId>>
  BY <1>6 DEF CambiarVisibilidad, VencerIncertidumbre
<1>7. ASSUME NEW p \in Despachadores, PerderCandado(p)
      PROVE  UNCHANGED <<estado, jobId>>
  BY <1>7 DEF PerderCandado
<1>8. CASE CambiarProyecto \/ Caida \/ UNCHANGED vars
  BY <1>4, <1>8 DEF CambiarProyecto, Caida, vars
<1> QED
  BY <1>1, <1>2, <1>3, <1>4, <1>5, <1>6, <1>7, <1>8 DEF Next, Bien

\* A final state is never overwritten and a bound row never jumps to another job,
\* however late a result arrives (aplicar_resultado, marcar_despachadas,
\* marcar_job_perdido, marcar_error_en_cola).
THEOREM FinalSeRespeta == Spec => FinalSoloPorReencolar
<1>1. Init => ColaSinTrabajo
  BY DEF Init, ColaSinTrabajo
<1>2. IInv /\ ColaSinTrabajo /\ [Next]_vars => ColaSinTrabajo'
  BY FinalPaso
<1>3. IInv /\ ColaSinTrabajo /\ [Next]_vars =>
        [\A d \in Docs :
           /\ (estado[d] \in ESTADOS_FINALES /\ estado'[d] # estado[d]) =>
                estado'[d] = "en_cola" /\ vuelta'[d] = vuelta[d] + 1
           /\ (jobId[d] # Nadie /\ jobId'[d] # jobId[d]) => jobId'[d] = Nadie]_vars
  BY FinalPaso DEF SoloPorReencolar
<1> QED
  BY <1>1, <1>2, <1>3, Invariante, PTL DEF Spec, FinalSoloPorReencolar

-----------------------------------------------------------------------------
(* Attempts.  An attempt is a row and one of its turns in the queue.  What  *)
(* a read, a chunk or a job says of an attempt is what the row said in that *)
(* turn, so equal keys are equal chunks; and while the lock is held what    *)
(* the window read is still in the queue, in the same turn.                 *)

\* Every row read and not forgotten, by a dispatcher or by LAS MANOS.
Conocidas ==
  (UNION {pedido[j] : j \in Trabajos}) \union (UNION {leidas[p] : p \in Despachadores})

\* What was read of a row is of this turn, and then it is what the row says, or of
\* an earlier one.
DelPasado(f) ==
  /\ f.actualizado = f.vuelta
  /\ f.vuelta <= vuelta[f.doc]
  /\ f.vuelta = vuelta[f.doc] => f.ruta = ruta[f.doc] /\ f.dueno = dueno[f.doc]

\* The document and the turn say the rest.
IntentosIdentifican ==
  /\ \A d \in Docs : actualizado[d] = vuelta[d]
  /\ \A f \in Conocidas : DelPasado(f)
  /\ \A f, g \in Conocidas : f.doc = g.doc /\ f.vuelta = g.vuelta => f = g

\* No two jobs were asked for the same rows, and those of a job have one owner.
PedidosDistintos ==
  /\ \A j \in Trabajos : tEstado[j] = "libre" => pedido[j] = {}
  /\ \A i, j \in Trabajos : i # j /\ pedido[i] # {} => pedido[i] # pedido[j]
  /\ \A j \in Trabajos : \A f, g \in pedido[j] : f.dueno = g.dueno

\* The chunk a task is about to bind is still in its window and is what its job was
\* asked for.
TrozoEnCurso(p) ==
  IF paso[p] = "ligar"
  THEN trozo[p] \subseteq leidas[p] /\ trabajo[p] \in Trabajos /\ trozo[p] = pedido[trabajo[p]]
  ELSE trozo[p] = {} /\ (paso[p] = "libre" => leidas[p] = {})

FilasConDueno ==
  \A d \in Docs : jobId[d] # Nadie =>
    jobId[d] \in Trabajos /\ \E f \in pedido[jobId[d]] : f.doc = d /\ f.dueno = dueno[d]

\* Without a lost lock only its holder works,
UnoTrabaja == perdidas = 0 => \A p \in Despachadores : paso[p] # "libre" => candado = p

\* what it read is still waiting in the same turn,
VentanaAlDia ==
  perdidas = 0 => \A p \in Despachadores : \A f \in leidas[p] :
    estado[f.doc] = "en_cola" /\ f.vuelta = vuelta[f.doc]

\* and the job of every row is of its attempt: LigadaASuIntento.
InvDeIntentos ==
  /\ IntentosIdentifican
  /\ PedidosDistintos
  /\ \A p \in Despachadores : TrozoEnCurso(p)
  /\ FilasConDueno
  /\ UnoTrabaja
  /\ VentanaAlDia
  /\ LigadaASuIntento

\* At the start nothing was read and nobody works.
LEMMA IntentosAlInicio == Init => InvDeIntentos
<1> SUFFICES ASSUME Init PROVE InvDeIntentos
  OBVIOUS
<1>1. Conocidas = {}
  BY DEF Init, Conocidas
<1> QED
  BY <1>1
     DEF Init, InvDeIntentos, IntentosIdentifican, PedidosDistintos, TrozoEnCurso, FilasConDueno,
         UnoTrabaja, VentanaAlDia, LigadaASuIntento

\* What is read has the type of a row read.
LEMMA ConocidasTipadas == TypeOK => Conocidas \subseteq Leida
BY DEF TypeOK, TipoLasManos, TipoTareas, Conocidas

\* Who knows a row read.
LEMMA QuienConoce ==
  /\ \A j \in Trabajos : pedido[j] \subseteq Conocidas
  /\ \A p \in Despachadores : leidas[p] \subseteq Conocidas
  /\ \A f \in Conocidas : (\E j \in Trabajos : f \in pedido[j]) \/ (\E p \in Despachadores : f \in leidas[p])
BY DEF Conocidas

\* Equal keys are equal chunks: the key holds the turn, and the turn says the rest.
LEMMA ClaveDelTrozo ==
  ASSUME TypeOK, IntentosIdentifican, NEW s, NEW t, s \subseteq Conocidas, t \subseteq Conocidas,
         ClaveDe(s) = ClaveDe(t)
  PROVE  s = t
<1>1. ASSUME NEW x, NEW y, x \subseteq Conocidas, y \subseteq Conocidas, ClaveDe(x) = ClaveDe(y),
             NEW f \in x
      PROVE  f \in y
  <2>1. [doc |-> f.doc, ruta |-> f.ruta, actualizado |-> f.actualizado] \in ClaveDe(y)
    BY <1>1 DEF ClaveDe
  <2>2. PICK g \in y : [doc |-> f.doc, ruta |-> f.ruta, actualizado |-> f.actualizado]
                         = [doc |-> g.doc, ruta |-> g.ruta, actualizado |-> g.actualizado]
    BY <2>1 DEF ClaveDe
  <2>3. f.doc = g.doc /\ f.actualizado = g.actualizado
    BY <2>2
  <2>4. f.vuelta = g.vuelta
    BY <1>1, <2>3 DEF IntentosIdentifican, DelPasado
  <2> QED
    BY <1>1, <2>3, <2>4 DEF IntentosIdentifican
<1> QED
  BY <1>1

\* The same chunk of attempts is the same chunk.
LEMMA IntentosDelTrozo ==
  ASSUME IntentosIdentifican, NEW i \in Trabajos, NEW j \in Trabajos, Intentos(i) = Intentos(j)
  PROVE  pedido[i] = pedido[j]
<1>1. ASSUME NEW x \in Trabajos, NEW y \in Trabajos, Intentos(x) = Intentos(y), NEW f \in pedido[x]
      PROVE  f \in pedido[y]
  <2>1. <<f.doc, f.vuelta>> \in Intentos(y)
    BY <1>1 DEF Intentos
  <2>2. PICK g \in pedido[y] : <<f.doc, f.vuelta>> = <<g.doc, g.vuelta>>
    BY <2>1 DEF Intentos
  <2>3. f.doc = g.doc /\ f.vuelta = g.vuelta
    BY <2>2
  <2> QED
    BY <1>1, <2>3, QuienConoce DEF IntentosIdentifican
<1> QED
  BY <1>1

\* A step that moves no turn, and after which nothing new is known.
LEMMA IntentosSiguen ==
  ASSUME InvDeIntentos, UNCHANGED <<ruta, dueno, actualizado, vuelta>>, Conocidas' \subseteq Conocidas,
         \A p \in Despachadores : leidas'[p] \subseteq leidas[p],
         \A p \in Despachadores : \A f \in leidas'[p] :
           (perdidas = 0 /\ estado[f.doc] = "en_cola") => estado'[f.doc] = "en_cola",
         PedidosDistintos', \A p \in Despachadores : TrozoEnCurso(p)', FilasConDueno',
         perdidas' = 0 => perdidas = 0, UnoTrabaja', LigadaASuIntento'
  PROVE  InvDeIntentos'
<1>1. IntentosIdentifican'
  BY DEF InvDeIntentos, IntentosIdentifican, DelPasado
<1>2. VentanaAlDia'
  BY DEF InvDeIntentos, VentanaAlDia
<1> QED
  BY <1>1, <1>2 DEF InvDeIntentos

\* The rows whose job does not change keep what they owe to it.
LEMMA FilasSiguen ==
  ASSUME IInv, InvDeIntentos, UNCHANGED <<jobId, ruta, dueno, vuelta>>,
         \A j \in Trabajos : tEstado[j] # "libre" => pedido'[j] = pedido[j],
         perdidas' = 0 => perdidas = 0
  PROVE  FilasConDueno' /\ LigadaASuIntento'
<1>1. ASSUME NEW d \in Docs, jobId[d] # Nadie
      PROVE  jobId[d] \in Trabajos /\ pedido'[jobId[d]] = pedido[jobId[d]]
  BY <1>1 DEF IInv, TrabajoConocido, InvDeIntentos, FilasConDueno
<1>2. FilasConDueno'
  BY <1>1 DEF InvDeIntentos, FilasConDueno
<1>3. LigadaASuIntento'
  BY <1>1 DEF InvDeIntentos, LigadaASuIntento, DelIntento
<1> QED
  BY <1>2, <1>3

\* The jobs keep what they were asked for while they run, end and are forgotten.
LEMMA PedidosSiguen ==
  ASSUME PedidosDistintos, UNCHANGED pedido, \A j \in Trabajos : tEstado'[j] = "libre" => tEstado[j] = "libre"
  PROVE  PedidosDistintos'
BY DEF PedidosDistintos

\* A row enters the queue again: the turn is new, and no window that holds it is open.
LEMMA IntentosVuelta ==
  ASSUME TypeOK, InvDeIntentos, NEW d \in Docs, NEW camino, NEW u, VolverALaCola(d, camino, u),
         estado[d] # "en_cola", UNCHANGED <<lasManos, tareas, candado, perdidas>>
  PROVE  InvDeIntentos'
<1>1. /\ \A e \in Docs \ {d} : /\ estado'[e] = estado[e] /\ jobId'[e] = jobId[e] /\ ruta'[e] = ruta[e]
                               /\ dueno'[e] = dueno[e] /\ actualizado'[e] = actualizado[e]
                               /\ vuelta'[e] = vuelta[e]
      /\ jobId'[d] = Nadie /\ actualizado'[d] = actualizado[d] + 1 /\ vuelta'[d] = vuelta[d] + 1
      /\ \A e \in Docs : vuelta[e] \in Nat
  BY DEF VolverALaCola, TypeOK, TipoColumnas
<1>2. Conocidas' = Conocidas
  BY DEF Conocidas
<1>3. IntentosIdentifican'
  <2>1. \A e \in Docs : actualizado'[e] = vuelta'[e]
    BY <1>1 DEF InvDeIntentos, IntentosIdentifican
  <2>2. ASSUME NEW f \in Conocidas
        PROVE  DelPasado(f)'
    <3>1. f.doc \in Docs /\ f.vuelta \in Nat /\ DelPasado(f)
      BY ConocidasTipadas DEF InvDeIntentos, IntentosIdentifican, Leida
    <3> QED
      BY <1>1, <3>1 DEF DelPasado
  <2> QED
    BY <1>2, <2>1, <2>2 DEF InvDeIntentos, IntentosIdentifican
<1>4. PedidosDistintos' /\ UnoTrabaja' /\ \A p \in Despachadores : TrozoEnCurso(p)'
  BY DEF InvDeIntentos, PedidosDistintos, UnoTrabaja, TrozoEnCurso
<1>5. FilasConDueno'
  BY <1>1 DEF InvDeIntentos, FilasConDueno
<1>6. VentanaAlDia'
  <2>1. ASSUME NEW p \in Despachadores, NEW f \in leidas[p], perdidas = 0
        PROVE  f.doc \in Docs \ {d} /\ estado[f.doc] = "en_cola" /\ f.vuelta = vuelta[f.doc]
    BY <2>1, ConocidasTipadas, QuienConoce DEF InvDeIntentos, VentanaAlDia, Leida
  <2> QED
    BY <1>1, <2>1 DEF VentanaAlDia
<1>7. LigadaASuIntento'
  BY <1>1 DEF InvDeIntentos, LigadaASuIntento, DelIntento
<1> QED
  BY <1>3, <1>4, <1>5, <1>6, <1>7 DEF InvDeIntentos

\* LAS MANOS gives a known chunk the job it has, and a new one a job of its own.
LEMMA IntentosAcepta ==
  ASSUME TypeOK, IntentosIdentifican, PedidosDistintos, NEW p \in Despachadores,
         NEW t \in SUBSET leidas[p], EsTrozo(p, t), NEW j \in Trabajos, Acepta(j, t)
  PROVE  /\ PedidosDistintos' /\ pedido'[j] = t
         /\ \A i \in Trabajos : tEstado[i] # "libre" => pedido'[i] = pedido[i]
         /\ \A i \in Trabajos : pedido'[i] = pedido[i] \/ pedido'[i] = t
<1>1. t # {} /\ (\A f, g \in t : f.dueno = g.dueno)
  <2>1. Cardinality(t) # 0
    BY NumerosAssumption DEF EsTrozo
  <2> QED
    BY <2>1, FS_EmptySet DEF EsTrozo
<1>2. t \subseteq Conocidas
  BY QuienConoce
<1>3. CASE j \in TrabajoDe(t) /\ UNCHANGED lasManos
  <2>1. ClaveDe(pedido[j]) = ClaveDe(t)
    BY <1>3 DEF TrabajoDe
  <2>2. pedido[j] = t
    BY <1>2, <2>1, ClaveDelTrozo, QuienConoce
  <2> QED
    BY <1>3, <2>2 DEF PedidosDistintos
<1>4. CASE /\ TrabajoDe(t) = {} /\ tEstado[j] = "libre"
           /\ tEstado' = [tEstado EXCEPT ![j] = "corriendo"]
           /\ pedido' = [pedido EXCEPT ![j] = t]
  <2>1. /\ pedido'[j] = t /\ tEstado'[j] # "libre"
        /\ \A i \in Trabajos \ {j} : pedido'[i] = pedido[i] /\ tEstado'[i] = tEstado[i]
    BY <1>4 DEF TypeOK, TipoLasManos
  <2>2. ASSUME NEW i \in Trabajos \ {j}, pedido[i] = t
        PROVE  FALSE
    <3>1. tEstado[i] # "libre"
      BY <1>1, <2>2 DEF PedidosDistintos
    <3>2. i \in TrabajoDe(t)
      BY <2>2, <3>1 DEF TrabajoDe
    <3> QED
      BY <1>4, <3>2
  <2>3. PedidosDistintos'
    BY <1>1, <2>1, <2>2 DEF PedidosDistintos
  <2> QED
    BY <1>4, <2>1, <2>3
<1> QED
  BY <1>3, <1>4 DEF Acepta

\* Whatever LAS MANOS does with a POST, known attempts stay known and no more are.
LEMMA IntentosDelPost ==
  ASSUME IInv, InvDeIntentos, NEW p \in Despachadores, NEW t \in SUBSET leidas[p], EsTrozo(p, t),
         UNCHANGED lasManos \/ \E j \in Trabajos : Acepta(j, t)
  PROVE  /\ PedidosDistintos'
         /\ \A i \in Trabajos : tEstado[i] # "libre" => pedido'[i] = pedido[i]
         /\ \A i \in Trabajos : pedido'[i] \subseteq Conocidas
<1>0. TypeOK /\ IntentosIdentifican /\ PedidosDistintos
  BY DEF IInv, InvDeIntentos
<1>1. CASE UNCHANGED lasManos
  BY <1>0, <1>1, QuienConoce, PedidosSiguen
<1>2. ASSUME NEW j \in Trabajos, Acepta(j, t)
      PROVE  /\ PedidosDistintos'
             /\ \A i \in Trabajos : tEstado[i] # "libre" => pedido'[i] = pedido[i]
             /\ \A i \in Trabajos : pedido'[i] = pedido[i] \/ pedido'[i] = t
  BY <1>0, <1>2, IntentosAcepta
<1> QED
  BY <1>1, <1>2, QuienConoce

-----------------------------------------------------------------------------
(* The lock.                                                               *)

\* Every step keeps the lock: a task starts when nobody works, and lets go when it
\* ends; the lock is only lost by a drop, which is counted.
LEMMA UnoTrabajaPaso == TypeOK /\ UnoTrabaja /\ [Next]_vars => UnoTrabaja'
<1> SUFFICES ASSUME TypeOK, UnoTrabaja, [Next]_vars PROVE UnoTrabaja'
  OBVIOUS
<1>0. /\ paso \in [Despachadores -> {"libre", "sincronizar", "leer_filas", "aplicar",
                                     "borrar_copia", "despachar", "ligar"}]
      /\ perdidas \in Nat /\ Nadie \notin Despachadores
  BY DatosAssumption DEF TypeOK, TipoTareas, TipoCotas
<1>1. CASE UNCHANGED <<paso, candado, perdidas>>
  BY <1>1 DEF UnoTrabaja
<1>2. ASSUME NEW p \in Despachadores, SoltarCandado(p), UNCHANGED perdidas
      PROVE  UnoTrabaja'
  BY <1>0, <1>2 DEF UnoTrabaja, SoltarCandado
<1>3. ASSUME NEW p \in Despachadores, paso[p] # "libre", UNCHANGED <<candado, perdidas>>,
             \A q \in Despachadores \ {p} : paso'[q] = paso[q]
      PROVE  UnoTrabaja'
  BY <1>3 DEF UnoTrabaja
<1>4. ASSUME NEW p \in Despachadores, Sincronizar(p)
      PROVE  UnoTrabaja'
  <2>1. CASE TomarCandado(p)
    BY <1>0, <2>1 DEF TomarCandado, UnoTrabaja
  <2>2. ASSUME NEW j \in Trabajos, Consultar(p, j) \/ TrabajoPerdido(p, j) \/ ConsultaFallida(p, j)
        PROVE  UnoTrabaja'
    BY <1>0, <1>1, <1>3, <2>2 DEF Consultar, TrabajoPerdido, ConsultaFallida
  <2>3. CASE LeerFilas(p) \/ LeerFilasFalla(p) \/ BorrarCopia(p)
    BY <1>0, <1>3, <2>3 DEF LeerFilas, LeerFilasFalla, BorrarCopia, Siguiente
  <2>4. ASSUME NEW f \in filas[p], AplicarFila(p, f) \/ AplicarFalla(p, f)
        PROVE  UnoTrabaja'
    <3>1. /\ paso[p] = "aplicar" /\ UNCHANGED <<candado, perdidas>>
          /\ \A q \in Despachadores \ {p} : paso'[q] = paso[q]
      BY <1>0, <2>4 DEF AplicarFila, AplicarFalla, Siguiente
    <3> QED
      BY <1>3, <3>1
  <2> QED
    BY <1>4, <2>1, <2>2, <2>3, <2>4 DEF Sincronizar
<1>5. ASSUME NEW p \in Despachadores, Despachar(p)
      PROVE  UnoTrabaja'
  <2>1. CASE TomarEnCola(p)
    BY <1>0, <1>2, <1>3, <2>1 DEF TomarEnCola
  <2>2. ASSUME NEW t \in SUBSET leidas[p], NEW j \in Trabajos, EnviarAceptado(p, t, j)
        PROVE  UnoTrabaja'
    BY <1>0, <1>3, <2>2 DEF EnviarAceptado, EsTrozo
  <2>3. ASSUME NEW t \in SUBSET leidas[p], EnviarIncierto(p, t) \/ EnviarCortado(p, t)
        PROVE  UnoTrabaja'
    BY <1>2, <2>3 DEF EnviarIncierto, EnviarCortado
  <2>4. ASSUME NEW t \in SUBSET leidas[p], EnviarSaltado(p, t) \/ EnviarRechazado(p, t)
        PROVE  UnoTrabaja'
    BY <1>1, <2>4 DEF EnviarSaltado, EnviarRechazado
  <2>5. CASE Ligar(p)
    BY <1>0, <1>3, <2>5 DEF Ligar
  <2>6. CASE TerminarCiclo(p)
    BY <1>2, <2>6 DEF TerminarCiclo
  <2> QED
    BY <1>5, <2>1, <2>2, <2>3, <2>4, <2>5, <2>6 DEF Despachar
<1>6. ASSUME NEW r \in Peticiones, PasoDePeticion(r)
      PROVE  UnoTrabaja'
  BY <1>1, <1>6
     DEF PasoDePeticion, Subir, InsertarAceptado, ResultadoIncierto, InsertarDuplicado, Rechazar,
         ReencolarAtascado, DuplicadoComun, Reprocesar, BorrarDePeticion
<1>7. ASSUME NEW j \in Trabajos, PasoDeLasManos(j)
      PROVE  UnoTrabaja'
  BY <1>1, <1>7 DEF PasoDeLasManos, Procesar, TerminarTrabajo, PerderTrabajo
<1>8. ASSUME NEW d \in Docs, CambiarVisibilidad(d) \/ VencerIncertidumbre(d)
      PROVE  UnoTrabaja'
  BY <1>1, <1>8 DEF CambiarVisibilidad, VencerIncertidumbre
<1>9. ASSUME NEW p \in Despachadores, PerderCandado(p)
      PROVE  UnoTrabaja'
  BY <1>0, <1>9 DEF PerderCandado, UnoTrabaja
<1>10. CASE Caida
  BY <1>10 DEF Caida, UnoTrabaja
<1>11. CASE CambiarProyecto \/ UNCHANGED vars
  BY <1>1, <1>11 DEF CambiarProyecto, vars
<1> QED
  BY <1>4, <1>5, <1>6, <1>7, <1>8, <1>9, <1>10, <1>11 DEF Next

-----------------------------------------------------------------------------
(* The steps that move no attempt.                                         *)

\* A task lets go of everything, does not move, or moves with nothing to bind.
TareaQuieta(p) ==
  \/ paso'[p] = "libre" /\ leidas'[p] = {} /\ trozo'[p] = {}
  \/ UNCHANGED <<paso[p], trozo[p], trabajo[p], leidas[p]>>
  \/ /\ paso[p] # "ligar" /\ paso'[p] \notin {"libre", "ligar"}
     /\ trozo'[p] = trozo[p] /\ leidas'[p] \subseteq leidas[p]

SinTocarIntentos ==
  /\ UNCHANGED <<jobId, ruta, dueno, actualizado, vuelta, pedido>>
  /\ \A d \in Docs : estado[d] = "en_cola" => estado'[d] = "en_cola"
  /\ \A j \in Trabajos : tEstado'[j] = "libre" => tEstado[j] = "libre"
  /\ \A p \in Despachadores : TareaQuieta(p)
  /\ perdidas' = 0 => perdidas = 0

\* A quiet task keeps its chunk.
LEMMA TrozosSiguen ==
  ASSUME IInv, InvDeIntentos, \A j \in Trabajos : tEstado[j] # "libre" => pedido'[j] = pedido[j],
         NEW p \in Despachadores, TareaQuieta(p)
  PROVE  TrozoEnCurso(p)' /\ leidas'[p] \subseteq leidas[p]
<1>1. TrozoEnCurso(p) /\ (trabajo[p] \in Trabajos => trabajo[p] # Nadie)
  BY DatosAssumption DEF InvDeIntentos
<1>2. trabajo[p] \in Trabajos => pedido'[trabajo[p]] = pedido[trabajo[p]]
  BY <1>1 DEF IInv, TrabajoConocido
<1>3. CASE paso'[p] = "libre" /\ leidas'[p] = {} /\ trozo'[p] = {}
  BY <1>3 DEF TrozoEnCurso
<1>4. CASE UNCHANGED <<paso[p], trozo[p], trabajo[p], leidas[p]>>
  BY <1>1, <1>2, <1>4 DEF TrozoEnCurso
<1>5. CASE /\ paso[p] # "ligar" /\ paso'[p] \notin {"libre", "ligar"}
           /\ trozo'[p] = trozo[p] /\ leidas'[p] \subseteq leidas[p]
  BY <1>1, <1>5 DEF TrozoEnCurso
<1> QED
  BY <1>3, <1>4, <1>5 DEF TareaQuieta

\* Such a step keeps what is known of the attempts.
LEMMA MarcoIntentos ==
  ASSUME IInv, InvDeIntentos, SinTocarIntentos, UnoTrabaja'
  PROVE  InvDeIntentos'
<1>1. \A p \in Despachadores : TrozoEnCurso(p)' /\ leidas'[p] \subseteq leidas[p]
  BY TrozosSiguen DEF SinTocarIntentos
<1>2. Conocidas' \subseteq Conocidas
  BY <1>1 DEF SinTocarIntentos, Conocidas
<1>3. FilasConDueno' /\ LigadaASuIntento'
  BY FilasSiguen DEF SinTocarIntentos
<1>4. PedidosDistintos'
  BY PedidosSiguen DEF SinTocarIntentos, InvDeIntentos
<1>5. \A p \in Despachadores : \A f \in leidas'[p] : f.doc \in Docs
  BY <1>1, ConocidasTipadas, QuienConoce DEF IInv, Leida
<1> QED
  BY <1>1, <1>2, <1>3, <1>4, <1>5, IntentosSiguen DEF SinTocarIntentos

\* Which steps those are.
LEMMA PasoSinTocarIntentos ==
  ASSUME TypeOK, [Next]_vars
  PROVE  \/ SinTocarIntentos
         \/ \E r \in Peticiones :
              \/ InsertarAceptado(r) \/ ReencolarAtascado(r)
              \/ \E u \in Usuarios, d \in Docs : Reprocesar(r, u, d)
         \/ \E p \in Despachadores :
              \/ TomarEnCola(p) \/ Ligar(p)
              \/ \E t \in SUBSET leidas[p] :
                   \/ \E j \in Trabajos : EnviarAceptado(p, t, j)
                   \/ EnviarIncierto(p, t) \/ EnviarCortado(p, t) \/ EnviarRechazado(p, t)
<1>0. /\ paso \in [Despachadores -> {"libre", "sincronizar", "leer_filas", "aplicar",
                                     "borrar_copia", "despachar", "ligar"}]
      /\ leidas \in [Despachadores -> SUBSET Leida] /\ trozo \in [Despachadores -> SUBSET Leida]
      /\ trabajo \in [Despachadores -> Trabajos \union {Nadie}] /\ perdidas \in Nat
      /\ estado \in [Docs -> Estados] /\ pedido \in [Trabajos -> SUBSET Leida]
      /\ tEstado \in [Trabajos -> {"libre", "corriendo", "completed", "cancelled", "perdido"}]
  BY DEF TypeOK, TipoTareas, TipoCotas, TipoColumnas, TipoLasManos
<1>1. CASE UNCHANGED <<columnas, lasManos, tareas, perdidas>>
  BY <1>1 DEF SinTocarIntentos, TareaQuieta
<1>2. ASSUME NEW r \in Peticiones, PasoDePeticion(r)
      PROVE  \/ UNCHANGED <<columnas, lasManos, tareas, perdidas>>
             \/ InsertarAceptado(r) \/ ReencolarAtascado(r)
             \/ \E u \in Usuarios, d \in Docs : Reprocesar(r, u, d)
  BY <1>2
     DEF PasoDePeticion, Subir, ResultadoIncierto, InsertarDuplicado, Rechazar, DuplicadoComun,
         BorrarDePeticion
<1>3. ASSUME NEW p \in Despachadores, UNCHANGED <<columnas, lasManos, leidas, trozo, perdidas>>,
             paso[p] # "ligar", paso'[p] \notin {"libre", "ligar"},
             \A q \in Despachadores \ {p} : paso'[q] = paso[q] /\ trabajo'[q] = trabajo[q]
      PROVE  SinTocarIntentos
  BY <1>3 DEF SinTocarIntentos, TareaQuieta
<1>4. ASSUME NEW p \in Despachadores, Sincronizar(p)
      PROVE  SinTocarIntentos
  <2>1. CASE TomarCandado(p)
    BY <1>0, <1>3, <2>1 DEF TomarCandado
  <2>2. ASSUME NEW j \in Trabajos, Consultar(p, j)
        PROVE  SinTocarIntentos
    BY <1>0, <1>3, <2>2 DEF Consultar
  <2>3. ASSUME NEW j \in Trabajos, TrabajoPerdido(p, j)
        PROVE  SinTocarIntentos
    BY <1>0, <2>3 DEF TrabajoPerdido, SinTocarIntentos, TareaQuieta, Abiertos
  <2>4. ASSUME NEW j \in Trabajos, ConsultaFallida(p, j)
        PROVE  SinTocarIntentos
    BY <2>4 DEF ConsultaFallida, SinTocarIntentos, TareaQuieta
  <2>5. CASE LeerFilas(p) \/ LeerFilasFalla(p) \/ BorrarCopia(p)
    BY <1>0, <1>3, <2>5 DEF LeerFilas, LeerFilasFalla, BorrarCopia, Siguiente
  <2>6. ASSUME NEW f \in filas[p], AplicarFalla(p, f)
        PROVE  SinTocarIntentos
    BY <1>0, <1>3, <2>6 DEF AplicarFalla, Siguiente
  <2>7. ASSUME NEW f \in filas[p], AplicarFila(p, f)
        PROVE  SinTocarIntentos
    <3>1. /\ UNCHANGED <<jobId, ruta, dueno, actualizado, vuelta, lasManos, leidas, trozo, perdidas>>
          /\ paso[p] = "aplicar" /\ paso'[p] \notin {"libre", "ligar"}
          /\ \A q \in Despachadores \ {p} : paso'[q] = paso[q] /\ trabajo'[q] = trabajo[q]
      BY <1>0, <2>7 DEF AplicarFila, Siguiente
    <3>2. \A d \in Docs : estado[d] = "en_cola" => estado'[d] = "en_cola"
      <4>1. PICK nuevo : estado' = [estado EXCEPT ![f.doc] =
                                      IF FilaAplicable(f.doc, trabajo[p], f.ruta) THEN nuevo ELSE @]
        BY <2>7 DEF AplicarFila
      <4> QED
        BY <1>0, <4>1 DEF FilaAplicable, Abiertos
    <3> QED
      BY <3>1, <3>2 DEF SinTocarIntentos, TareaQuieta
  <2> QED
    BY <1>4, <2>1, <2>2, <2>3, <2>4, <2>5, <2>6, <2>7 DEF Sincronizar
<1>5. ASSUME NEW p \in Despachadores, NEW t \in SUBSET leidas[p], EnviarSaltado(p, t)
      PROVE  SinTocarIntentos
  <2>1. /\ leidas'[p] \subseteq leidas[p]
        /\ \A q \in Despachadores \ {p} : leidas'[q] = leidas[q]
    <3>1. CASE leidas' = [leidas EXCEPT ![p] = @ \ t]
      BY <1>0, <3>1
    <3>2. ASSUME NEW f \in t, leidas' = [leidas EXCEPT ![p] = {g \in @ : g.dueno # f.dueno}]
          PROVE  /\ leidas'[p] \subseteq leidas[p]
                 /\ \A q \in Despachadores \ {p} : leidas'[q] = leidas[q]
      BY <1>0, <3>2
    <3> QED
      BY <1>5, <3>1, <3>2 DEF EnviarSaltado
  <2> QED
    BY <1>5, <2>1 DEF EnviarSaltado, EsTrozo, SinTocarIntentos, TareaQuieta
<1>6. ASSUME NEW p \in Despachadores, TerminarCiclo(p)
      PROVE  SinTocarIntentos
  BY <1>0, <1>6 DEF TerminarCiclo, SoltarCandado, Limpiar, SinTocarIntentos, TareaQuieta
<1>7. ASSUME NEW j \in Trabajos, PasoDeLasManos(j)
      PROVE  SinTocarIntentos
  <2>1. /\ UNCHANGED <<columnas, tareas, pedido, perdidas>>
        /\ \A i \in Trabajos : tEstado'[i] = "libre" => tEstado[i] = "libre"
    BY <1>0, <1>7 DEF PasoDeLasManos, Procesar, TerminarTrabajo, PerderTrabajo
  <2> QED
    BY <2>1 DEF SinTocarIntentos, TareaQuieta
<1>8. ASSUME NEW d \in Docs, CambiarVisibilidad(d) \/ VencerIncertidumbre(d)
      PROVE  SinTocarIntentos
  BY <1>8 DEF CambiarVisibilidad, VencerIncertidumbre, SinTocarIntentos, TareaQuieta
<1>9. ASSUME NEW p \in Despachadores, PerderCandado(p)
      PROVE  SinTocarIntentos
  BY <1>0, <1>9 DEF PerderCandado, SinTocarIntentos, TareaQuieta
<1>10. CASE Caida
  BY <1>10 DEF Caida, SinTocarIntentos, TareaQuieta
<1>11. CASE CambiarProyecto \/ UNCHANGED vars
  BY <1>1, <1>11 DEF CambiarProyecto, vars
<1> QED
  BY <1>1, <1>2, <1>4, <1>5, <1>6, <1>7, <1>8, <1>9, <1>10, <1>11 DEF Next, Despachar

-----------------------------------------------------------------------------
(* The steps that do.                                                      *)

\* The requests that put a row back in the queue.
LEMMA IntentosReencolados ==
  ASSUME IInv, InvDeIntentos, NEW r \in Peticiones,
         \/ InsertarAceptado(r) \/ ReencolarAtascado(r)
         \/ \E u \in Usuarios, d \in Docs : Reprocesar(r, u, d)
  PROVE  InvDeIntentos'
<1>0. TypeOK /\ (pPaso[r] # "libre" => pDoc[r] \in Docs)
  BY DEF IInv, CopiaDePeticion
<1>1. CASE InsertarAceptado(r)
  BY <1>0, <1>1, IntentosVuelta DEF InsertarAceptado, InsertaFila
<1>2. CASE ReencolarAtascado(r)
  BY <1>0, <1>2, IntentosVuelta DEF ReencolarAtascado, Atascado
<1>3. ASSUME NEW u \in Usuarios, NEW d \in Docs, Reprocesar(r, u, d)
      PROVE  InvDeIntentos'
  BY <1>0, <1>3, IntentosVuelta DEF Reprocesar
<1> QED
  BY <1>1, <1>2, <1>3

\* tomar_en_cola reads every row that waits as it is.
LEMMA IntentosLeidos ==
  ASSUME IInv, InvDeIntentos, NEW p \in Despachadores, TomarEnCola(p), UnoTrabaja'
  PROVE  InvDeIntentos'
<1>0. /\ TypeOK /\ paso[p] = "sincronizar"
      /\ UNCHANGED <<columnas, lasManos, perdidas>>
      /\ IntentosIdentifican /\ VentanaAlDia
  BY DEF IInv, InvDeIntentos, TomarEnCola
<1>1. CASE FrenoDeIncertidumbre
  <2>1. SinTocarIntentos
    BY <1>0, <1>1
       DEF TomarEnCola, SoltarCandado, Limpiar, SinTocarIntentos, TareaQuieta, TypeOK, TipoTareas
  <2> QED
    BY <2>1, MarcoIntentos
<1>2. CASE ~FrenoDeIncertidumbre
  <2>1. /\ leidas'[p] = FilasEnCola /\ paso'[p] = "despachar"
        /\ UNCHANGED <<trozo, trabajo>>
        /\ \A q \in Despachadores \ {p} : leidas'[q] = leidas[q] /\ paso'[q] = paso[q]
    BY <1>0, <1>2 DEF TomarEnCola, TypeOK, TipoTareas
  <2>2. ASSUME NEW f \in FilasEnCola
        PROVE  /\ f.doc \in Docs /\ estado[f.doc] = "en_cola" /\ f.vuelta = vuelta[f.doc]
               /\ f.ruta = ruta[f.doc] /\ f.dueno = dueno[f.doc]
               /\ f = [doc |-> f.doc, ruta |-> f.ruta, dueno |-> f.dueno,
                       actualizado |-> f.actualizado, vuelta |-> f.vuelta]
               /\ DelPasado(f)
    <3>1. PICK d \in Docs :
            /\ estado[d] = "en_cola"
            /\ f = [doc |-> d, ruta |-> ruta[d], dueno |-> dueno[d],
                    actualizado |-> actualizado[d], vuelta |-> vuelta[d]]
      BY DEF FilasEnCola
    <3>2. vuelta[d] \in Nat /\ actualizado[d] = vuelta[d]
      BY <1>0 DEF IntentosIdentifican, TypeOK, TipoColumnas
    <3> QED
      BY <3>1, <3>2 DEF DelPasado
  <2>3. Conocidas' \subseteq Conocidas \union FilasEnCola
    BY <1>0, <2>1 DEF Conocidas
  <2>4. ASSUME NEW f \in FilasEnCola, NEW g \in Conocidas \union FilasEnCola,
               f.doc = g.doc, f.vuelta = g.vuelta
        PROVE  f = g
    <3>1. DelPasado(g)
      BY <1>0, <2>2 DEF IntentosIdentifican
    <3>2. /\ g = [doc |-> g.doc, ruta |-> g.ruta, dueno |-> g.dueno,
                  actualizado |-> g.actualizado, vuelta |-> g.vuelta]
      BY <1>0, <2>2, ConocidasTipadas DEF Leida
    <3> QED
      BY <2>2, <2>4, <3>1, <3>2 DEF DelPasado
  <2>5. IntentosIdentifican'
    <3>1. \A f \in Conocidas' : DelPasado(f)'
      BY <1>0, <2>2, <2>3 DEF IntentosIdentifican, DelPasado
    <3>2. \A f, g \in Conocidas' : f.doc = g.doc /\ f.vuelta = g.vuelta => f = g
      BY <1>0, <2>3, <2>4 DEF IntentosIdentifican
    <3> QED
      BY <1>0, <3>1, <3>2 DEF IntentosIdentifican
  <2>6. PedidosDistintos' /\ FilasConDueno' /\ LigadaASuIntento'
    BY <1>0 DEF InvDeIntentos, PedidosDistintos, FilasConDueno, LigadaASuIntento, DelIntento
  <2>7. \A q \in Despachadores : TrozoEnCurso(q)'
    BY <1>0, <2>1 DEF InvDeIntentos, TrozoEnCurso
  <2>8. VentanaAlDia'
    BY <1>0, <2>1, <2>2 DEF VentanaAlDia
  <2> QED
    BY <2>5, <2>6, <2>7, <2>8 DEF InvDeIntentos
<1> QED
  BY <1>1, <1>2

\* A POST answered, lost or cut.
LEMMA IntentosEnviados ==
  ASSUME IInv, InvDeIntentos, NEW p \in Despachadores, NEW t \in SUBSET leidas[p], UnoTrabaja',
         \/ \E j \in Trabajos : EnviarAceptado(p, t, j)
         \/ EnviarIncierto(p, t) \/ EnviarCortado(p, t)
  PROVE  InvDeIntentos'
<1>0. /\ TypeOK /\ IntentosIdentifican /\ PedidosDistintos
      /\ EsTrozo(p, t) /\ UNCHANGED <<columnas, perdidas>>
      /\ UNCHANGED lasManos \/ \E j \in Trabajos : Acepta(j, t)
  BY DEF IInv, InvDeIntentos, EnviarAceptado, EnviarIncierto, EnviarCortado
<1>1. /\ PedidosDistintos'
      /\ \A i \in Trabajos : tEstado[i] # "libre" => pedido'[i] = pedido[i]
      /\ \A i \in Trabajos : pedido'[i] \subseteq Conocidas
  BY <1>0, IntentosDelPost
<1>2. \A q \in Despachadores : TrozoEnCurso(q)' /\ leidas'[q] \subseteq leidas[q]
  <2>1. ASSUME NEW j \in Trabajos, EnviarAceptado(p, t, j)
        PROVE  \A q \in Despachadores : TrozoEnCurso(q)' /\ leidas'[q] \subseteq leidas[q]
    <3>1. /\ paso'[p] = "ligar" /\ trabajo'[p] = j /\ trozo'[p] = t /\ leidas' = leidas
          /\ \A q \in Despachadores \ {p} : UNCHANGED <<paso[q], trozo[q], trabajo[q], leidas[q]>>
      BY <1>0, <2>1 DEF EnviarAceptado, TypeOK, TipoTareas
    <3>2. pedido'[j] = t
      BY <1>0, <2>1, IntentosAcepta DEF EnviarAceptado
    <3>3. TrozoEnCurso(p)'
      BY <3>1, <3>2 DEF TrozoEnCurso
    <3>4. \A q \in Despachadores \ {p} : TareaQuieta(q)
      BY <3>1 DEF TareaQuieta
    <3> QED
      BY <1>1, <3>1, <3>3, <3>4, TrozosSiguen
  <2>2. CASE EnviarIncierto(p, t) \/ EnviarCortado(p, t)
    <3>1. \A q \in Despachadores : TareaQuieta(q)
      BY <1>0, <2>2
         DEF EnviarIncierto, EnviarCortado, SoltarCandado, Limpiar, TareaQuieta, TypeOK, TipoTareas
    <3> QED
      BY <1>1, <3>1, TrozosSiguen
  <2> QED
    BY <2>1, <2>2
<1>3. Conocidas' \subseteq Conocidas
  BY <1>1, <1>2 DEF Conocidas
<1>4. FilasConDueno' /\ LigadaASuIntento'
  BY <1>0, <1>1, FilasSiguen
<1> QED
  BY <1>0, <1>1, <1>2, <1>3, <1>4, IntentosSiguen

\* A task that works under the lock is the only one with a window.
LEMMA VentanaUnica ==
  ASSUME InvDeIntentos, perdidas = 0, NEW p \in Despachadores, paso[p] # "libre"
  PROVE  \A q \in Despachadores \ {p} : leidas[q] = {}
BY DEF InvDeIntentos, UnoTrabaja, TrozoEnCurso

\* The rows that leave the queue leave the window with the chunk that moved them.
LEMMA SalenDeLaVentana ==
  ASSUME InvDeIntentos, perdidas = 0, NEW p \in Despachadores, paso[p] # "libre",
         NEW t \in SUBSET leidas[p], leidas' = [leidas EXCEPT ![p] = @ \ t],
         leidas \in [Despachadores -> SUBSET Leida],
         \A d \in Docs : (\A f \in t : f.doc # d) => estado'[d] = estado[d]
  PROVE  \A q \in Despachadores : \A f \in leidas'[q] :
           estado[f.doc] = "en_cola" => estado'[f.doc] = "en_cola"
<1>1. ASSUME NEW f \in leidas[p] \ t, NEW g \in t, g.doc = f.doc
      PROVE  FALSE
  <2>1. f.vuelta = g.vuelta
    BY <1>1 DEF InvDeIntentos, VentanaAlDia
  <2> QED
    BY <1>1, <2>1, QuienConoce DEF InvDeIntentos, IntentosIdentifican
<1>2. \A f \in leidas'[p] : estado'[f.doc] = estado[f.doc]
  BY <1>1 DEF Leida
<1>3. \A q \in Despachadores \ {p} : leidas'[q] = {}
  BY VentanaUnica
<1> QED
  BY <1>2, <1>3

\* marcar_error_en_cola.
LEMMA IntentosRechazados ==
  ASSUME IInv, InvDeIntentos, NEW p \in Despachadores, NEW t \in SUBSET leidas[p],
         EnviarRechazado(p, t), UnoTrabaja'
  PROVE  InvDeIntentos'
<1>0. /\ TypeOK /\ leidas \in [Despachadores -> SUBSET Leida] /\ estado \in [Docs -> Estados]
      /\ paso[p] = "despachar" /\ leidas' = [leidas EXCEPT ![p] = @ \ t]
      /\ UNCHANGED <<jobId, ruta, dueno, actualizado, vuelta, lasManos, paso, trozo, trabajo, perdidas>>
  BY DEF IInv, EnviarRechazado, EsTrozo, TypeOK, TipoTareas, TipoColumnas
<1>1. \A d \in Docs : (\A f \in t : f.doc # d) => estado'[d] = estado[d]
  BY DEF EnviarRechazado
<1>2. \A q \in Despachadores : TareaQuieta(q) /\ leidas'[q] \subseteq leidas[q]
  BY <1>0 DEF TareaQuieta
<1>3. \A q \in Despachadores : TrozoEnCurso(q)'
  BY <1>0, <1>2, TrozosSiguen
<1>4. FilasConDueno' /\ LigadaASuIntento'
  BY <1>0, FilasSiguen
<1>5. PedidosDistintos'
  BY <1>0, PedidosSiguen DEF InvDeIntentos
<1>6. Conocidas' \subseteq Conocidas
  BY <1>0, <1>2 DEF Conocidas
<1>7. perdidas = 0 => \A q \in Despachadores : \A f \in leidas'[q] :
                        estado[f.doc] = "en_cola" => estado'[f.doc] = "en_cola"
  BY <1>0, <1>1, SalenDeLaVentana
<1> QED
  BY <1>0, <1>2, <1>3, <1>4, <1>5, <1>6, <1>7, IntentosSiguen

\* marcar_despachadas: a row takes the job of the chunk it was read in.
LEMMA IntentosLigados ==
  ASSUME IInv, InvDeIntentos, NEW p \in Despachadores, Ligar(p), UnoTrabaja'
  PROVE  InvDeIntentos'
<1> DEFINE t == trozo[p]
           j == trabajo[p]
<1>0. /\ TypeOK /\ leidas \in [Despachadores -> SUBSET Leida] /\ estado \in [Docs -> Estados]
      /\ paso[p] = "ligar" /\ leidas' = [leidas EXCEPT ![p] = @ \ t]
      /\ UNCHANGED <<ruta, dueno, actualizado, vuelta, lasManos, perdidas>>
      /\ paso'[p] = "despachar" /\ trozo'[p] = {}
      /\ \A q \in Despachadores \ {p} : UNCHANGED <<paso[q], trozo[q], trabajo[q], leidas[q]>>
  BY DEF IInv, Ligar, TypeOK, TipoTareas, TipoColumnas
<1>1. t \subseteq leidas[p] /\ j \in Trabajos /\ t = pedido[j]
  BY <1>0 DEF InvDeIntentos, TrozoEnCurso
<1>2. \A d \in Docs : /\ estado'[d] = IF d \in Ganadas(t) THEN "pendiente" ELSE estado[d]
                      /\ jobId'[d] = IF d \in Ganadas(t) THEN j ELSE jobId[d]
  BY DEF Ligar
<1>3. \A q \in Despachadores : TrozoEnCurso(q)' /\ leidas'[q] \subseteq leidas[q]
  <2>1. \A q \in Despachadores \ {p} : TareaQuieta(q)
    BY <1>0 DEF TareaQuieta
  <2>2. TrozoEnCurso(p)' /\ leidas'[p] \subseteq leidas[p]
    BY <1>0 DEF TrozoEnCurso
  <2> QED
    BY <1>0, <2>1, <2>2, TrozosSiguen
<1>4. FilasConDueno'
  BY <1>0, <1>1, <1>2 DEF InvDeIntentos, FilasConDueno, Ganadas
<1>5. LigadaASuIntento'
  <2>1. ASSUME perdidas = 0, NEW d \in Ganadas(t)
        PROVE  \E f \in pedido[j] : f.doc = d /\ f.ruta = ruta[d] /\ f.vuelta = vuelta[d]
    <3>1. PICK f \in t : f.doc = d
      BY <2>1 DEF Ganadas
    <3>2. f.vuelta = vuelta[d]
      BY <1>1, <2>1, <3>1 DEF InvDeIntentos, VentanaAlDia
    <3>3. DelPasado(f)
      BY <1>1, <3>1, QuienConoce DEF InvDeIntentos, IntentosIdentifican
    <3> QED
      BY <1>1, <3>1, <3>2, <3>3 DEF DelPasado
  <2> QED
    BY <1>0, <1>2, <2>1 DEF InvDeIntentos, LigadaASuIntento, DelIntento
<1>6. PedidosDistintos'
  BY <1>0, PedidosSiguen DEF InvDeIntentos
<1>7. Conocidas' \subseteq Conocidas
  BY <1>0, <1>3 DEF Conocidas
<1>8. \A d \in Docs : (\A f \in t : f.doc # d) => estado'[d] = estado[d]
  BY <1>2 DEF Ganadas
<1>9. perdidas = 0 => \A q \in Despachadores : \A f \in leidas'[q] :
                        estado[f.doc] = "en_cola" => estado'[f.doc] = "en_cola"
  <2>1. PICK s \in SUBSET leidas[p] : s = t
    BY <1>1
  <2>2. leidas' = [leidas EXCEPT ![p] = @ \ s] /\ paso[p] # "libre"
    BY <1>0, <2>1
  <2>3. \A d \in Docs : (\A f \in s : f.doc # d) => estado'[d] = estado[d]
    BY <1>8, <2>1
  <2> QED
    BY <1>0, <2>2, <2>3, SalenDeLaVentana
<1> QED
  BY <1>0, <1>3, <1>4, <1>5, <1>6, <1>7, <1>9, IntentosSiguen

\* Every step keeps what is known of the attempts.
LEMMA IntentosPaso == IInv /\ InvDeIntentos /\ [Next]_vars => InvDeIntentos'
<1> SUFFICES ASSUME IInv, InvDeIntentos, [Next]_vars PROVE InvDeIntentos'
  OBVIOUS
<1>1. TypeOK /\ UnoTrabaja'
  BY UnoTrabajaPaso DEF IInv, InvDeIntentos
<1> QED
  BY <1>1, PasoSinTocarIntentos, MarcoIntentos, IntentosReencolados, IntentosLeidos,
     IntentosEnviados, IntentosRechazados, IntentosLigados

\* The inductive invariant of the attempts holds in every state.
THEOREM Intento == Spec => []InvDeIntentos
BY IntentosAlInicio, IntentosPaso, Invariante, PTL DEF Spec

\* The same chunk of attempts is never given two jobs, whatever POST is repeated and
\* whoever restarts or loses its lock (clave_de_idempotencia and its updated_at).
THEOREM NingunTrozoRepiteTrabajo == Spec => []UnTrabajoPorTrozo
<1>1. InvDeIntentos => UnTrabajoPorTrozo
  BY IntentosDelTrozo DEF InvDeIntentos, PedidosDistintos, UnTrabajoPorTrozo
<1> QED
  BY <1>1, Intento, PTL

\* The open rows of a job have one owner: trabajos_abiertos quarantines none of the
\* dispatcher's own, locks lost and rows re-queued by others included.
THEOREM CadaTrabajoEsDeUnDueno == Spec => []TrabajoDeUnDueno
<1>1. InvDeIntentos => TrabajoDeUnDueno
  <2> SUFFICES ASSUME InvDeIntentos, NEW c \in Docs, NEW d \in Docs,
                      jobId[c] # Nadie, jobId[c] = jobId[d]
               PROVE  dueno[c] = dueno[d]
    BY DEF TrabajoDeUnDueno
  <2>1. PICK f \in pedido[jobId[c]] : f.doc = c /\ f.dueno = dueno[c]
    BY DEF InvDeIntentos, FilasConDueno
  <2>2. PICK g \in pedido[jobId[c]] : g.doc = d /\ g.dueno = dueno[d]
    BY DEF InvDeIntentos, FilasConDueno
  <2>3. jobId[c] \in Trabajos
    BY DEF InvDeIntentos, FilasConDueno
  <2> QED
    BY <2>1, <2>2, <2>3 DEF InvDeIntentos, PedidosDistintos
<1> QED
  BY <1>1, Intento, PTL

-----------------------------------------------------------------------------
(* Results.  What a dispatcher has looked up of a job is what the job       *)
(* reported, which is never taken back; and a row closes with that, since   *)
(* the UPDATE asks for the very job that was looked up.                     *)

\* What a look-up found is of the job being applied, and true of it.
FotoVeraz(p) ==
  \A d \in Docs : foto[p].res[d] # SinResultado =>
    /\ paso[p] \in {"leer_filas", "aplicar", "borrar_copia"} /\ trabajo[p] \in Trabajos
    /\ resultado[trabajo[p]][d] = foto[p].res[d]

InvDeResultados == DiceLoReportado /\ \A p \in Despachadores : FotoVeraz(p)

\* At the start there is no row and nothing was looked up.
LEMMA ResultadosAlInicio == Init => InvDeResultados
BY DEF Init, InvDeResultados, DiceLoReportado, FotoVeraz, FotoVacia

\* What a job reported is not taken back.
NadaSeRetira ==
  \A j \in Trabajos, d \in Docs : resultado[j][d] # SinResultado => resultado'[j][d] = resultado[j][d]

\* No row ends with a result that it did not have.
NingunaFilaCierra ==
  \A d \in Docs : estado'[d] \in {"listo", "sin_extractor"} =>
    estado'[d] = estado[d] /\ jobId'[d] = jobId[d] /\ carpeta'[d] = carpeta[d]

\* A task forgets its look-up or goes on with it.
FotoQuieta(p) ==
  \A d \in Docs : foto'[p].res[d] # SinResultado =>
    /\ foto'[p] = foto[p] /\ trabajo'[p] = trabajo[p]
    /\ paso'[p] = paso[p] \/ paso'[p] \in {"leer_filas", "aplicar", "borrar_copia"}

\* Rows that do not close keep what they said.
LEMMA FilasVeraces ==
  ASSUME TypeOK, DiceLoReportado, NadaSeRetira, NingunaFilaCierra
  PROVE  DiceLoReportado'
<1> SUFFICES ASSUME NEW d \in Docs, estado'[d] \in {"listo", "sin_extractor"}
             PROVE  /\ jobId'[d] # Nadie
                    /\ resultado'[jobId'[d]][d] = [estado |-> estado'[d], carpeta |-> carpeta'[d]]
  BY DEF DiceLoReportado
<1>1. estado'[d] = estado[d] /\ jobId'[d] = jobId[d] /\ carpeta'[d] = carpeta[d]
  BY DEF NingunaFilaCierra
<1>2. jobId[d] \in Trabajos /\ resultado[jobId[d]][d] = [estado |-> estado[d], carpeta |-> carpeta[d]]
  BY <1>1 DEF DiceLoReportado, TypeOK, TipoColumnas
<1>3. resultado[jobId[d]][d] # SinResultado
  <2>1. resultado[jobId[d]][d].estado = estado[d] /\ estado[d] # "sin_resultado"
    BY <1>1, <1>2
  <2>2. SinResultado.estado = "sin_resultado"
    BY DEF SinResultado
  <2> QED
    BY <2>1, <2>2
<1>4. resultado'[jobId[d]][d] = resultado[jobId[d]][d]
  BY <1>2, <1>3 DEF NadaSeRetira
<1>5. jobId[d] # Nadie
  BY <1>1 DEF DiceLoReportado
<1> QED
  BY <1>1, <1>2, <1>4, <1>5

\* A look-up that is not made again stays true.
LEMMA FotosVeraces ==
  ASSUME NadaSeRetira, NEW p \in Despachadores, FotoVeraz(p), FotoQuieta(p)
  PROVE  FotoVeraz(p)'
BY DEF FotoVeraz, FotoQuieta, NadaSeRetira

\* A step of a request, of a user or of the clock.
LEMMA ResultadosDePeticion ==
  ASSUME IInv, InvDeResultados,
         \/ \E r \in Peticiones : PasoDePeticion(r)
         \/ \E d \in Docs : CambiarVisibilidad(d) \/ VencerIncertidumbre(d)
         \/ CambiarProyecto
         \/ \E p \in Despachadores : PerderCandado(p)
         \/ Caida
         \/ UNCHANGED vars
  PROVE  InvDeResultados'
<1>0. TypeOK
  BY DEF IInv
<1>1. UNCHANGED resultado
  BY DEF PasoDePeticion, Subir, InsertarAceptado, ResultadoIncierto, InsertarDuplicado, Rechazar, ReencolarAtascado,
         DuplicadoComun, Reprocesar, BorrarDePeticion, CambiarVisibilidad, VencerIncertidumbre, CambiarProyecto,
         PerderCandado, Caida, vars
<1>2. \/ UNCHANGED <<estado, jobId, carpeta>>
      \/ \E d \in Docs : \E c, u : VolverALaCola(d, c, u)
  BY DEF PasoDePeticion, Subir, InsertarAceptado, InsertaFila, ResultadoIncierto, InsertarDuplicado, Rechazar, ReencolarAtascado,
         DuplicadoComun, Reprocesar, BorrarDePeticion, CambiarVisibilidad, VencerIncertidumbre, CambiarProyecto,
         PerderCandado, Caida, vars, IInv, CopiaDePeticion, CopiaPorRegistrar
<1>3. NingunaFilaCierra
  BY <1>0, <1>2 DEF NingunaFilaCierra, VolverALaCola, TypeOK, TipoColumnas
<1>4. ASSUME NEW p \in Despachadores PROVE FotoQuieta(p)
  <2>1. UNCHANGED <<foto, trabajo, paso>> \/ foto'[p] = FotoVacia
    BY DEF PasoDePeticion, Subir, InsertarAceptado, ResultadoIncierto, InsertarDuplicado, Rechazar, ReencolarAtascado,
           DuplicadoComun, Reprocesar, BorrarDePeticion, CambiarVisibilidad, VencerIncertidumbre, CambiarProyecto,
           PerderCandado, Caida, vars
  <2> QED
    BY <2>1 DEF FotoQuieta, FotoVacia
<1>5. NadaSeRetira
  BY <1>1 DEF NadaSeRetira
<1> QED
  BY <1>0, <1>3, <1>4, <1>5, FilasVeraces, FotosVeraces DEF InvDeResultados

\* LAS MANOS reports of a file what it had not reported.
LEMMA ResultadosDeLasManos ==
  ASSUME IInv, InvDeResultados, NEW j \in Trabajos, PasoDeLasManos(j)
  PROVE  InvDeResultados'
<1>0. TypeOK
  BY DEF IInv
<1>1. UNCHANGED <<estado, jobId, carpeta, foto, trabajo, paso>>
  BY DEF PasoDeLasManos, Procesar, TerminarTrabajo, PerderTrabajo
<1>2. NadaSeRetira
  BY <1>0 DEF NadaSeRetira, PasoDeLasManos, Procesar, TerminarTrabajo, PerderTrabajo, TypeOK, TipoLasManos
<1>3. NingunaFilaCierra
  BY <1>1 DEF NingunaFilaCierra
<1>4. \A p \in Despachadores : FotoQuieta(p)
  BY <1>1 DEF FotoQuieta
<1> QED
  BY <1>0, <1>2, <1>3, <1>4, FilasVeraces, FotosVeraces DEF InvDeResultados

\* The look-up of a job.
LEMMA ResultadosConsultados ==
  ASSUME IInv, InvDeResultados, NEW p \in Despachadores, NEW j \in Trabajos, Consultar(p, j)
  PROVE  InvDeResultados'
<1>0. TypeOK
  BY DEF IInv
<1>1. /\ UNCHANGED <<estado, jobId, carpeta, resultado>>
      /\ foto'[p].res = resultado[j] /\ trabajo'[p] = j /\ paso'[p] = "leer_filas"
      /\ \A q \in Despachadores \ {p} : foto'[q] = foto[q] /\ trabajo'[q] = trabajo[q] /\ paso'[q] = paso[q]
  BY <1>0 DEF Consultar, TypeOK, TipoTareas
<1>2. FotoVeraz(p)'
  BY <1>1 DEF FotoVeraz
<1>3. \A q \in Despachadores \ {p} : FotoVeraz(q)'
  BY <1>1 DEF InvDeResultados, FotoVeraz
<1>4. DiceLoReportado'
  BY <1>1 DEF InvDeResultados, DiceLoReportado
<1> QED
  BY <1>2, <1>3, <1>4 DEF InvDeResultados

\* What Siguiente does to a look-up.
LEMMA FotoTrasSiguiente ==
  ASSUME TypeOK, NEW p \in Despachadores, NEW quedan, Siguiente(p, quedan)
  PROVE  \A q \in Despachadores : FotoQuieta(q)
<1>1. /\ quedan = {} => foto'[p] = FotoVacia
      /\ quedan # {} => foto'[p] = foto[p] /\ trabajo'[p] = trabajo[p] /\ paso'[p] = "aplicar"
      /\ \A q \in Despachadores \ {p} : foto'[q] = foto[q] /\ trabajo'[q] = trabajo[q] /\ paso'[q] = paso[q]
  BY DEF Siguiente, TypeOK, TipoTareas
<1> QED
  BY <1>1 DEF FotoQuieta, FotoVacia

\* A result is applied to the open row of the job that was looked up.
LEMMA ResultadosAplicados ==
  ASSUME IInv, InvDeResultados, NEW p \in Despachadores, NEW f \in filas[p], AplicarFila(p, f)
  PROVE  InvDeResultados'
<1> DEFINE d == f.doc
           res == ResultadoDe(p, f)
           decision == Decidir(res, foto[p].estado)
           cambia == FilaAplicable(d, trabajo[p], f.ruta)
<1>0. TypeOK /\ d \in Docs
  BY DEF IInv, TypeOK, TipoTareas, Fila
<1>1. /\ UNCHANGED <<jobId, resultado>>
      /\ estado' = [estado EXCEPT ![d] = IF cambia THEN decision.estado ELSE @]
      /\ carpeta' = [carpeta EXCEPT ![d] = IF cambia THEN decision.carpeta ELSE @]
  BY DEF AplicarFila
<1>2. NadaSeRetira
  BY <1>1 DEF NadaSeRetira
<1>3. \A q \in Despachadores : FotoQuieta(q)
  <2>1. CASE Siguiente(p, filas[p] \ {f})
    BY <1>0, <2>1, FotoTrasSiguiente
  <2>2. CASE paso' = [paso EXCEPT ![p] = "borrar_copia"] /\ UNCHANGED <<foto, trabajo>>
    BY <1>0, <2>2 DEF FotoQuieta, TypeOK, TipoTareas
  <2> QED
    BY <2>1, <2>2 DEF AplicarFila
<1>4. ASSUME cambia, decision.estado \in {"listo", "sin_extractor"}
      PROVE  /\ jobId[d] # Nadie
             /\ resultado[jobId[d]][d] = [estado |-> decision.estado, carpeta |-> decision.carpeta]
  <2>0. foto[p] \in Foto /\ jobId[d] = trabajo[p]
    BY <1>0, <1>4 DEF TypeOK, TipoTareas, FilaAplicable
  <2>1. foto[p].estado \in {"corriendo", "completed", "cancelled"} /\ foto[p].res[d] \in Resultados \union {SinResultado}
    BY <1>0, <2>0 DEF Foto
  <2>2. res # SinResultado
    BY <1>4, <2>1 DEF Decidir
  <2>3. res = foto[p].res[d] /\ decision = res
    BY <2>2 DEF ResultadoDe, Decidir
  <2>4. trabajo[p] \in Trabajos /\ resultado[trabajo[p]][d] = res
    BY <1>0, <2>2, <2>3 DEF InvDeResultados, FotoVeraz
  <2>5. res \in Resultados
    BY <2>1, <2>2, <2>3
  <2>6. res = [estado |-> res.estado, carpeta |-> res.carpeta]
    BY <2>5 DEF Resultados
  <2>7. trabajo[p] # Nadie
    BY <2>4, DatosAssumption
  <2> QED
    BY <2>0, <2>3, <2>4, <2>6, <2>7
<1>5. DiceLoReportado'
  <2> SUFFICES ASSUME NEW e \in Docs, estado'[e] \in {"listo", "sin_extractor"}
               PROVE  /\ jobId'[e] # Nadie
                      /\ resultado'[jobId'[e]][e] = [estado |-> estado'[e], carpeta |-> carpeta'[e]]
    BY DEF DiceLoReportado
  <2> HIDE DEF decision, cambia
  <2>1. CASE e = d /\ cambia
    <3>1. estado'[d] = decision.estado /\ carpeta'[d] = decision.carpeta
      BY <1>0, <1>1, <2>1 DEF TypeOK, TipoColumnas
    <3> QED
      BY <1>1, <1>4, <2>1, <3>1
  <2>2. CASE e # d \/ ~cambia
    <3>1. estado'[e] = estado[e] /\ carpeta'[e] = carpeta[e]
      BY <1>0, <1>1, <2>2 DEF TypeOK, TipoColumnas
    <3> QED
      BY <1>1, <3>1 DEF InvDeResultados, DiceLoReportado
  <2> QED
    BY <2>1, <2>2
<1> QED
  BY <1>2, <1>3, <1>5, FotosVeraces DEF InvDeResultados

\* The other steps of a cycle before it sends.
LEMMA ResultadosDelCiclo ==
  ASSUME IInv, InvDeResultados, NEW p \in Despachadores,
         \/ TomarCandado(p) \/ LeerFilas(p) \/ LeerFilasFalla(p) \/ BorrarCopia(p)
         \/ \E j \in Trabajos : TrabajoPerdido(p, j) \/ ConsultaFallida(p, j)
         \/ \E f \in filas[p] : AplicarFalla(p, f)
         \/ TomarEnCola(p) \/ TerminarCiclo(p)
  PROVE  InvDeResultados'
<1>0. TypeOK
  BY DEF IInv
<1>1. NadaSeRetira
  BY DEF NadaSeRetira, TomarCandado, LeerFilas, LeerFilasFalla, BorrarCopia, TrabajoPerdido, ConsultaFallida,
         AplicarFalla, TomarEnCola, TerminarCiclo
<1>2. /\ UNCHANGED <<jobId, carpeta>>
      /\ \A d \in Docs : estado'[d] = estado[d] \/ estado'[d] = "error"
  BY <1>0 DEF TypeOK, TipoColumnas, TomarCandado, LeerFilas, LeerFilasFalla, BorrarCopia, TrabajoPerdido, ConsultaFallida,
         AplicarFalla, TomarEnCola, TerminarCiclo
<1>3. NingunaFilaCierra
  BY <1>2 DEF NingunaFilaCierra
<1>4. \A q \in Despachadores : FotoQuieta(q)
  <2>1. CASE LeerFilas(p) \/ LeerFilasFalla(p) \/ BorrarCopia(p) \/ \E f \in filas[p] : AplicarFalla(p, f)
    <3>1. \E quedan : Siguiente(p, quedan)
      BY <2>1 DEF LeerFilas, LeerFilasFalla, BorrarCopia, AplicarFalla
    <3> QED
      BY <1>0, <3>1, FotoTrasSiguiente
  <2>2. CASE TomarCandado(p) \/ \E j \in Trabajos : TrabajoPerdido(p, j) \/ ConsultaFallida(p, j)
    <3>1. /\ UNCHANGED <<foto, trabajo>>
          /\ \A q \in Despachadores : paso'[q] = paso[q] \/ (q = p /\ paso[p] = "libre")
      BY <1>0, <2>2 DEF TomarCandado, TrabajoPerdido, ConsultaFallida, TypeOK, TipoTareas
    <3> QED
      BY <3>1 DEF FotoQuieta, InvDeResultados, FotoVeraz
  <2>3. CASE TomarEnCola(p) \/ TerminarCiclo(p)
    <3>1. SoltarCandado(p) \/ (UNCHANGED <<foto, trabajo>> /\ paso[p] = "sincronizar" /\ paso' = [paso EXCEPT ![p] = "despachar"])
      BY <2>3 DEF TomarEnCola, TerminarCiclo
    <3> QED
      BY <1>0, <3>1 DEF SoltarCandado, Limpiar, FotoQuieta, FotoVacia, InvDeResultados, FotoVeraz, TypeOK, TipoTareas
  <2> QED
    BY <2>1, <2>2, <2>3
<1> QED
  BY <1>0, <1>1, <1>3, <1>4, FilasVeraces, FotosVeraces DEF InvDeResultados

\* A task that sends has no look-up.
LEMMA ResultadosAlEnviar ==
  ASSUME IInv, InvDeResultados, NEW p \in Despachadores,
         \/ \E t \in SUBSET leidas[p] :
              \/ \E j \in Trabajos : EnviarAceptado(p, t, j)
              \/ EnviarIncierto(p, t) \/ EnviarCortado(p, t) \/ EnviarSaltado(p, t) \/ EnviarRechazado(p, t)
         \/ Ligar(p)
  PROVE  InvDeResultados'
<1>0. TypeOK
  BY DEF IInv
<1>1. NadaSeRetira
  BY DEF NadaSeRetira, EnviarAceptado, EnviarIncierto, EnviarCortado, EnviarSaltado, EnviarRechazado, Acepta, Ligar
<1>2. /\ carpeta' = carpeta
      /\ \A d \in Docs : \/ estado'[d] = estado[d] /\ jobId'[d] = jobId[d]
                         \/ estado'[d] \in {"error", "pendiente"}
  BY <1>0 DEF TypeOK, TipoColumnas, EnviarAceptado, EnviarIncierto, EnviarCortado, EnviarSaltado, EnviarRechazado, Ligar
<1>3. NingunaFilaCierra
  BY <1>2 DEF NingunaFilaCierra
<1>4. paso[p] \in {"despachar", "ligar"}
  BY DEF EnviarAceptado, EnviarIncierto, EnviarCortado, EnviarSaltado, EnviarRechazado, EsTrozo, Ligar
<1>5. \A d \in Docs : foto[p].res[d] = SinResultado
  BY <1>4 DEF InvDeResultados, FotoVeraz
<1>6. /\ foto'[p] = foto[p] \/ foto'[p] = FotoVacia
      /\ \A q \in Despachadores \ {p} : foto'[q] = foto[q] /\ trabajo'[q] = trabajo[q] /\ paso'[q] = paso[q]
  BY <1>0 DEF EnviarAceptado, EnviarIncierto, EnviarCortado, EnviarSaltado, EnviarRechazado, Ligar, SoltarCandado, Limpiar,
              TypeOK, TipoTareas
<1>7. \A q \in Despachadores : FotoQuieta(q)
  BY <1>5, <1>6 DEF FotoQuieta, FotoVacia
<1> QED
  BY <1>0, <1>1, <1>3, <1>7, FilasVeraces, FotosVeraces DEF InvDeResultados

\* Every step keeps the results true.
LEMMA ResultadosPaso == IInv /\ InvDeResultados /\ [Next]_vars => InvDeResultados'
<1> SUFFICES ASSUME IInv, InvDeResultados, [Next]_vars PROVE InvDeResultados'
  OBVIOUS
<1>1. ASSUME NEW p \in Despachadores, Sincronizar(p) PROVE InvDeResultados'
  BY <1>1, ResultadosConsultados, ResultadosAplicados, ResultadosDelCiclo DEF Sincronizar
<1>2. ASSUME NEW p \in Despachadores, Despachar(p) PROVE InvDeResultados'
  BY <1>2, ResultadosDelCiclo, ResultadosAlEnviar DEF Despachar
<1> QED
  BY <1>1, <1>2, ResultadosDePeticion, ResultadosDeLasManos DEF Next

\* What a row says it ended with was reported by its job, locks lost and jobs forgotten
\* included; and as long as no dispatcher has lost its lock, that job was asked for that
\* very attempt (clave_de_idempotencia, marcar_despachadas, aplicar_resultado).
THEOREM CadaResultadoEsDeSuIntento == Spec => []ResultadoDelIntento
<1>1. InvDeIntentos /\ InvDeResultados => ResultadoDelIntento
  BY DEF InvDeIntentos, InvDeResultados, ResultadoDelIntento
<1> QED
  BY <1>1, Intento, Invariante, ResultadosAlInicio, ResultadosPaso, PTL DEF Spec

==============================================================================
