-------------------------------- MODULE CerrojosProofs -------------------------
(***************************************************************************)
(* Proofs about two of the parts that rest on a lock: AjustesCache, for    *)
(* any readers, writers and bounds, and AttachmentStore, for any uploads,  *)
(* sizes, quota and deaths of the process.                                 *)
(***************************************************************************)
EXTENDS AjustesCache, AttachmentStore, FiniteSetTheorems, TLAPS

-----------------------------------------------------------------------------
(* AjustesCache *)

-----------------------------------------------------------------------------
(* Records *)

\* A new call is well typed.
LEMMA TipoLlamadaNueva ==
    ASSUME NEW m \in Versiones, NEW h \in Horas
    PROVE  LlamadaNueva(m, h) \in Llamada
BY AjustesSupuestos DEF LlamadaNueva, Llamada, Horas, Versiones, Nada

\* The record of an answered call.
LEMMA TipoContestada ==
    ASSUME TypeOK, NEW l \in Llamada, NEW v \in Versiones, NEW d \in Horas
    PROVE  /\ Contestada(l, v, d) \in Llamada
           /\ Contestada(l, v, d).version = v
           /\ Contestada(l, v, d).hora = reloj
           /\ Contestada(l, v, d).demora = d
           /\ Contestada(l, v, d).minimo = l.minimo
<1> DEFINE n == LlamadaNueva(l.minimo, l.entrada)
<1>1. n \in Llamada /\ n.minimo = l.minimo
  BY TipoLlamadaNueva DEF Llamada, LlamadaNueva
<1>2. Contestada(l, v, d) = [n EXCEPT !.version = v, !.hora = reloj, !.demora = d]
  BY DEF Contestada
<1> HIDE DEF n
<1> QED
  BY <1>1, <1>2 DEF Llamada, TypeOK

\* A call that answers is out of filas(), and the others are as they were.
LEMMA TipoResponde ==
    ASSUME TypeOK, NEW c \in Llamadas, NEW l \in Llamada,
           NEW v \in Versiones, NEW d \in Horas, Responde(c, l, v, d)
    PROVE  /\ pc' \in [Llamadas -> {"fuera", "espera", "carga", "leida"}]
           /\ llamada' \in [Llamadas -> Llamada]
           /\ pc'[c] = "fuera"
           /\ llamada'[c].version = v
           /\ llamada'[c].hora = reloj
           /\ llamada'[c].demora = d
           /\ llamada'[c].minimo = l.minimo
           /\ \A x \in Llamadas \ {c} : pc'[x] = pc[x] /\ llamada'[x] = llamada[x]
<1>1. pc \in [Llamadas -> {"fuera", "espera", "carga", "leida"}]
  BY DEF TypeOK
<1>2. llamada \in [Llamadas -> Llamada]
  BY DEF TypeOK
<1>3. /\ pc' = [pc EXCEPT ![c] = "fuera"]
      /\ llamada' = [llamada EXCEPT ![c] = Contestada(l, v, d)]
  BY DEF Responde
<1> QED
  BY <1>1, <1>2, <1>3, TipoContestada

-----------------------------------------------------------------------------
(* The initial state and every action *)

\* The invariant holds at the start.
LEMMA InvarianteInicial == Init => IInv
BY AjustesSupuestos
   DEF Init, IInv, TypeOK, CargaBajoCandado, Cargando, LoGuardado, Historia,
       EpisodioEnCurso, FrescoTrasInvalidar, Respondida, UnaRecarga, EdadAcotada,
       Llamada, LlamadaNueva, Horas, Versiones, Nada

\* A call that finds valid rows answers with the rows kept.
LEMMA RespuestaDelCache ==
    ASSUME IInv, NEW c \in Llamadas, NEW l \in Llamada, Vigentes,
           l.minimo <= anunciada, pc[c] \in {"fuera", "espera"},
           Responde(c, l, filas, DemoraDelCache),
           UNCHANGED <<base, reloj, cache, generacion, candado, put, anunciada,
                       superada, recargas>>
    PROVE  IInv'
<1> USE AjustesSupuestos
<1>1. /\ filas \in Versiones /\ filas \in anunciada .. base
      /\ desde <= vence - TTL /\ superada[filas] >= desde
      /\ DemoraDelCache \in Horas /\ reloj < vence
  BY DEF IInv, TypeOK, LoGuardado, Vigentes, DemoraDelCache, Versiones, Horas, Nada
<1>2. /\ TypeOK /\ CargaBajoCandado /\ LoGuardado /\ Historia /\ EpisodioEnCurso
      /\ FrescoTrasInvalidar /\ UnaRecarga /\ EdadAcotada
  BY DEF IInv
<1>3. /\ pc' \in [Llamadas -> {"fuera", "espera", "carga", "leida"}]
      /\ llamada' \in [Llamadas -> Llamada]
      /\ pc'[c] = "fuera"
      /\ llamada'[c].version = filas
      /\ llamada'[c].hora = reloj
      /\ llamada'[c].demora = DemoraDelCache
      /\ llamada'[c].minimo = l.minimo
      /\ \A x \in Llamadas \ {c} : pc'[x] = pc[x] /\ llamada'[x] = llamada[x]
  BY <1>1, <1>2, TipoResponde
<1>4. TypeOK'
  BY <1>2, <1>3 DEF TypeOK, cache
<1>5. CargaBajoCandado'
  BY <1>2, <1>3 DEF CargaBajoCandado, Cargando, cache
<1>6. LoGuardado' /\ UnaRecarga'
  BY <1>2 DEF LoGuardado, UnaRecarga, cache
<1>7. Historia'
  BY <1>2, <1>3 DEF Historia, TypeOK, Horas
<1>8. EpisodioEnCurso'
  <2>1. recargas = 1 => Vigentes'
    BY DEF Vigentes, cache
  <2> QED
    BY <2>1 DEF EpisodioEnCurso, cache
<1>9. FrescoTrasInvalidar'
  <2>1. llamada'[c].version >= llamada'[c].minimo
    BY <1>1, <1>3 DEF Llamada, Versiones, IInv, TypeOK
  <2> QED
    BY <1>2, <1>3, <2>1 DEF FrescoTrasInvalidar, Respondida
<1>10. EdadAcotada'
  <2>1. superada[filas] > reloj - TTL - DemoraDelCache
    BY <1>1, <1>2 DEF DemoraDelCache, TypeOK, Horas, Versiones
  <2> QED
    BY <1>2, <1>3, <2>1 DEF EdadAcotada, Respondida
<1> QED
  BY <1>4, <1>5, <1>6, <1>7, <1>8, <1>9, <1>10 DEF IInv, UnaRecarga

\* filas() up to its first await.
LEMMA PasoEmpezar ==
    ASSUME IInv, NEW c \in Llamadas, Empezar(c)
    PROVE  IInv'
<1> USE AjustesSupuestos
<1> DEFINE l == LlamadaNueva(anunciada, reloj)
<1>1. l \in Llamada /\ l.minimo = anunciada /\ l.version = Nada /\ l.hora = 0
  BY TipoLlamadaNueva DEF IInv, TypeOK, LlamadaNueva
<1>2. CASE Vigentes /\ Responde(c, l, filas, DemoraDelCache)
  <2>1. anunciada <= anunciada
    BY DEF IInv, TypeOK, Versiones
  <2> QED
    BY <1>1, <1>2, <2>1, RespuestaDelCache DEF Empezar
<1>3. CASE /\ ~Vigentes
           /\ pc' = [pc EXCEPT ![c] = "espera"]
           /\ llamada' = [llamada EXCEPT ![c] = l]
  <2> HIDE DEF l
  <2>1. pc[c] = "fuera" /\ pc'[c] = "espera" /\ llamada'[c] = l
    BY <1>3 DEF Empezar, IInv, TypeOK
  <2>2. \A x \in Llamadas \ {c} : pc'[x] = pc[x] /\ llamada'[x] = llamada[x]
    BY <1>3 DEF IInv, TypeOK
  <2>3. UNCHANGED <<base, reloj, filas, vence, desde, generacion, candado, put,
                    anunciada, superada, recargas>>
    BY DEF Empezar, cache
  <2>4. TypeOK'
    BY <1>1, <1>3, <2>3 DEF IInv, TypeOK
  <2>5. CargaBajoCandado'
    BY <2>1, <2>2, <2>3 DEF IInv, CargaBajoCandado, Cargando
  <2>6. LoGuardado' /\ UnaRecarga'
    BY <2>3 DEF IInv, LoGuardado, UnaRecarga
  <2>7. Historia'
    BY <1>1, <2>1, <2>2, <2>3 DEF IInv, Historia, TypeOK, Horas, Versiones
  <2>8. EpisodioEnCurso'
    BY <2>1, <2>2, <2>3 DEF IInv, EpisodioEnCurso, CargaBajoCandado, Cargando, Vigentes
  <2>9. FrescoTrasInvalidar' /\ EdadAcotada'
    BY <2>1, <2>2, <2>3 DEF IInv, FrescoTrasInvalidar, EdadAcotada, Respondida
  <2> QED
    BY <2>4, <2>5, <2>6, <2>7, <2>8, <2>9 DEF IInv, UnaRecarga
<1> QED
  BY <1>2, <1>3 DEF Empezar

\* The lock is granted.
LEMMA PasoTomarCandado ==
    ASSUME IInv, NEW c \in Llamadas, TomarCandado(c)
    PROVE  IInv'
<1> USE AjustesSupuestos
<1>1. CASE Vigentes
  <2>1. llamada[c] \in Llamada /\ llamada[c].minimo <= anunciada
    BY DEF IInv, TypeOK, Historia
  <2> QED
    BY <1>1, <2>1, RespuestaDelCache DEF TomarCandado
<1>2. CASE ~Vigentes
  <2>1. /\ pc[c] = "espera" /\ candado = Nadie /\ candado' = c /\ pc'[c] = "carga"
        /\ recargas' = recargas + 1
        /\ \A x \in Llamadas \ {c} : pc'[x] = pc[x] /\ llamada'[x] = llamada[x]
    BY <1>2 DEF TomarCandado, IInv, TypeOK
  <2>2. UNCHANGED <<base, reloj, filas, vence, desde, generacion, put, anunciada, superada>>
    BY DEF TomarCandado, cache
  <2>3. llamada'[c] = [llamada[c] EXCEPT !.gen = generacion, !.inicio = reloj]
    BY <1>2 DEF TomarCandado, IInv, TypeOK
  <2>4. /\ llamada'[c] \in Llamada
        /\ llamada'[c].gen = generacion /\ llamada'[c].inicio = reloj
        /\ llamada'[c].minimo = llamada[c].minimo
        /\ llamada'[c].hora = llamada[c].hora
    <3>1. llamada[c] \in Llamada /\ generacion \in 0 .. MaxInvalidaciones /\ reloj \in Horas
      BY DEF IInv, TypeOK
    <3> QED
      BY <2>3, <3>1 DEF Llamada
  <2>5. recargas = 0
    BY <1>2, <2>1 DEF IInv, TypeOK, UnaRecarga, EpisodioEnCurso
  <2>6. TypeOK'
    BY <1>2, <2>1, <2>2, <2>4, <2>5 DEF IInv, TypeOK, TomarCandado
  <2>7. CargaBajoCandado'
    BY <2>1, <2>2, <2>4 DEF IInv, CargaBajoCandado, Cargando, TypeOK, Horas
  <2>8. LoGuardado' /\ UnaRecarga'
    BY <2>1, <2>2, <2>5 DEF IInv, LoGuardado, UnaRecarga
  <2>9. Historia'
    BY <2>1, <2>2, <2>4 DEF IInv, Historia
  <2>10. EpisodioEnCurso'
    BY <2>1, <2>2, <2>4 DEF EpisodioEnCurso
  <2>11. FrescoTrasInvalidar' /\ EdadAcotada'
    BY <2>1, <2>2 DEF IInv, FrescoTrasInvalidar, EdadAcotada, Respondida
  <2> QED
    BY <2>6, <2>7, <2>8, <2>9, <2>10, <2>11 DEF IInv, UnaRecarga
<1> QED
  BY <1>1, <1>2

\* The server runs the SELECT: what it reads is no older than anything
\* announced so far.
LEMMA PasoLeerBase ==
    ASSUME IInv, NEW c \in Llamadas, LeerBase(c)
    PROVE  IInv'
<1> USE AjustesSupuestos
<1>1. /\ pc[c] = "carga" /\ pc'[c] = "leida"
      /\ \A x \in Llamadas \ {c} : pc'[x] = pc[x] /\ llamada'[x] = llamada[x]
      /\ llamada'[c] = [llamada[c] EXCEPT !.leida = base]
  BY DEF LeerBase, IInv, TypeOK
<1>2. UNCHANGED <<base, reloj, filas, vence, desde, generacion, candado, put,
                  anunciada, superada, recargas>>
  BY DEF LeerBase, cache
<1>3. /\ llamada'[c] \in Llamada
      /\ llamada'[c].leida = base
      /\ llamada'[c].gen = llamada[c].gen /\ llamada'[c].inicio = llamada[c].inicio
      /\ llamada'[c].minimo = llamada[c].minimo /\ llamada'[c].hora = llamada[c].hora
  <2>1. llamada[c] \in Llamada /\ base \in Versiones
    BY DEF IInv, TypeOK
  <2> QED
    BY <1>1, <2>1 DEF Llamada
<1>4. TypeOK'
  BY <1>1, <1>2, <1>3 DEF IInv, TypeOK, LeerBase
<1>5. CargaBajoCandado'
  <2>1. /\ base \in 0 .. base /\ base >= llamada[c].minimo /\ base >= anunciada
        /\ superada[base] >= llamada[c].inicio
    <3>1. /\ llamada[c].minimo \in Versiones /\ llamada[c].inicio \in Horas
          /\ llamada[c].minimo <= anunciada
      BY DEF IInv, TypeOK, Llamada, Historia
    <3> QED
      BY <3>1 DEF IInv, TypeOK, Historia, Versiones, Horas
  <2> QED
    BY <1>1, <1>2, <1>3, <2>1 DEF IInv, CargaBajoCandado, Cargando
<1>6. LoGuardado' /\ UnaRecarga'
  BY <1>2 DEF IInv, LoGuardado, UnaRecarga
<1>7. Historia'
  BY <1>1, <1>2, <1>3 DEF IInv, Historia
<1>8. EpisodioEnCurso'
  BY <1>1, <1>2, <1>3 DEF IInv, EpisodioEnCurso, Vigentes
<1>9. FrescoTrasInvalidar' /\ EdadAcotada'
  BY <1>1, <1>2 DEF IInv, FrescoTrasInvalidar, EdadAcotada, Respondida
<1> QED
  BY <1>4, <1>5, <1>6, <1>7, <1>8, <1>9 DEF IInv, UnaRecarga

\* The load is back in the loop.
LEMMA PasoVolver ==
    ASSUME IInv, NEW c \in Llamadas, Volver(c)
    PROVE  IInv'
<1> USE AjustesSupuestos
<1> DEFINE d == reloj - llamada[c].inicio
<1>1. /\ pc[c] = "leida" /\ candado = c /\ candado' = Nadie
      /\ \A x \in Llamadas \ {c} : ~Cargando(x)
      /\ llamada[c] \in Llamada
      /\ llamada[c].leida \in 0 .. base /\ llamada[c].leida \in Versiones
      /\ llamada[c].leida >= llamada[c].minimo
      /\ GuardaLoLeido(c) => llamada[c].leida >= anunciada
      /\ superada[llamada[c].leida] >= llamada[c].inicio
      /\ llamada[c].inicio \in Horas /\ llamada[c].inicio <= reloj /\ d \in Horas
  <2>1. pc[c] = "leida" /\ candado' = Nadie
    BY DEF Volver
  <2>2. candado = c /\ \A x \in Llamadas \ {c} : ~Cargando(x)
    BY <2>1 DEF IInv, CargaBajoCandado, Cargando
  <2>3. /\ llamada[c].leida \in 0 .. base
        /\ llamada[c].leida >= llamada[c].minimo
        /\ GuardaLoLeido(c) => llamada[c].leida >= anunciada
        /\ superada[llamada[c].leida] >= llamada[c].inicio
        /\ llamada[c].inicio <= reloj
    BY <2>1 DEF IInv, CargaBajoCandado, Cargando, GuardaLoLeido
  <2>4. llamada[c] \in Llamada /\ base \in Versiones /\ reloj \in Horas
    BY DEF IInv, TypeOK
  <2>5. llamada[c].inicio \in Horas
    BY <2>4 DEF Llamada
  <2> QED
    BY <2>1, <2>2, <2>3, <2>4, <2>5 DEF Versiones, Horas
<1>2. UNCHANGED <<base, reloj, generacion, put, anunciada, superada, recargas>>
  BY DEF Volver
<1>3. /\ pc' \in [Llamadas -> {"fuera", "espera", "carga", "leida"}]
      /\ llamada' \in [Llamadas -> Llamada]
      /\ pc'[c] = "fuera"
      /\ llamada'[c].version = llamada[c].leida
      /\ llamada'[c].hora = reloj
      /\ llamada'[c].demora = d
      /\ llamada'[c].minimo = llamada[c].minimo
      /\ \A x \in Llamadas \ {c} : pc'[x] = pc[x] /\ llamada'[x] = llamada[x]
  <2>1. Responde(c, llamada[c], llamada[c].leida, d) /\ TypeOK
    BY DEF Volver, IInv
  <2> HIDE DEF d
  <2> QED
    BY <1>1, <2>1, TipoResponde
<1>4. ASSUME GuardaLoLeido(c) PROVE TypeOK' /\ LoGuardado' /\ EpisodioEnCurso'
  <2>1. filas' = llamada[c].leida /\ vence' = reloj + TTL /\ desde' = llamada[c].inicio
    BY <1>4 DEF Volver, VenceNuevo
  <2>2. TypeOK'
    BY <1>1, <1>2, <1>3, <2>1 DEF IInv, TypeOK, Horas
  <2>3. LoGuardado'
    BY <1>1, <1>2, <1>4, <2>1 DEF LoGuardado, IInv, TypeOK, Horas, Versiones
  <2>4. EpisodioEnCurso'
    BY <1>1, <1>2, <2>1 DEF EpisodioEnCurso, Vigentes, IInv, TypeOK, Horas, Versiones, Nada
  <2> QED
    BY <2>2, <2>3, <2>4
<1>5. ASSUME ~GuardaLoLeido(c) PROVE TypeOK' /\ LoGuardado' /\ EpisodioEnCurso'
  <2>1. filas' = filas /\ vence' = vence /\ desde' = desde
    BY <1>5 DEF Volver, cache
  <2>2. TypeOK'
    BY <1>1, <1>2, <1>3, <2>1 DEF IInv, TypeOK
  <2>3. LoGuardado'
    BY <1>2, <2>1 DEF LoGuardado, IInv
  <2>4. EpisodioEnCurso'
    BY <1>1, <1>2, <1>5, <2>1 DEF EpisodioEnCurso, Vigentes, IInv, GuardaLoLeido
  <2> QED
    BY <2>2, <2>3, <2>4
<1>6. CargaBajoCandado'
  BY <1>1, <1>2, <1>3 DEF IInv, CargaBajoCandado, Cargando
<1>7. UnaRecarga'
  BY <1>2 DEF IInv, UnaRecarga
<1>8. Historia'
  BY <1>1, <1>2, <1>3 DEF IInv, Historia, TypeOK, Horas
<1>9. FrescoTrasInvalidar'
  BY <1>1, <1>3 DEF IInv, FrescoTrasInvalidar, Respondida
<1>10. EdadAcotada'
  <2>1. superada[llamada[c].leida] > reloj - TTL - d
    BY <1>1 DEF IInv, TypeOK, Horas, Versiones
  <2> HIDE DEF d
  <2> QED
    BY <1>2, <1>3, <2>1 DEF IInv, EdadAcotada, Respondida
<1> QED
  BY <1>4, <1>5, <1>6, <1>7, <1>8, <1>9, <1>10 DEF IInv, UnaRecarga

\* A load that fails keeps nothing.
LEMMA PasoCargaFalla ==
    ASSUME IInv, NEW c \in Llamadas, CargaFalla(c)
    PROVE  IInv'
<1> USE AjustesSupuestos
<1>1. /\ candado = c /\ candado' = Nadie
      /\ \A x \in Llamadas \ {c} : ~Cargando(x)
  BY DEF CargaFalla, IInv, CargaBajoCandado, Cargando
<1>2. /\ pc' = [pc EXCEPT ![c] = "fuera"]
      /\ llamada' = [llamada EXCEPT ![c] = LlamadaNueva(0, 0)]
      /\ recargas' = 0
      /\ UNCHANGED <<base, reloj, filas, vence, desde, generacion, put, anunciada, superada>>
  BY DEF CargaFalla, cache
<1>3. /\ LlamadaNueva(0, 0) \in Llamada /\ LlamadaNueva(0, 0).version = Nada
      /\ LlamadaNueva(0, 0).minimo = 0 /\ LlamadaNueva(0, 0).hora = 0
  BY TipoLlamadaNueva DEF Versiones, Horas, LlamadaNueva
<1>4. TypeOK'
  BY <1>1, <1>2, <1>3 DEF IInv, TypeOK
<1>5. /\ pc'[c] = "fuera" /\ llamada'[c] = LlamadaNueva(0, 0)
      /\ \A x \in Llamadas \ {c} : pc'[x] = pc[x] /\ llamada'[x] = llamada[x]
  BY <1>2 DEF IInv, TypeOK
<1>6. CargaBajoCandado'
  BY <1>1, <1>2, <1>5 DEF IInv, CargaBajoCandado, Cargando
<1>7. LoGuardado' /\ UnaRecarga' /\ EpisodioEnCurso'
  BY <1>2 DEF IInv, LoGuardado, UnaRecarga, EpisodioEnCurso
<1>8. Historia'
  BY <1>2, <1>3, <1>5 DEF IInv, Historia, TypeOK, Versiones, Horas
<1>9. FrescoTrasInvalidar' /\ EdadAcotada'
  BY <1>2, <1>3, <1>5 DEF IInv, FrescoTrasInvalidar, EdadAcotada, Respondida
<1> QED
  BY <1>4, <1>6, <1>7, <1>8, <1>9 DEF IInv, UnaRecarga

\* A commit: the version it supersedes was the committed one until now.
LEMMA PasoConfirmar ==
    ASSUME IInv, Confirmar,
           UNCHANGED <<reloj, cache, generacion, candado, pc, llamada, anunciada, recargas>>,
           put' \in [Guardados -> {"fuera", "cerrada"}]
    PROVE  IInv'
<1> USE AjustesSupuestos
<1>1. /\ base' = base + 1 /\ base' \in Versiones
      /\ superada' \in [Versiones -> 0 .. MaxReloj + 1]
      /\ superada'[base] = reloj
      /\ \A v \in Versiones \ {base} : superada'[v] = superada[v]
  BY DEF Confirmar, IInv, TypeOK, Versiones, Horas
<1>2. UNCHANGED <<reloj, filas, vence, desde, generacion, candado, pc, llamada,
                  anunciada, recargas>>
  BY DEF cache
<1>3. TypeOK'
  BY <1>1, <1>2 DEF IInv, TypeOK
<1>4. CargaBajoCandado'
  <2>1. \A x \in Llamadas : pc[x] = "leida" =>
          /\ llamada[x].leida \in 0 .. base'
          /\ superada'[llamada[x].leida] >= llamada[x].inicio
    <3> SUFFICES ASSUME NEW x \in Llamadas, pc[x] = "leida"
                 PROVE  /\ llamada[x].leida \in 0 .. base'
                        /\ superada'[llamada[x].leida] >= llamada[x].inicio
      OBVIOUS
    <3>1. /\ llamada[x].leida \in 0 .. base /\ llamada[x].inicio <= reloj
          /\ superada[llamada[x].leida] >= llamada[x].inicio
      BY DEF IInv, CargaBajoCandado, Cargando
    <3>2. base \in Versiones
      BY DEF IInv, TypeOK
    <3> QED
      BY <1>1, <3>1, <3>2 DEF Versiones
  <2> QED
    BY <1>2, <2>1 DEF IInv, CargaBajoCandado, Cargando
<1>5. LoGuardado'
  <2> SUFFICES ASSUME filas # Nada
               PROVE  /\ filas \in anunciada .. base' /\ desde <= vence - TTL
                      /\ superada'[filas] >= desde
    BY <1>2 DEF LoGuardado
  <2>1. /\ filas \in anunciada .. base /\ desde <= vence - TTL
        /\ superada[filas] >= desde
    BY DEF IInv, LoGuardado
  <2>2. /\ base \in Versiones /\ anunciada \in Versiones /\ filas \in Versiones
        /\ vence \in 0 .. reloj + TTL /\ desde \in Horas /\ reloj \in Horas
    BY <2>1 DEF IInv, TypeOK
  <2> QED
    BY <1>1, <2>1, <2>2 DEF Versiones, Horas
<1>6. Historia'
  BY <1>1, <1>2 DEF IInv, TypeOK, Historia, Versiones
<1>7. EpisodioEnCurso' /\ UnaRecarga' /\ FrescoTrasInvalidar'
  BY <1>2 DEF IInv, EpisodioEnCurso, Vigentes, UnaRecarga, FrescoTrasInvalidar, Respondida
<1>8. EdadAcotada'
  <2> SUFFICES ASSUME NEW x \in Llamadas, Respondida(x)
               PROVE  superada'[llamada[x].version] >
                        llamada[x].hora - TTL - llamada[x].demora
    BY <1>2 DEF EdadAcotada, Respondida
  <2>1. /\ llamada[x].version \in Versiones /\ llamada[x].hora \in Horas
        /\ llamada[x].demora \in Horas /\ llamada[x].hora <= reloj
        /\ superada[llamada[x].version] > llamada[x].hora - TTL - llamada[x].demora
    BY DEF IInv, TypeOK, Llamada, Historia, EdadAcotada, Respondida
  <2>2. reloj \in Horas
    BY DEF IInv, TypeOK
  <2>3. CASE llamada[x].version = base
    BY <1>1, <2>1, <2>2, <2>3 DEF Horas
  <2>4. CASE llamada[x].version # base
    BY <1>1, <2>1, <2>4
  <2> QED
    BY <2>3, <2>4
<1> QED
  BY <1>3, <1>4, <1>5, <1>6, <1>7, <1>8 DEF IInv, UnaRecarga

\* The transaction of a PUT closes.
LEMMA PasoCerrar ==
    ASSUME IInv, NEW p \in Guardados, CerrarTransaccion(p)
    PROVE  IInv'
<1>1. put' \in [Guardados -> {"fuera", "cerrada"}]
  BY DEF CerrarTransaccion, IInv, TypeOK
<1>2. CASE Confirmar
  BY <1>1, <1>2, PasoConfirmar DEF CerrarTransaccion
<1>3. CASE UNCHANGED <<base, superada>>
  BY <1>1, <1>3 DEF CerrarTransaccion, cache, IInv, TypeOK, CargaBajoCandado, Cargando,
     LoGuardado, Historia, EpisodioEnCurso, Vigentes, FrescoTrasInvalidar, Respondida,
     UnaRecarga, EdadAcotada
<1> QED
  BY <1>2, <1>3 DEF CerrarTransaccion

\* invalidar(): the loads in flight become of a past generation.
LEMMA PasoInvalidar ==
    ASSUME IInv, NEW p \in Guardados, Invalidar(p)
    PROVE  IInv'
<1> USE AjustesSupuestos
<1>1. /\ filas' = Nada /\ generacion' = generacion + 1 /\ anunciada' = base /\ recargas' = 0
      /\ UNCHANGED <<base, reloj, vence, desde, candado, pc, llamada, superada>>
      /\ generacion < MaxInvalidaciones
  BY DEF Invalidar
<1>2. TypeOK'
  BY <1>1 DEF Invalidar, IInv, TypeOK
<1>3. CargaBajoCandado'
  <2>1. \A x \in Llamadas : Cargando(x) =>
          /\ llamada[x].gen <= generacion' /\ llamada[x].gen # generacion'
    BY <1>1 DEF IInv, TypeOK, CargaBajoCandado, Llamada
  <2> QED
    BY <1>1, <2>1 DEF IInv, CargaBajoCandado, Cargando
<1>4. LoGuardado' /\ UnaRecarga' /\ EpisodioEnCurso'
  BY <1>1 DEF LoGuardado, UnaRecarga, EpisodioEnCurso
<1>5. Historia'
  BY <1>1 DEF IInv, TypeOK, Historia, Llamada, Versiones
<1>6. FrescoTrasInvalidar' /\ EdadAcotada'
  BY <1>1 DEF IInv, FrescoTrasInvalidar, EdadAcotada, Respondida
<1> QED
  BY <1>2, <1>3, <1>4, <1>5, <1>6 DEF IInv, UnaRecarga

\* A tick: the episode ends when the rows expire.
LEMMA PasoTick ==
    ASSUME IInv, Tick
    PROVE  IInv'
<1> USE AjustesSupuestos
<1>1. /\ reloj' = reloj + 1 /\ reloj' \in Horas
      /\ recargas' = IF filas # Nada /\ reloj + 1 = vence THEN 0 ELSE recargas
      /\ UNCHANGED <<base, filas, vence, desde, generacion, candado, pc, llamada, put,
                     anunciada, superada>>
  BY DEF Tick, cache, IInv, TypeOK, Horas
<1>2. TypeOK'
  BY <1>1 DEF IInv, TypeOK, Horas
<1>3. CargaBajoCandado'
  BY <1>1 DEF IInv, TypeOK, CargaBajoCandado, Cargando, Llamada, Horas
<1>4. LoGuardado' /\ UnaRecarga'
  BY <1>1 DEF IInv, LoGuardado, UnaRecarga
<1>5. Historia'
  BY <1>1 DEF IInv, TypeOK, Historia, Llamada, Horas
<1>6. EpisodioEnCurso'
  BY <1>1 DEF IInv, TypeOK, EpisodioEnCurso, Vigentes, Horas
<1>7. FrescoTrasInvalidar' /\ EdadAcotada'
  BY <1>1 DEF IInv, FrescoTrasInvalidar, EdadAcotada, Respondida
<1> QED
  BY <1>2, <1>3, <1>4, <1>5, <1>6, <1>7 DEF IInv, UnaRecarga

-----------------------------------------------------------------------------
(* The theorems *)

\* IInv is preserved by every step.
LEMMA InvariantePaso == IInv /\ [Next]_vars => IInv'
<1> SUFFICES ASSUME IInv, [Next]_vars PROVE IInv'
  OBVIOUS
<1>1. CASE UNCHANGED vars
  BY <1>1 DEF vars, cache, IInv, TypeOK, CargaBajoCandado, Cargando, LoGuardado, Historia,
     EpisodioEnCurso, Vigentes, FrescoTrasInvalidar, Respondida, UnaRecarga, EdadAcotada
<1>2. ASSUME NEW c \in Llamadas, PasoDeLlamada(c) PROVE IInv'
  BY <1>2, PasoEmpezar, PasoTomarCandado, PasoLeerBase, PasoVolver, PasoCargaFalla
     DEF PasoDeLlamada
<1>3. ASSUME NEW p \in Guardados, CerrarTransaccion(p) \/ Invalidar(p) PROVE IInv'
  BY <1>3, PasoCerrar, PasoInvalidar
<1>4. CASE EditarPorFuera
  <2>1. put' \in [Guardados -> {"fuera", "cerrada"}]
    BY <1>4 DEF EditarPorFuera, IInv, TypeOK
  <2> QED
    BY <1>4, <2>1, PasoConfirmar DEF EditarPorFuera
<1>5. CASE Tick
  BY <1>5, PasoTick
<1> QED
  BY <1>1, <1>2, <1>3, <1>4, <1>5 DEF Next

\* The inductive invariant of the cache.
THEOREM InvarianteDelCache == Spec => []IInv
BY InvarianteInicial, InvariantePaso, PTL DEF Spec

\* A call that begins after invalidar() never answers with older rows.
THEOREM NadieLeeLoInvalidado == Spec => []FrescoTrasInvalidar
<1>1. IInv => FrescoTrasInvalidar
  BY DEF IInv
<1> QED
  BY <1>1, InvarianteDelCache, PTL

\* The rows are loaded once per episode, however many calls ask for them.
THEOREM SeRecargaUnaVez == Spec => []UnaRecarga
<1>1. IInv => UnaRecarga
  BY DEF IInv
<1> QED
  BY <1>1, InvarianteDelCache, PTL

\* The age of an answer is bounded by the TTL and the duration of its load.
THEOREM LaEdadSeAcota == Spec => []EdadAcotada
<1>1. IInv => EdadAcotada
  BY DEF IInv
<1> QED
  BY <1>1, InvarianteDelCache, PTL

-----------------------------------------------------------------------------
(* AttachmentStore: types *)

LEMMA ASTiposAlInicio == ASInit => ASTypeOK
<1> SUFFICES ASSUME ASInit PROVE ASTypeOK
  OBVIOUS
<1> USE AdjuntosSupuestos DEF AdjuntosSupuestos
<1>1. SinBarrer \in Barrido
  BY DEF SinBarrer, Barrido
<1>2. sidecar \in [Subidas -> BOOLEAN]
  BY Zenon DEF ASInit
<1>3. \A s \in Subidas : donde[s] = "escribe" <=> cerrojo = s
  BY DEF ASInit
<1> QED  BY <1>1, <1>2, <1>3 DEF ASInit, ASTypeOK, Edades

LEMMA TiposDeSubida ==
    ASSUME ASTypeOK, NEW s \in Subidas, DeSubida(s)
    PROVE  ASTypeOK'
<1> USE AdjuntosSupuestos DEF AdjuntosSupuestos, ASTypeOK, ficheros, resto, Anda, Edades, Escribiendo
<1>1. CASE Reservar(s)
  BY <1>1 DEF Reservar
<1>2. CASE Copiada(s) \/ Clasificada(s) \/ Dejar(s)
  BY <1>2 DEF Copiada, Clasificada, Dejar
<1>3. CASE Comprometer(s)
  BY <1>3 DEF Comprometer
<1>4. CASE Acabar(s)
  BY <1>4 DEF Acabar
<1>5. CASE Plazo(s)
  BY <1>5 DEF Plazo
<1>6. CASE BorrarTemporal(s)
  BY <1>6 DEF BorrarTemporal
<1> QED  BY <1>1, <1>2, <1>3, <1>4, <1>5, <1>6 DEF DeSubida

LEMMA TiposDeHilo ==
    ASSUME ASTypeOK, NEW s \in Subidas, DeHilo(s)
    PROVE  ASTypeOK'
<1> USE AdjuntosSupuestos DEF AdjuntosSupuestos, ASTypeOK, handler, ficheros, resto, Hila, Edades, Escribiendo
<1>1. CASE Copiar(s)
  BY <1>1 DEF Copiar
<1>2. CASE GuardarDato(s)
  BY <1>2 DEF GuardarDato, EdadDelDato
<1>3. CASE GuardarSidecar(s)
  <2>1. sidecar' \in [Subidas -> BOOLEAN]
    BY <1>3, Zenon DEF GuardarSidecar
  <2> QED  BY <1>3, <2>1 DEF GuardarSidecar
<1>4. CASE Asentar(s)
  BY <1>4 DEF Asentar
<1>5. CASE Deshacer(s)
  <2>1. sidecar' \in [Subidas -> BOOLEAN]
    BY <1>5, Zenon DEF Deshacer
  <2> QED  BY <1>5, <2>1 DEF Deshacer
<1> QED  BY <1>1, <1>2, <1>3, <1>4, <1>5 DEF DeHilo

\* The sweep after one entry.
LEMMA BarridoTipado ==
    ASSUME ASTypeOK, NEW q \in SUBSET Entradas, NEW b \in Entradas \union {Ninguna}, Barriendo(q, b)
    PROVE  barre' \in Barrido /\ barre'.borra = b
BY DEF ASTypeOK, Barriendo, Barrido, SinBarrer

\* What is about to be unlinked is an entry of the folder.
LEMMA LoQueBorra ==
    ASSUME ASTypeOK, barre.borra # Ninguna
    PROVE  /\ barre.borra \in Entradas /\ barre.borra[2] \in Subidas
           /\ barre.borra = <<barre.borra[1], barre.borra[2]>>
           /\ barre.borra[1] \in {"temporal", "dato", "sidecar"}
BY DEF ASTypeOK, Barrido, Entradas

LEMMA TiposDeBarrido ==
    ASSUME ASTypeOK, Barre
    PROVE  ASTypeOK'
<1> USE AdjuntosSupuestos DEF AdjuntosSupuestos, ASTypeOK, handler, ficheros, resto, Edades
<1>0. Ninguna \in Entradas \union {Ninguna} /\ \A s \in Subidas : <<"dato", s>> \in Entradas
  BY DEF Entradas
<1>1. CASE ListarCarpeta
  <2>1. barre' \in Barrido
    BY <1>1 DEF ListarCarpeta, Barrido
  <2> QED  BY <1>1, <2>1 DEF ListarCarpeta
<1>2. CASE Mirar
  <2>1. PICK e \in barre.quedan : Barriendo(barre.quedan \ {e}, IF Sobra(e) THEN e ELSE Ninguna)
    BY <1>2 DEF Mirar
  <2>2. barre.quedan \ {e} \in SUBSET Entradas /\ e \in Entradas
    BY DEF Barrido
  <2>3. barre' \in Barrido
    BY <1>0, <2>1, <2>2, BarridoTipado
  <2> QED  BY <1>2, <2>3 DEF Mirar
<1>3. CASE Desenlazar
  <2> DEFINE que == barre.borra[1]
             s == barre.borra[2]
  <2>1. /\ s \in Subidas /\ barre.quedan \in SUBSET Entradas
        /\ temporal' = IF que = "temporal" THEN [temporal EXCEPT ![s] = "no"] ELSE temporal
        /\ dato' = IF que = "dato" THEN [dato EXCEPT ![s] = "no"] ELSE dato
        /\ sidecar' = IF que = "sidecar" THEN [sidecar EXCEPT ![s] = FALSE] ELSE sidecar
        /\ Barriendo(barre.quedan, IF que = "sidecar" THEN <<"dato", s>> ELSE Ninguna)
        /\ UNCHANGED <<handler, hilo, resto>>
    BY <1>3, LoQueBorra DEF Desenlazar, Barrido
  <2>2. barre' \in Barrido
    BY <1>0, <2>1, BarridoTipado
  <2>3. sidecar' \in [Subidas -> BOOLEAN]
    BY <2>1, Zenon
  <2>4. temporal' \in [Subidas -> Edades] /\ dato' \in [Subidas -> Edades]
    BY <2>1
  <2> QED  BY <2>1, <2>2, <2>3, <2>4
<1> QED  BY <1>1, <1>2, <1>3 DEF Barre

LEMMA ASTipos == ASTypeOK /\ [ASNext]_ASvars => ASTypeOK'
<1> SUFFICES ASSUME ASTypeOK, [ASNext]_ASvars PROVE ASTypeOK'
  OBVIOUS
<1>1. CASE PasaTiempo
  BY <1>1 DEF PasaTiempo, Envejece, Vence, ASTypeOK, handler, ficheros, resto, Edades
<1>2. CASE Muere
  <2>1. SinBarrer \in Barrido
    BY DEF SinBarrer, Barrido
  <2> QED  BY <1>2, <2>1, AdjuntosSupuestos DEF Muere, ASTypeOK, ficheros, AdjuntosSupuestos
<1>3. CASE UNCHANGED ASvars
  BY <1>3 DEF ASvars, ASTypeOK, handler, ficheros, resto
<1> QED  BY <1>1, <1>2, <1>3, TiposDeSubida, TiposDeHilo, TiposDeBarrido DEF ASNext

\* For any uploads, quota and deaths: the variables of the store have their types, and
\* at most one upload of the user is in its commit.
THEOREM TiposDelAlmacen == ASSpec => []ASTypeOK
BY ASTiposAlInicio, ASTipos, PTL DEF ASSpec

-----------------------------------------------------------------------------
(* AttachmentStore: what was delivered is found                              *)

AntesDeEscribir == {"fuera", "copia", "cola", "commit"}
SinHilo == {"no", "copia"}

\* Before its commit an upload has nothing on the disk; during it, unless it went past
\* its deadline, its handler waits and its files are new.
DiscoEnOrden(s) ==
    /\ donde[s] \in AntesDeEscribir =>
          /\ dato[s] = "no" /\ ~sidecar[s] /\ hilo[s] \in SinHilo
          /\ s \notin vencidas /\ s \notin entregada /\ s \notin tarde
    /\ donde[s] = "escribe" => s \notin tarde /\ s \notin vencidas /\ s \notin entregada /\ dato[s] # "viejo"
    /\ s \notin tarde /\ hilo[s] \notin SinHilo => donde[s] = "escribe"
    /\ s \notin tarde /\ hilo[s] = "dato" => dato[s] = "no" /\ ~sidecar[s]
    /\ s \notin tarde /\ hilo[s] = "sidecar" => dato[s] # "no" /\ ~sidecar[s]
    /\ s \notin tarde /\ hilo[s] \in {"sincroniza", "hecho"} => dato[s] # "no" /\ sidecar[s]
    /\ s \notin tarde /\ hilo[s] = "suelta" => ~sidecar[s]
    /\ s \notin tarde /\ sidecar[s] => dato[s] # "no"
    /\ s \in entregada => s \notin tarde /\ hilo[s] = "no" /\ (sidecar[s] \/ s \in vencidas)

\* The cleaner is about to unlink data without a sidecar, which can get none, or a
\* sidecar that expired.
BarreEnOrden(s) ==
    /\ barre.borra = <<"dato", s>> /\ s \notin tarde => donde[s] \notin AntesDeEscribir \union {"escribe"} /\ ~sidecar[s]
    /\ barre.borra = <<"sidecar", s>> => s \in vencidas

AlmacenEnOrden == \A s \in Subidas : DiscoEnOrden(s) /\ BarreEnOrden(s)

LEMMA AlmacenAlInicio == ASInit => AlmacenEnOrden
<1>1. \A s \in Subidas : Ninguna # <<"dato", s>> /\ Ninguna # <<"sidecar", s>>
  BY AdjuntosSupuestos DEF AdjuntosSupuestos, Entradas
<1> QED  BY <1>1 DEF ASInit, AlmacenEnOrden, DiscoEnOrden, BarreEnOrden, SinBarrer, SinHilo, AntesDeEscribir

\* An upload that a step does not touch.
LEMMA OtraSubida ==
    ASSUME NEW q \in Subidas, DiscoEnOrden(q), BarreEnOrden(q),
           UNCHANGED <<donde[q], hilo[q], dato[q], sidecar[q], vencidas, barre>>,
           q \in tarde' <=> q \in tarde, q \in entregada' <=> q \in entregada
    PROVE  DiscoEnOrden(q)' /\ BarreEnOrden(q)'
BY DEF DiscoEnOrden, BarreEnOrden

LEMMA AlmacenTrasSubida ==
    ASSUME ASTypeOK, AlmacenEnOrden, NEW s \in Subidas, DeSubida(s)
    PROVE  AlmacenEnOrden'
<1> USE DEF ficheros, resto
<1>0. DiscoEnOrden(s) /\ BarreEnOrden(s) /\ (\A q \in Subidas : DiscoEnOrden(q) /\ BarreEnOrden(q))
  BY DEF AlmacenEnOrden
<1>1. /\ UNCHANGED <<dato, sidecar, vencidas, barre>>
      /\ \A q \in Subidas : q # s => donde'[q] = donde[q] /\ hilo'[q] = hilo[q]
      /\ \A q \in Subidas : q # s => (q \in tarde' <=> q \in tarde) /\ (q \in entregada' <=> q \in entregada)
  BY DEF DeSubida, Reservar, Copiada, Clasificada, Dejar, Comprometer, Acabar, Plazo, BorrarTemporal, Anda, ASTypeOK
<1>2. \A q \in Subidas : q # s => DiscoEnOrden(q)' /\ BarreEnOrden(q)'
  BY <1>0, <1>1, OtraSubida
<1>3. DiscoEnOrden(s)' /\ BarreEnOrden(s)'
  <2> USE DEF DiscoEnOrden, BarreEnOrden, AntesDeEscribir, SinHilo
  <2>1. CASE Reservar(s) \/ Copiada(s) \/ Clasificada(s) \/ Dejar(s)
    <3>1. /\ donde[s] \in AntesDeEscribir /\ donde'[s] \in {"copia", "cola", "commit", "limpieza"}
          /\ hilo'[s] \in SinHilo /\ UNCHANGED <<tarde, entregada>>
      BY <1>0, <2>1 DEF Reservar, Copiada, Clasificada, Dejar, Anda, ASTypeOK
    <3> QED  BY <1>0, <1>1, <3>1
  <2>2. CASE Comprometer(s)
    <3>1. donde[s] = "commit" /\ donde'[s] = "escribe" /\ hilo'[s] = "dato" /\ UNCHANGED <<tarde, entregada>>
      BY <2>2 DEF Comprometer, Anda, ASTypeOK
    <3> QED  BY <1>0, <1>1, <3>1
  <2>3. CASE Acabar(s)
    <3>1. /\ donde[s] = "escribe" /\ donde'[s] = "limpieza" /\ hilo'[s] = "no" /\ tarde' = tarde
          /\ entregada' = entregada \/ (hilo[s] = "hecho" /\ entregada' = entregada \union {s})
      BY <2>3 DEF Acabar, Anda, ASTypeOK
    <3> QED  BY <1>0, <1>1, <3>1
  <2>4. CASE Plazo(s)
    <3>1. donde[s] = "escribe" /\ donde'[s] = "limpieza" /\ s \in tarde' /\ entregada' = entregada
      BY <2>4 DEF Plazo, Anda, ASTypeOK
    <3> QED  BY <1>0, <1>1, <3>1
  <2>5. CASE BorrarTemporal(s)
    <3>1. donde[s] = "limpieza" /\ donde'[s] = "fin" /\ UNCHANGED <<hilo, tarde, entregada>>
      BY <2>5 DEF BorrarTemporal, Anda, ASTypeOK
    <3> QED  BY <1>0, <1>1, <3>1
  <2> QED  BY <2>1, <2>2, <2>3, <2>4, <2>5 DEF DeSubida
<1> QED  BY <1>2, <1>3 DEF AlmacenEnOrden

LEMMA AlmacenTrasHilo ==
    ASSUME ASTypeOK, AlmacenEnOrden, NEW s \in Subidas, DeHilo(s)
    PROVE  AlmacenEnOrden'
<1>0. DiscoEnOrden(s) /\ BarreEnOrden(s) /\ (\A q \in Subidas : DiscoEnOrden(q) /\ BarreEnOrden(q))
  BY DEF AlmacenEnOrden
<1>1. /\ UNCHANGED <<donde, tarde, entregada, vencidas, barre>>
      /\ \A q \in Subidas : q # s => hilo'[q] = hilo[q] /\ dato'[q] = dato[q] /\ sidecar'[q] = sidecar[q]
  BY DEF DeHilo, Copiar, GuardarDato, GuardarSidecar, Asentar, Deshacer, Hila, ASTypeOK, handler, ficheros, resto
<1>2. \A q \in Subidas : q # s => DiscoEnOrden(q)' /\ BarreEnOrden(q)'
  BY <1>0, <1>1, OtraSubida
<1>3. DiscoEnOrden(s)' /\ BarreEnOrden(s)'
  <2> USE DEF DiscoEnOrden, BarreEnOrden, AntesDeEscribir, SinHilo
  <2>1. CASE Copiar(s)
    BY <1>0, <1>1, <2>1 DEF Copiar, Hila, ASTypeOK
  <2>2. CASE GuardarDato(s)
    <3>1. /\ hilo[s] = "dato" /\ sidecar' = sidecar
          /\ (hilo'[s] = "sidecar" /\ dato'[s] = "nuevo") \/ (hilo'[s] = "falla" /\ dato' = dato)
      BY <2>2 DEF GuardarDato, EdadDelDato, Hila, ASTypeOK
    <3> QED  BY <1>0, <1>1, <3>1
  <2>3. CASE GuardarSidecar(s)
    <3>1. /\ hilo[s] = "sidecar" /\ dato' = dato
          /\ (hilo'[s] = "sincroniza" /\ sidecar'[s]) \/ (hilo'[s] = "deshace" /\ sidecar' = sidecar)
      BY <2>3 DEF GuardarSidecar, Hila, ASTypeOK
    <3> QED  BY <1>0, <1>1, <3>1
  <2>4. CASE Asentar(s)
    <3>1. hilo[s] = "sincroniza" /\ hilo'[s] \in {"hecho", "deshace"} /\ UNCHANGED <<dato, sidecar>>
      BY <2>4 DEF Asentar, Hila, ASTypeOK, ficheros
    <3> QED  BY <1>0, <1>1, <3>1
  <2>5. CASE Deshacer(s)
    <3>1. \/ hilo[s] = "deshace" /\ hilo'[s] = "suelta" /\ ~sidecar'[s] /\ dato' = dato
          \/ hilo[s] = "suelta" /\ hilo'[s] = "falla" /\ sidecar' = sidecar /\ dato'[s] = "no"
      BY <2>5 DEF Deshacer, Hila, ASTypeOK
    <3> QED  BY <1>0, <1>1, <3>1
  <2> QED  BY <2>1, <2>2, <2>3, <2>4, <2>5 DEF DeHilo
<1> QED  BY <1>2, <1>3 DEF AlmacenEnOrden

LEMMA AlmacenTrasBarrido ==
    ASSUME ASTypeOK, AlmacenEnOrden, Barre
    PROVE  AlmacenEnOrden'
<1> USE AdjuntosSupuestos DEF AdjuntosSupuestos
<1>0. UNCHANGED <<donde, hilo, tarde, entregada, vencidas>> /\ \A q \in Subidas : DiscoEnOrden(q) /\ BarreEnOrden(q)
  BY DEF Barre, ListarCarpeta, Mirar, Desenlazar, handler, resto, AlmacenEnOrden
<1>1. ASSUME UNCHANGED ficheros PROVE \A q \in Subidas : DiscoEnOrden(q)'
  BY <1>0, <1>1 DEF DiscoEnOrden, ficheros
<1>2. \A q \in Subidas : <<"dato", q>> \in Entradas /\ <<"sidecar", q>> \in Entradas
  BY DEF Entradas
<1>3. \A q \in Subidas : Ninguna # <<"dato", q>> /\ Ninguna # <<"sidecar", q>>
  BY <1>2
<1>4. CASE ListarCarpeta
  <2>1. barre'.borra = Ninguna /\ UNCHANGED ficheros
    BY <1>4 DEF ListarCarpeta
  <2> QED  BY <1>1, <1>3, <2>1 DEF AlmacenEnOrden, BarreEnOrden
<1>5. CASE Mirar
  <2>1. PICK e \in barre.quedan : Barriendo(barre.quedan \ {e}, IF Sobra(e) THEN e ELSE Ninguna)
    BY <1>5 DEF Mirar
  <2>2. barre.quedan \ {e} \in SUBSET Entradas /\ e \in Entradas
    BY DEF ASTypeOK, Barrido
  <2>3. barre'.borra = IF Sobra(e) THEN e ELSE Ninguna
    <3>1. CASE Sobra(e)
      BY <2>1, <2>2, <3>1, BarridoTipado
    <3>2. CASE ~Sobra(e)
      BY <2>1, <2>2, <3>2, BarridoTipado
    <3> QED  BY <3>1, <3>2
  <2>4. ASSUME NEW q \in Subidas PROVE BarreEnOrden(q)'
    <3>1. ASSUME barre'.borra = <<"dato", q>>, q \notin tarde
          PROVE  donde[q] \notin AntesDeEscribir \union {"escribe"} /\ ~sidecar[q]
      <4>1. Sobra(<<"dato", q>>)
        BY <1>3, <2>3, <3>1
      <4>2. dato[q] = "viejo" /\ ~sidecar[q]
        BY <4>1 DEF Sobra
      <4> QED  BY <1>0, <4>2 DEF DiscoEnOrden
    <3>2. ASSUME barre'.borra = <<"sidecar", q>> PROVE q \in vencidas
      <4>1. Sobra(<<"sidecar", q>>)
        BY <1>3, <2>3, <3>2
      <4> QED  BY <4>1 DEF Sobra
    <3>3. UNCHANGED sidecar
      BY <1>5 DEF Mirar, ficheros
    <3> QED  BY <1>0, <3>1, <3>2, <3>3 DEF BarreEnOrden
  <2> QED  BY <1>1, <1>5, <2>4 DEF Mirar, AlmacenEnOrden
<1>6. CASE Desenlazar
  <2>0. PICK que \in {"temporal", "dato", "sidecar"}, s \in Subidas : barre.borra = <<que, s>>
    BY <1>6, LoQueBorra DEF Desenlazar
  <2>1. /\ barre.borra = <<que, s>> /\ barre.quedan \in SUBSET Entradas
        /\ dato' = IF que = "dato" THEN [dato EXCEPT ![s] = "no"] ELSE dato
        /\ sidecar' = IF que = "sidecar" THEN [sidecar EXCEPT ![s] = FALSE] ELSE sidecar
        /\ Barriendo(barre.quedan, IF que = "sidecar" THEN <<"dato", s>> ELSE Ninguna)
    BY <1>6, <2>0 DEF Desenlazar, Barrido, ASTypeOK
  <2>2. barre'.borra = IF que = "sidecar" THEN <<"dato", s>> ELSE Ninguna
    <3>1. CASE que = "sidecar"
      BY <1>2, <2>1, <3>1, BarridoTipado
    <3>2. CASE que # "sidecar"
      BY <2>1, <3>2, BarridoTipado
    <3> QED  BY <3>1, <3>2
  <2>3. /\ \A q \in Subidas : q # s => dato'[q] = dato[q] /\ sidecar'[q] = sidecar[q]
        /\ que = "dato" => dato'[s] = "no" /\ sidecar' = sidecar
        /\ que = "sidecar" => dato' = dato /\ ~sidecar'[s]
        /\ que \notin {"dato", "sidecar"} => dato' = dato /\ sidecar' = sidecar
    BY <2>1 DEF ASTypeOK
  <2>4. que = "dato" /\ s \notin tarde => donde[s] \notin AntesDeEscribir \union {"escribe"} /\ ~sidecar[s]
    BY <1>0, <2>1 DEF BarreEnOrden
  <2>5. que = "sidecar" => s \in vencidas
    BY <1>0, <2>1 DEF BarreEnOrden
  <2>6. DiscoEnOrden(s)'
    <3>1. CASE que = "dato"
      BY <1>0, <2>3, <2>4, <3>1 DEF DiscoEnOrden, AntesDeEscribir, SinHilo
    <3>2. CASE que = "sidecar"
      BY <1>0, <2>1, <2>3, <2>5, <3>2 DEF DiscoEnOrden, AntesDeEscribir, SinHilo
    <3>3. CASE que \notin {"dato", "sidecar"}
      BY <1>0, <2>3, <3>3 DEF DiscoEnOrden
    <3> QED  BY <3>1, <3>2, <3>3
  <2>7. \A q \in Subidas : q # s => DiscoEnOrden(q)'
    BY <1>0, <2>3 DEF DiscoEnOrden
  <2>8. ASSUME NEW q \in Subidas PROVE BarreEnOrden(q)'
    <3>1. CASE que = "sidecar" /\ q = s
      <4>1. donde[s] \notin AntesDeEscribir \union {"escribe"} /\ ~sidecar'[s]
        BY <1>0, <2>1, <2>3, <2>5, <3>1 DEF DiscoEnOrden
      <4> QED  BY <1>0, <2>5, <3>1, <4>1 DEF BarreEnOrden
    <3>2. CASE que # "sidecar" \/ q # s
      <4>1. barre'.borra # <<"dato", q>> /\ barre'.borra # <<"sidecar", q>>
        BY <1>3, <2>2, <3>2
      <4> QED  BY <4>1 DEF BarreEnOrden
    <3> QED  BY <3>1, <3>2
  <2> QED  BY <2>6, <2>7, <2>8 DEF AlmacenEnOrden
<1> QED  BY <1>4, <1>5, <1>6 DEF Barre

LEMMA AlmacenSigue == ASTypeOK /\ AlmacenEnOrden /\ [ASNext]_ASvars => AlmacenEnOrden'
<1> SUFFICES ASSUME ASTypeOK, AlmacenEnOrden, [ASNext]_ASvars PROVE AlmacenEnOrden'
  OBVIOUS
<1>0. \A q \in Subidas : DiscoEnOrden(q) /\ BarreEnOrden(q)
  BY DEF AlmacenEnOrden
<1>1. ASSUME NEW s \in Subidas, Envejece(s) PROVE AlmacenEnOrden'
  <2>1. /\ UNCHANGED <<donde, hilo, sidecar, tarde, entregada, vencidas, barre>>
        /\ dato' = dato \/ (dato[s] = "nuevo" /\ donde[s] # "escribe" /\ dato'[s] = "viejo")
        /\ \A q \in Subidas : q # s => dato'[q] = dato[q]
    BY <1>1 DEF Envejece, handler, resto, ASTypeOK
  <2> QED  BY <1>0, <2>1 DEF AlmacenEnOrden, DiscoEnOrden, BarreEnOrden
<1>2. ASSUME NEW s \in Subidas, Vence(s) PROVE AlmacenEnOrden'
  <2>1. /\ UNCHANGED <<donde, hilo, dato, sidecar, tarde, entregada, barre>>
        /\ vencidas' = vencidas \union {s} /\ donde[s] # "escribe" /\ (sidecar[s] \/ hilo[s] = "sidecar")
    BY <1>2 DEF Vence, handler, ficheros
  <2> QED  BY <1>0, <2>1 DEF AlmacenEnOrden, DiscoEnOrden, BarreEnOrden, AntesDeEscribir, SinHilo
<1>3. CASE Muere
  <2>1. /\ UNCHANGED <<dato, sidecar, tarde, entregada, vencidas>> /\ barre'.borra = Ninguna
        /\ \A q \in Subidas : hilo'[q] = "no" /\ donde'[q] = IF donde[q] = "fuera" THEN "fuera" ELSE "fin"
    BY <1>3 DEF Muere, ficheros, SinBarrer
  <2>2. \A q \in Subidas : DiscoEnOrden(q)'
    BY <1>0, <2>1 DEF DiscoEnOrden, AntesDeEscribir, SinHilo
  <2>3. \A q \in Subidas : Ninguna # <<"dato", q>> /\ Ninguna # <<"sidecar", q>>
    BY AdjuntosSupuestos DEF AdjuntosSupuestos, Entradas
  <2> QED  BY <2>1, <2>2, <2>3 DEF AlmacenEnOrden, BarreEnOrden
<1>4. CASE UNCHANGED ASvars
  BY <1>4 DEF ASvars, handler, ficheros, resto, AlmacenEnOrden, DiscoEnOrden, BarreEnOrden
<1> QED  BY <1>1, <1>2, <1>3, <1>4, AlmacenTrasSubida, AlmacenTrasHilo, AlmacenTrasBarrido DEF ASNext, PasaTiempo

\* For any uploads, quota and deaths: an attachment whose id was given is found until
\* it expires, with its data, whatever the cleaner does meanwhile.
THEOREM ElAdjuntoSeEncuentra == ASSpec => []LoEntregadoSeLee
<1>1. AlmacenEnOrden => LoEntregadoSeLee
  BY DEF AlmacenEnOrden, DiscoEnOrden, LoEntregadoSeLee
<1> QED  BY <1>1, ASTiposAlInicio, AlmacenAlInicio, ASTipos, AlmacenSigue, PTL DEF ASSpec

-----------------------------------------------------------------------------
(* AttachmentStore: the quota                                                *)

\* Finitely many uploads have finitely many bytes.
LEMMA BytesFinitos ==
    ASSUME NEW de \in [Subidas -> Nat], NEW S \in SUBSET Subidas
    PROVE  IsFiniteSet(Bytes(de, S))
<1> DEFINE f == [s \in S |-> {s} \X (1 .. de[s])]
           T == {{s} \X (1 .. de[s]) : s \in S}
<1>1. IsFiniteSet(S)
  BY AdjuntosSupuestos, FS_Subset DEF AdjuntosSupuestos
<1>2. f \in Surjection(S, T)
  BY DEF Surjection
<1>3. IsFiniteSet(T)
  <2> HIDE DEF f, T
  <2> QED  BY <1>1, <1>2, FS_Surjection
<1>4. ASSUME NEW s \in S PROVE IsFiniteSet({s} \X (1 .. de[s]))
  <2>0. 1 \in Int /\ de[s] \in Int
    OBVIOUS
  <2>1. IsFiniteSet({s}) /\ IsFiniteSet(1 .. de[s])
    BY <2>0, FS_Singleton, FS_Interval
  <2> QED  BY <2>1, FS_Product
<1>5. \A t \in T : IsFiniteSet(t)
  BY <1>4
<1>6. IsFiniteSet(UNION T)
  <2> HIDE DEF T
  <2> QED  BY <1>3, <1>5, FS_UNION
<1> QED  BY <1>6 DEF Bytes

\* A sum is a number.
LEMMA SumaEsNatural ==
    ASSUME NEW de \in [Subidas -> Nat], NEW S \in SUBSET Subidas
    PROVE  Suma(de, S) \in Nat
BY BytesFinitos, FS_CardinalityType DEF Suma

\* Fewer uploads have no more bytes.
LEMMA SumaCrece ==
    ASSUME NEW de \in [Subidas -> Nat], NEW S \in SUBSET Subidas, NEW R \in SUBSET S
    PROVE  Suma(de, R) <= Suma(de, S)
<1>1. Bytes(de, R) \subseteq Bytes(de, S)
  BY DEF Bytes
<1> QED  BY <1>1, BytesFinitos, FS_Subset DEF Suma

\* Two sets of uploads have at most the bytes of one and those of the other.
LEMMA SumaDeUnion ==
    ASSUME NEW de \in [Subidas -> Nat], NEW R \in SUBSET Subidas, NEW S \in SUBSET Subidas
    PROVE  Suma(de, R \union S) <= Suma(de, R) + Suma(de, S)
<1> DEFINE a == Cardinality(Bytes(de, R))
           b == Cardinality(Bytes(de, S))
           c == Cardinality(Bytes(de, R) \intersect Bytes(de, S))
<1>1. Bytes(de, R \union S) = Bytes(de, R) \union Bytes(de, S)
  BY DEF Bytes
<1>2. IsFiniteSet(Bytes(de, R)) /\ IsFiniteSet(Bytes(de, S))
  BY BytesFinitos
<1>3. a \in Nat /\ b \in Nat /\ c \in Nat
  BY <1>2, FS_Intersection, FS_CardinalityType
<1>4. Suma(de, R \union S) = a + b - c
  BY <1>1, <1>2, FS_Union DEF Suma
<1>5. Suma(de, R) = a /\ Suma(de, S) = b
  BY DEF Suma
<1> HIDE DEF a, b, c
<1> QED  BY <1>3, <1>4, <1>5

\* One upload has its size.
LEMMA SumaDeUna ==
    ASSUME NEW de \in [Subidas -> Nat], NEW s \in Subidas
    PROVE  Suma(de, {s}) = de[s]
<1>1. Bytes(de, {s}) = {s} \X (1 .. de[s])
  BY DEF Bytes
<1>2. de[s] \in Nat
  OBVIOUS
<1>3. IsFiniteSet({s}) /\ Cardinality({s}) = 1
  BY FS_Singleton
<1>4. IsFiniteSet(1 .. de[s]) /\ Cardinality(1 .. de[s]) = de[s]
  BY <1>2, FS_Interval
<1>5. Cardinality({s} \X (1 .. de[s])) = Cardinality({s}) * Cardinality(1 .. de[s])
  BY <1>3, <1>4, FS_Product
<1>6. Suma(de, {s}) = 1 * de[s]
  BY <1>1, <1>3, <1>4, <1>5 DEF Suma
<1> QED  BY <1>2, <1>6

\* Where an upload holds a reservation, and of how much.
ConReserva == {"copia", "cola", "commit", "escribe"}

ReservaEnCurso == \A s \in Subidas : reserva[s] = IF donde[s] \in ConReserva THEN Tamano[s] ELSE 0

InvDeCuota == ASTypeOK /\ AlmacenEnOrden /\ ReservaEnCurso /\ CuotaRespetada

\* What is reserved is the size of the uploads that hold a reservation.
LEMMA LosQueReservan ==
    ASSUME ASTypeOK, ReservaEnCurso
    PROVE  Suma(Tamano, {q \in Subidas : reserva[q] > 0}) = Reservado
<1> USE AdjuntosSupuestos DEF AdjuntosSupuestos
<1>1. \A q \in Subidas : reserva[q] \in Nat /\ (reserva[q] > 0 => reserva[q] = Tamano[q])
  BY DEF ASTypeOK, ReservaEnCurso
<1>2. \A q \in Subidas : reserva[q] = 0 => 1 .. reserva[q] = {}
  OBVIOUS
<1>3. Bytes(Tamano, {q \in Subidas : reserva[q] > 0}) = Bytes(reserva, Subidas)
  BY <1>1, <1>2 DEF Bytes
<1> QED  BY <1>3 DEF Suma, Reservado

\* At the start nothing counts.
LEMMA CuotaAlInicio == ASInit => ReservaEnCurso /\ CuotaRespetada
<1> SUFFICES ASSUME ASInit PROVE ReservaEnCurso /\ CuotaRespetada
  OBVIOUS
<1> USE AdjuntosSupuestos DEF AdjuntosSupuestos
<1>1. ReservaEnCurso
  BY DEF ASInit, ReservaEnCurso, ConReserva
<1>2. Contados = {}
  BY DEF ASInit, Contados, Visibles
<1>3. Suma(Tamano, {}) = 0
  BY FS_EmptySet DEF Suma, Bytes
<1> QED  BY <1>1, <1>2, <1>3 DEF CuotaRespetada

\* A step after which no other upload counts.
LEMMA CuentanMenos ==
    ASSUME CuotaRespetada, Contados' \subseteq Contados
    PROVE  CuotaRespetada'
<1>1. Tamano \in [Subidas -> Nat] /\ Cuota \in Nat
  BY AdjuntosSupuestos DEF AdjuntosSupuestos
<1>2. Contados \in SUBSET Subidas
  BY DEF Contados
<1>3. Suma(Tamano, Contados') <= Suma(Tamano, Contados)
  BY <1>1, <1>2, SumaCrece
<1>4. Suma(Tamano, Contados') \in Nat /\ Suma(Tamano, Contados) \in Nat
  BY <1>1, <1>2, SumaEsNatural
<1>5. Suma(Tamano, Contados)' = Suma(Tamano, Contados')
  BY DEF Suma, Bytes
<1> QED  BY <1>1, <1>3, <1>4, <1>5 DEF CuotaRespetada

\* The first look: what is on the disk, what the others reserved and what comes now fit.
LEMMA CuotaTrasReservar ==
    ASSUME InvDeCuota, NEW s \in Subidas, Reservar(s)
    PROVE  CuotaRespetada'
<1> USE AdjuntosSupuestos DEF AdjuntosSupuestos
<1>0. ASTypeOK /\ ReservaEnCurso /\ CuotaRespetada /\ Tamano \in [Subidas -> Nat]
  BY DEF InvDeCuota
<1>1. /\ donde[s] = "fuera" /\ reserva[s] = 0 /\ UNCHANGED <<tarde, sidecar, vencidas>>
      /\ \A q \in Subidas : q # s => reserva'[q] = reserva[q]
  BY <1>0 DEF Reservar, Anda, ASTypeOK, ReservaEnCurso, ConReserva, ficheros, resto
<1>2. CASE CabeEnCuota(s)
  <2> DEFINE R == {q \in Subidas : reserva[q] > 0}
  <2>1. Contados' \subseteq (Visibles \union R) \union {s}
    BY <1>1 DEF Contados, Visibles
  <2>2. Visibles \in SUBSET Subidas /\ R \in SUBSET Subidas
    BY DEF Visibles
  <2> HIDE DEF R
  <2>3. Suma(Tamano, Contados') <= Suma(Tamano, (Visibles \union R) \union {s})
    BY <1>0, <2>1, <2>2, SumaCrece
  <2>4. Suma(Tamano, (Visibles \union R) \union {s}) <= Suma(Tamano, Visibles \union R) + Suma(Tamano, {s})
    BY <1>0, <2>2, SumaDeUnion
  <2>5. Suma(Tamano, Visibles \union R) <= Suma(Tamano, Visibles) + Suma(Tamano, R)
    BY <1>0, <2>2, SumaDeUnion
  <2>6. Suma(Tamano, {s}) = Tamano[s]
    BY <1>0, SumaDeUna
  <2>7. Suma(Tamano, R) = Reservado
    BY <1>0, LosQueReservan DEF R
  <2>8. /\ Suma(Tamano, Contados') \in Nat /\ Suma(Tamano, (Visibles \union R) \union {s}) \in Nat
        /\ Suma(Tamano, Visibles \union R) \in Nat /\ Suma(Tamano, Visibles) \in Nat /\ Suma(Tamano, R) \in Nat
    BY <1>0, <2>1, <2>2, SumaEsNatural
  <2>9. Suma(Tamano, Visibles) + (Reservado - 0) + Tamano[s] <= Cuota
    BY <1>1, <1>2 DEF CabeEnCuota, Usado
  <2>10. Suma(Tamano, Contados') <= Cuota
    BY <1>0, <2>3, <2>4, <2>5, <2>6, <2>7, <2>8, <2>9
  <2>11. Suma(Tamano, Contados)' = Suma(Tamano, Contados')
    BY DEF Suma, Bytes
  <2> QED  BY <2>10, <2>11 DEF CuotaRespetada
<1>3. CASE ~CabeEnCuota(s)
  <2>1. reserva'[s] = 0
    BY <1>0, <1>3 DEF Reservar, Anda, ASTypeOK
  <2>2. Contados' \subseteq Contados
    BY <1>1, <2>1 DEF Contados, Visibles
  <2> QED  BY <1>0, <2>2, CuentanMenos
<1> QED  BY <1>2, <1>3

\* A reservation is held exactly from the first look to the end of the commit.
LEMMA ReservaSigue ==
    ASSUME ASTypeOK, ReservaEnCurso, [ASNext]_ASvars
    PROVE  ReservaEnCurso'
<1> USE AdjuntosSupuestos DEF AdjuntosSupuestos
<1>1. ASSUME NEW s \in Subidas, DeSubida(s) PROVE ReservaEnCurso'
  <2>1. /\ \A q \in Subidas : q # s => reserva'[q] = reserva[q] /\ donde'[q] = donde[q]
        /\ \/ donde'[s] \in ConReserva /\ reserva'[s] = Tamano[s]
           \/ donde'[s] \notin ConReserva /\ reserva'[s] = 0
    BY <1>1 DEF DeSubida, Reservar, Copiada, Clasificada, Dejar, Comprometer, Acabar, Plazo, BorrarTemporal,
                Anda, ASTypeOK, ReservaEnCurso, ConReserva
  <2> QED  BY <2>1 DEF ReservaEnCurso
<1>2. CASE Muere
  BY <1>2 DEF Muere, ReservaEnCurso, ConReserva
<1>3. CASE UNCHANGED <<donde, reserva>>
  BY <1>3 DEF ReservaEnCurso
<1>4. ASSUME \/ \E s \in Subidas : DeHilo(s)
             \/ PasaTiempo \/ Barre \/ UNCHANGED ASvars
      PROVE  UNCHANGED <<donde, reserva>>
  BY <1>4 DEF DeHilo, Copiar, GuardarDato, GuardarSidecar, Asentar, Deshacer, Hila, PasaTiempo, Envejece, Vence,
              Barre, ListarCarpeta, Mirar, Desenlazar, ASvars, handler
<1> QED  BY <1>1, <1>2, <1>3, <1>4 DEF ASNext

\* Only the first look makes an upload count: the sidecar of one that is in time is
\* written while its reservation is held.
LEMMA SoloReservarCuenta ==
    ASSUME InvDeCuota, [ASNext]_ASvars, \A s \in Subidas : ~Reservar(s)
    PROVE  Contados' \subseteq Contados
<1> USE AdjuntosSupuestos DEF AdjuntosSupuestos
<1>0. ASTypeOK /\ ReservaEnCurso /\ \A q \in Subidas : DiscoEnOrden(q)
  BY DEF InvDeCuota, AlmacenEnOrden
<1>1. ASSUME NEW s \in Subidas, DeSubida(s) PROVE Contados' \subseteq Contados
  <2>1. /\ UNCHANGED <<sidecar, vencidas>> /\ tarde \subseteq tarde'
        /\ \A q \in Subidas : reserva'[q] = reserva[q] \/ reserva'[q] = 0
    BY <1>0, <1>1 DEF DeSubida, Copiada, Clasificada, Dejar, Comprometer, Acabar, Plazo, BorrarTemporal,
                      Anda, ASTypeOK, ficheros, resto
  <2> QED  BY <2>1 DEF Contados, Visibles
<1>2. ASSUME NEW s \in Subidas, DeHilo(s) PROVE Contados' \subseteq Contados
  <2>1. UNCHANGED <<reserva, tarde, vencidas>> /\ \A q \in Subidas : q # s => sidecar'[q] = sidecar[q]
    BY <1>0, <1>2 DEF DeHilo, Copiar, GuardarDato, GuardarSidecar, Asentar, Deshacer, Hila, ASTypeOK, handler, ficheros, resto
  <2>2. sidecar'[s] => sidecar[s] \/ hilo[s] = "sidecar"
    BY <1>0, <1>2 DEF DeHilo, Copiar, GuardarDato, GuardarSidecar, Asentar, Deshacer, Hila, ASTypeOK, ficheros
  <2>3. hilo[s] = "sidecar" /\ s \notin tarde => reserva[s] > 0
    BY <1>0 DEF DiscoEnOrden, SinHilo, ReservaEnCurso, ConReserva
  <2> QED  BY <2>1, <2>2, <2>3 DEF Contados, Visibles
<1>3. CASE PasaTiempo
  BY <1>3 DEF PasaTiempo, Envejece, Vence, handler, ficheros, resto, Contados, Visibles
<1>4. CASE Barre
  <2>1. UNCHANGED <<reserva, tarde, vencidas>>
    BY <1>4 DEF Barre, ListarCarpeta, Mirar, Desenlazar, handler, resto
  <2>2. \A q \in Subidas : sidecar'[q] => sidecar[q]
    BY <1>0, <1>4, LoQueBorra DEF Barre, ListarCarpeta, Mirar, Desenlazar, ficheros, ASTypeOK
  <2> QED  BY <2>1, <2>2 DEF Contados, Visibles
<1>5. CASE Muere
  BY <1>5 DEF Muere, ficheros, Contados, Visibles
<1>6. CASE UNCHANGED ASvars
  BY <1>6 DEF ASvars, handler, ficheros, resto, Contados, Visibles
<1> QED  BY <1>1, <1>2, <1>3, <1>4, <1>5, <1>6 DEF ASNext

\* For any uploads, sizes, quota and deaths: what is live and what is reserved fit in
\* the quota, but for commits past their deadline.
THEOREM LaCuotaSeRespeta == ASSpec => []CuotaRespetada
<1>1. ASInit => InvDeCuota
  BY ASTiposAlInicio, AlmacenAlInicio, CuotaAlInicio DEF InvDeCuota
<1>2. InvDeCuota /\ [ASNext]_ASvars => InvDeCuota'
  <2> SUFFICES ASSUME InvDeCuota, [ASNext]_ASvars PROVE InvDeCuota'
    OBVIOUS
  <2>1. ASTypeOK' /\ AlmacenEnOrden'
    BY ASTipos, AlmacenSigue DEF InvDeCuota
  <2>2. ReservaEnCurso'
    BY ReservaSigue DEF InvDeCuota
  <2>3. CuotaRespetada'
    BY CuotaTrasReservar, SoloReservarCuenta, CuentanMenos DEF InvDeCuota
  <2> QED  BY <2>1, <2>2, <2>3 DEF InvDeCuota
<1>3. InvDeCuota => CuotaRespetada
  BY DEF InvDeCuota
<1> QED  BY <1>1, <1>2, <1>3, PTL DEF ASSpec
=============================================================================
