------------------------------ MODULE AjustesCache ------------------------------
(***************************************************************************)
(* backend/ajustes.py, class CacheDeAjustes: the settings rows of          *)
(* axioma_config, cached for TTL ticks by one process, loaded by one call  *)
(* at a time under the lock of the event loop, and dropped by invalidar(), *)
(* which PUT /api/admin/config calls in a `finally' once its transaction   *)
(* is closed.  A version number stands for the whole set of rows.          *)
(*                                                                         *)
(* Every await of filas() and of the PUT is the end of an action: the      *)
(* lock, the SELECT and the commit interleave with every other call.       *)
(***************************************************************************)
EXTENDS Integers

CONSTANTS
    Llamadas,           \* calls of filas(), one per request in flight
    Nadie,              \* no call
    Guardados,          \* PUT requests in flight
    TTL,                \* JAX_AJUSTES_TTL_S, in ticks
    MaxVersion,         \* bound: committed edits
    MaxInvalidaciones,  \* bound: calls of invalidar()
    MaxReloj            \* bound: ticks of the clock

ASSUME AjustesSupuestos ==
    /\ Nadie \notin Llamadas
    /\ TTL \in Nat \ {0}
    /\ MaxVersion \in Nat
    /\ MaxInvalidaciones \in Nat
    /\ MaxReloj \in Nat

Nada == -1
Versiones == 0 .. MaxVersion
Horas == 0 .. MaxReloj

VARIABLES
    base,        \* version of the rows committed in axioma_config
    reloj,       \* time.monotonic()
    filas,       \* _filas: version cached, or Nada
    vence,       \* _vence
    generacion,  \* _generacion
    candado,     \* the call inside `async with lock', or Nadie
    pc,          \* where each call of filas() is
    llamada,     \* locals of each call (see Llamada)
    put,         \* where each PUT is
    \* history
    anunciada,   \* version committed at the last invalidar()
    superada,    \* superada[v]: when v stopped being the committed version
    desde,       \* when the load of the cached rows began
    recargas     \* loads begun since rows were last missing for a new reason

cache == <<filas, vence, desde>>
vars == <<base, reloj, filas, vence, generacion, candado, pc, llamada, put,
          anunciada, superada, desde, recargas>>

\* What a call knows: the generation and clock at which its load began, the
\* rows it read, and for its answer the version, the clock and how long the
\* load behind it took.  minimo and entrada are history: what had been announced,
\* and the clock, when the call began.
Llamada == [gen : 0 .. MaxInvalidaciones, inicio : Horas,
            leida : Versiones \cup {Nada}, minimo : Versiones, entrada : Horas,
            version : Versiones \cup {Nada}, hora : Horas, demora : Horas]

LlamadaNueva(m, h) == [gen |-> 0, inicio |-> 0, leida |-> Nada, minimo |-> m,
                       entrada |-> h, version |-> Nada, hora |-> 0, demora |-> 0]

Init ==
    /\ base = 0 /\ reloj = 0
    /\ filas = Nada /\ vence = 0 /\ generacion = 0 /\ candado = Nadie
    /\ pc = [c \in Llamadas |-> "fuera"]
    /\ llamada = [c \in Llamadas |-> LlamadaNueva(0, 0)]
    /\ put = [p \in Guardados |-> "fuera"]
    /\ anunciada = 0 /\ superada = [v \in Versiones |-> MaxReloj + 1]
    /\ desde = 0 /\ recargas = 0

-----------------------------------------------------------------------------
(* filas() *)

\* Mutant of Vigentes: the expiry is not looked at.
VigentesSinVencer == filas # Nada

\* _vigentes(): there are rows and they have not expired.
Vigentes == filas # Nada /\ reloj < vence

\* What remains of a call that answered: its question and its answer.
Contestada(l, v, d) == [LlamadaNueva(l.minimo, l.entrada) EXCEPT
                          !.version = v, !.hora = reloj, !.demora = d]

\* The call answers with version v, whose load took d ticks.
Responde(c, l, v, d) ==
    /\ pc' = [pc EXCEPT ![c] = "fuera"]
    /\ llamada' = [llamada EXCEPT ![c] = Contestada(l, v, d)]

DemoraDelCache == vence - TTL - desde

\* filas() up to its first await: rows still valid are returned, otherwise the
\* call asks for the lock of its event loop.
Empezar(c) ==
    /\ pc[c] = "fuera"
    /\ LET l == LlamadaNueva(anunciada, reloj) IN
         \/ /\ Vigentes
            /\ Responde(c, l, filas, DemoraDelCache)
         \/ /\ ~Vigentes
            /\ pc' = [pc EXCEPT ![c] = "espera"]
            /\ llamada' = [llamada EXCEPT ![c] = l]
    /\ UNCHANGED <<base, reloj, cache, generacion, candado, put, anunciada,
                   superada, recargas>>

\* Mutant of TomarCandado: the rows are not looked at again under the lock.
TomarSinVolverAMirar(c) ==
    /\ pc[c] = "espera" /\ candado = Nadie
    /\ candado' = c
    /\ pc' = [pc EXCEPT ![c] = "carga"]
    /\ llamada' = [llamada EXCEPT ![c].gen = generacion, ![c].inicio = reloj]
    /\ recargas' = recargas + 1
    /\ UNCHANGED <<base, reloj, cache, generacion, put, anunciada, superada>>

\* The lock is granted: another call may have loaded the rows meanwhile, so
\* they are looked at again; if they are still missing the load begins.
TomarCandado(c) ==
    /\ pc[c] = "espera" /\ candado = Nadie
    /\ \/ /\ Vigentes
          /\ Responde(c, llamada[c], filas, DemoraDelCache)
          /\ UNCHANGED <<candado, recargas>>
       \/ /\ ~Vigentes
          /\ candado' = c
          /\ pc' = [pc EXCEPT ![c] = "carga"]
          /\ llamada' = [llamada EXCEPT ![c].gen = generacion, ![c].inicio = reloj]
          /\ recargas' = recargas + 1
    /\ UNCHANGED <<base, reloj, cache, generacion, put, anunciada, superada>>

\* The server runs the SELECT of _leer_filas.
LeerBase(c) ==
    /\ pc[c] = "carga"
    /\ pc' = [pc EXCEPT ![c] = "leida"]
    /\ llamada' = [llamada EXCEPT ![c].leida = base]
    /\ UNCHANGED <<base, reloj, cache, generacion, candado, put, anunciada,
                   superada, recargas>>

\* Mutant of GuardaLoLeido: every load is kept.
GuardaSiempre(c) == llamada[c].gen \in Nat

\* A load that began before invalidar() is not kept.
GuardaLoLeido(c) == llamada[c].gen = generacion

\* The rows kept expire a TTL after the load ends, not after it begins.
VenceNuevo == reloj + TTL

\* The load is back in the loop: it is kept if no invalidar() came in between,
\* and is answered to its caller in both cases.
Volver(c) ==
    /\ pc[c] = "leida"
    /\ IF GuardaLoLeido(c)
         THEN /\ filas' = llamada[c].leida
              /\ vence' = VenceNuevo
              /\ desde' = llamada[c].inicio
         ELSE UNCHANGED cache
    /\ candado' = Nadie
    /\ Responde(c, llamada[c], llamada[c].leida, reloj - llamada[c].inicio)
    /\ UNCHANGED <<base, reloj, generacion, put, anunciada, superada, recargas>>

\* The load raises (the base is down, the request is cancelled): the lock is
\* released and nothing is kept.
CargaFalla(c) ==
    /\ pc[c] \in {"carga", "leida"}
    /\ candado' = Nadie
    /\ pc' = [pc EXCEPT ![c] = "fuera"]
    /\ llamada' = [llamada EXCEPT ![c] = LlamadaNueva(0, 0)]
    /\ recargas' = 0
    /\ UNCHANGED <<base, reloj, cache, generacion, put, anunciada, superada>>

-----------------------------------------------------------------------------
(* The writers of axioma_config and the clock *)

\* A commit makes a new version the current one.
Confirmar ==
    /\ base < MaxVersion
    /\ base' = base + 1
    /\ superada' = [superada EXCEPT ![base] = reloj]

\* PUT /api/admin/config: its transaction closes, committed or rolled back.
CerrarTransaccion(p) ==
    /\ put[p] = "fuera"
    /\ put' = [put EXCEPT ![p] = "cerrada"]
    /\ Confirmar \/ UNCHANGED <<base, superada>>
    /\ UNCHANGED <<reloj, cache, generacion, candado, pc, llamada, anunciada, recargas>>

\* The `finally' of the PUT: invalidar().
Invalidar(p) ==
    /\ put[p] = "cerrada" /\ generacion < MaxInvalidaciones
    /\ put' = [put EXCEPT ![p] = "fuera"]
    /\ filas' = Nada
    /\ generacion' = generacion + 1
    /\ anunciada' = base
    /\ recargas' = 0
    /\ UNCHANGED <<base, reloj, vence, desde, candado, pc, llamada, superada>>

\* An edit by hand, or by a migration: nobody calls invalidar().
EditarPorFuera ==
    /\ Confirmar
    /\ UNCHANGED <<reloj, cache, generacion, candado, pc, llamada, put, anunciada, recargas>>

Tick ==
    /\ reloj < MaxReloj
    /\ reloj' = reloj + 1
    /\ recargas' = IF filas # Nada /\ reloj + 1 = vence THEN 0 ELSE recargas
    /\ UNCHANGED <<base, cache, generacion, candado, pc, llamada, put, anunciada, superada>>

PasoDeLlamada(c) ==
    Empezar(c) \/ TomarCandado(c) \/ LeerBase(c) \/ Volver(c) \/ CargaFalla(c)

Next ==
    \/ \E c \in Llamadas : PasoDeLlamada(c)
    \/ \E p \in Guardados : CerrarTransaccion(p) \/ Invalidar(p)
    \/ EditarPorFuera
    \/ Tick

Spec == Init /\ [][Next]_vars

-----------------------------------------------------------------------------
(* Properties *)

\* Types of every variable.
TypeOK ==
    /\ base \in Versiones /\ reloj \in Horas
    /\ filas \in Versiones \cup {Nada} /\ vence \in 0 .. reloj + TTL
    /\ generacion \in 0 .. MaxInvalidaciones
    /\ candado \in Llamadas \cup {Nadie}
    /\ pc \in [Llamadas -> {"fuera", "espera", "carga", "leida"}]
    /\ llamada \in [Llamadas -> Llamada]
    /\ put \in [Guardados -> {"fuera", "cerrada"}]
    /\ anunciada \in Versiones
    /\ superada \in [Versiones -> 0 .. MaxReloj + 1]
    /\ desde \in Horas /\ recargas \in Nat

Respondida(c) == pc[c] = "fuera" /\ llamada[c].version # Nada

\* A call of filas() that begins after a PUT has invalidated the cache never
\* answers with rows older than the ones that PUT committed, although a load
\* that began before may be in flight and end later.
FrescoTrasInvalidar ==
    \A c \in Llamadas : Respondida(c) => llamada[c].version >= llamada[c].minimo

\* N requests that find no valid rows do not load them N times: between an
\* invalidar(), an expiry or a failed load and the next one, one call loads.
UnaRecarga == recargas <= 1

\* The age of an answer is bounded by the TTL plus the time its load took: the
\* version answered was still the committed one that long ago, or later.
EdadAcotada ==
    \A c \in Llamadas : Respondida(c) =>
        superada[llamada[c].version] >
            llamada[c].hora - TTL - llamada[c].demora
-----------------------------------------------------------------------------
(* The inductive invariant behind the three properties *)

Cargando(c) == pc[c] \in {"carga", "leida"}

\* The call that holds the lock is the one that loads; its generation is past
\* or current, and what it read was committed when it began or later.
CargaBajoCandado ==
    \A c \in Llamadas :
        /\ Cargando(c) <=> candado = c
        /\ Cargando(c) => /\ llamada[c].gen <= generacion
                          /\ llamada[c].inicio <= reloj
        /\ pc[c] = "leida" =>
              /\ llamada[c].leida \in 0 .. base
              /\ llamada[c].leida >= llamada[c].minimo
              /\ llamada[c].gen = generacion => llamada[c].leida >= anunciada
              /\ superada[llamada[c].leida] >= llamada[c].inicio

\* The rows kept are no older than the last invalidar(), and were committed
\* when their load began or later.
LoGuardado ==
    filas # Nada => /\ filas \in anunciada .. base
                    /\ desde <= vence - TTL
                    /\ superada[filas] >= desde

Historia ==
    /\ anunciada <= base
    /\ \A c \in Llamadas : llamada[c].minimo <= anunciada /\ llamada[c].hora <= reloj
    /\ \A v \in Versiones : v >= base => superada[v] = MaxReloj + 1

\* A load of the current episode is still in flight, or its rows are valid.
EpisodioEnCurso ==
    recargas = 1 => \/ Vigentes
                    \/ \E c \in Llamadas : candado = c /\ llamada[c].gen = generacion

IInv ==
    /\ TypeOK
    /\ CargaBajoCandado
    /\ LoGuardado
    /\ Historia
    /\ EpisodioEnCurso
    /\ FrescoTrasInvalidar
    /\ UnaRecarga
    /\ EdadAcotada
=============================================================================
