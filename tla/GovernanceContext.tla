--------------------------- MODULE GovernanceContext ---------------------------
(***************************************************************************)
(* backend/governance_context.py: the context that the snapshot of a turn  *)
(* of the chat and its validation in the shadow are built from.  One value *)
(* is cached under its stamp: the modification times of three files and of *)
(* the seal of the facets.  One reload is in flight per stamp, shared by   *)
(* the turns that ask for it; each waits through a future of its own, and  *)
(* may be cancelled without cancelling the reload.                         *)
(*                                                                         *)
(* What runs between two awaits is one step of the event loop.  The three  *)
(* files are one; each change of it, and each touch of the seal, has a     *)
(* time of its own.  Who changes the catalogue touches the seal after its  *)
(* commit.  The seal is there: without it changes enter at a restart.      *)
(***************************************************************************)
EXTENDS Integers, FiniteSets

CONSTANTS
    Turnos,         \* who calls validation_context
    MaxRecargas,    \* bound: tasks of _reload
    MaxCatalogo,    \* bound: commits on the catalogue
    MaxFicheros,    \* bound: changes of the file
    MaxSellos       \* bound: touches of the seal

ASSUME ContextoSupuesto ==
    /\ MaxRecargas \in Nat /\ MaxCatalogo \in Nat /\ MaxFicheros \in Nat /\ MaxSellos \in Nat

\* The tasks, in the order they are started in.
Recargas == 1 .. MaxRecargas
SinRecarga == 0

VARIABLES
    catalogo, ficheros,     \* what the database and the file say: versions
    legible,                \* can the file be read?
    marcado,                \* touches of the seal
    sellado,                \* the catalogue at the last of them
    contexto,               \* _cache
    enVuelo,                \* _inflight
    recarga,                \* where each task is
    lanzada,                \* the stamp it was started for
    leido,                  \* what it read
    falladas,               \* tasks that raised
    turno, esperada,        \* where each call is, and the task it waited for
    pedido, servido,        \* what was current when it began, and its answer
    canceladas,             \* _cancelled_waiters
    emitidas,               \* _logged_cancelled_reload_failures
    registrados,            \* calls whose cancellation added a callback that has not run
    errores                 \* lines of the log, by task

fuentes == <<catalogo, ficheros, legible, marcado, sellado>>
tareasGC == <<recarga, lanzada, leido, falladas>>
turnosGC == <<turno, esperada, pedido, servido>>
senales == <<canceladas, emitidas, registrados, errores>>
GCvars == <<fuentes, contexto, enVuelo, tareasGC, turnosGC, senales>>

SinLeer == -1
Valores == [cat : SinLeer .. MaxCatalogo, fic : SinLeer .. MaxFicheros]
Marcas == [fic : SinLeer .. MaxFicheros, sello : 0 .. MaxSellos]
Vacio == [cat |-> SinLeer, fic |-> SinLeer]

\* _stamp: a file that cannot be read has no time.
Marca == [fic |-> IF legible THEN ficheros ELSE SinLeer, sello |-> marcado]

GCTypeOK ==
    /\ catalogo \in 0 .. MaxCatalogo /\ ficheros \in 0 .. MaxFicheros /\ legible \in BOOLEAN
    /\ marcado \in 0 .. MaxSellos /\ sellado \in 0 .. MaxCatalogo
    /\ contexto \in [marca : Marcas, valor : Valores]
    /\ enVuelo \in Recargas \union {SinRecarga}
    /\ recarga \in [Recargas -> {"libre", "consulta", "lectura", "leida", "acabada", "limpia"}]
    /\ lanzada \in [Recargas -> Marcas] /\ leido \in [Recargas -> Valores]
    /\ falladas \subseteq Recargas
    /\ turno \in [Turnos -> {"fuera", "espera", "avisado", "cancelado", "ido", "servido", "fallido"}]
    /\ esperada \in [Turnos -> Recargas \union {SinRecarga}]
    /\ pedido \in [Turnos -> Valores] /\ servido \in [Turnos -> Valores]
    /\ canceladas \subseteq Recargas /\ emitidas \subseteq Recargas
    /\ registrados \subseteq Turnos /\ errores \in [Recargas -> Nat]

\* The catalogue and the file before anything; nothing is cached.
GCInit ==
    /\ catalogo = 0 /\ ficheros = 0 /\ legible = TRUE /\ marcado = 0 /\ sellado = 0
    /\ contexto = [marca |-> Marca, valor |-> Vacio] /\ enVuelo = SinRecarga
    /\ recarga = [r \in Recargas |-> "libre"] /\ lanzada = [r \in Recargas |-> Marca]
    /\ leido = [r \in Recargas |-> Vacio] /\ falladas = {}
    /\ turno = [t \in Turnos |-> "fuera"] /\ esperada = [t \in Turnos |-> SinRecarga]
    /\ pedido = [t \in Turnos |-> Vacio] /\ servido = [t \in Turnos |-> Vacio]
    /\ canceladas = {} /\ emitidas = {} /\ registrados = {}
    /\ errores = [r \in Recargas |-> 0]

-----------------------------------------------------------------------------
(* The sources *)

ConfirmarCatalogo ==
    /\ catalogo < MaxCatalogo /\ catalogo' = catalogo + 1
    /\ UNCHANGED <<ficheros, legible, marcado, sellado, contexto, enVuelo, tareasGC, turnosGC, senales>>

Sellar ==
    /\ marcado < MaxSellos /\ marcado' = marcado + 1 /\ sellado' = catalogo
    /\ UNCHANGED <<catalogo, ficheros, legible, contexto, enVuelo, tareasGC, turnosGC, senales>>

CambiarFichero ==
    /\ ficheros < MaxFicheros /\ ficheros' = ficheros + 1 /\ legible' \in BOOLEAN
    /\ UNCHANGED <<catalogo, marcado, sellado, contexto, enVuelo, tareasGC, turnosGC, senales>>

PermitirFichero ==
    /\ legible' = ~legible
    /\ UNCHANGED <<catalogo, ficheros, marcado, sellado, contexto, enVuelo, tareasGC, turnosGC, senales>>

-----------------------------------------------------------------------------
(* _reload *)

Avanza(r, desde, hacia) == recarga[r] = desde /\ recarga' = [recarga EXCEPT ![r] = hacia]

\* MotorCatalog.from_db.
LeerCatalogo(r) ==
    /\ Avanza(r, "consulta", "lectura") /\ leido' = [leido EXCEPT ![r].cat = catalogo]
    /\ UNCHANGED <<fuentes, contexto, enVuelo, lanzada, falladas, turnosGC, senales>>

\* _build_static, in a thread.
LeerFicheros(r) ==
    /\ Avanza(r, "lectura", "leida") /\ legible /\ leido' = [leido EXCEPT ![r].fic = ficheros]
    /\ UNCHANGED <<fuentes, contexto, enVuelo, lanzada, falladas, turnosGC, senales>>

\* Mutant of MarcaDe: the stamp is taken when the reload ends.
MarcaAlGuardar(r) == Marca

MarcaDe(r) == lanzada[r]

Guardar(r) ==
    /\ Avanza(r, "leida", "acabada") /\ contexto' = [marca |-> MarcaDe(r), valor |-> leido[r]]
    /\ UNCHANGED <<fuentes, enVuelo, lanzada, leido, falladas, turnosGC, senales>>

\* The database raises, the file cannot be read, the limit of time passes.
FallarRecarga(r) ==
    /\ \E p \in {"consulta", "lectura", "leida"} : Avanza(r, p, "acabada")
    /\ falladas' = falladas \union {r}
    /\ UNCHANGED <<fuentes, contexto, enVuelo, lanzada, leido, turnosGC, senales>>

\* _log_cancelled_reload_failure.
Senala(r) ==
    /\ canceladas' = canceladas \ {r}
    /\ IF r \in canceladas \ emitidas /\ r \in falladas
       THEN emitidas' = emitidas \union {r} /\ errores' = [errores EXCEPT ![r] = @ + 1]
       ELSE UNCHANGED <<emitidas, errores>>

\* _done, the first callback of the task.
Hecha(r) ==
    /\ Avanza(r, "acabada", "limpia") /\ enVuelo' = IF enVuelo = r THEN SinRecarga ELSE enVuelo
    /\ Senala(r)
    /\ UNCHANGED <<fuentes, contexto, lanzada, leido, falladas, turnosGC, registrados>>

-----------------------------------------------------------------------------
(* validation_context *)

Pasa(t, desde, hacia) == turno[t] = desde /\ turno' = [turno EXCEPT ![t] = hacia]

\* Somebody who is not waiting calls.  It may count on the catalogue as it was sealed
\* and on the file as it was.
Empieza(t, hacia) ==
    /\ \E p \in {"fuera", "servido", "fallido"} : Pasa(t, p, hacia)
    /\ pedido' = [pedido EXCEPT ![t] = [cat |-> sellado, fic |-> IF legible THEN ficheros ELSE SinLeer]]

\* What is cached has the stamp of now.
ServirContexto(t) ==
    /\ contexto.valor # Vacio /\ contexto.marca = Marca
    /\ Empieza(t, "servido") /\ servido' = [servido EXCEPT ![t] = contexto.valor]
    /\ esperada' = [esperada EXCEPT ![t] = SinRecarga]
    /\ UNCHANGED <<fuentes, contexto, enVuelo, tareasGC, senales>>

Fallo == contexto.valor = Vacio \/ contexto.marca # Marca

Compartible == enVuelo # SinRecarga /\ lanzada[enVuelo] = Marca

\* The reload in flight is for the same stamp.
Compartir(t) ==
    /\ Fallo /\ Compartible
    /\ Empieza(t, "espera") /\ esperada' = [esperada EXCEPT ![t] = enVuelo]
    /\ servido' = [servido EXCEPT ![t] = Vacio]
    /\ UNCHANGED <<fuentes, contexto, enVuelo, tareasGC, senales>>

\* A reload of its own; one in flight for another stamp goes on.
Lanzar(t, r) ==
    /\ Fallo /\ ~Compartible /\ (\A q \in Recargas : q < r => recarga[q] # "libre")
    /\ Empieza(t, "espera") /\ esperada' = [esperada EXCEPT ![t] = r]
    /\ servido' = [servido EXCEPT ![t] = Vacio]
    /\ Avanza(r, "libre", "consulta") /\ lanzada' = [lanzada EXCEPT ![r] = Marca] /\ enVuelo' = r
    /\ UNCHANGED <<fuentes, contexto, leido, falladas, senales>>

\* relay, after _done: the future of the call has what the task gave.
Relevar(t) ==
    /\ Pasa(t, "espera", "avisado") /\ recarga[esperada[t]] = "limpia"
    /\ UNCHANGED <<fuentes, contexto, enVuelo, tareasGC, esperada, pedido, servido, senales>>

Volver(t) ==
    /\ \/ esperada[t] \notin falladas /\ Pasa(t, "avisado", "servido")
          /\ servido' = [servido EXCEPT ![t] = leido[esperada[t]]]
       \/ esperada[t] \in falladas /\ Pasa(t, "avisado", "fallido") /\ UNCHANGED servido
    /\ UNCHANGED <<fuentes, contexto, enVuelo, tareasGC, esperada, pedido, senales>>

\* The turn is cancelled; it learns so at its next step.
Cancelar(t) ==
    /\ Pasa(t, "espera", "cancelado") \/ Pasa(t, "avisado", "cancelado")
    /\ UNCHANGED <<fuentes, contexto, enVuelo, tareasGC, esperada, pedido, servido, senales>>

\* Mutant of Registra: no callback is added, as _done will see the mark.
SinRegistrar(t) == UNCHANGED registrados

Registra(t) == registrados' = registrados \union {t}

\* The except of _wait_for_inflight.
Cancelada(t) ==
    /\ Pasa(t, "cancelado", "ido")
    /\ \/ esperada[t] \in emitidas /\ UNCHANGED <<canceladas, registrados>>
       \/ /\ esperada[t] \notin emitidas
          /\ canceladas' = canceladas \union {esperada[t]} /\ Registra(t)
    /\ UNCHANGED <<fuentes, contexto, enVuelo, tareasGC, esperada, pedido, servido, emitidas, errores>>

\* The callback it added, once the task is done.
AvisarTrasCancelar(t) ==
    /\ t \in registrados /\ recarga[esperada[t]] = "limpia"
    /\ registrados' = registrados \ {t} /\ Senala(esperada[t])
    /\ UNCHANGED <<fuentes, contexto, enVuelo, tareasGC, turnosGC>>

DeFuente == ConfirmarCatalogo \/ Sellar \/ CambiarFichero \/ PermitirFichero

DeRecarga(r) == LeerCatalogo(r) \/ LeerFicheros(r) \/ Guardar(r) \/ FallarRecarga(r) \/ Hecha(r)

DelTurno(t) ==
    \/ ServirContexto(t) \/ Compartir(t) \/ \E r \in Recargas : Lanzar(t, r)
    \/ Relevar(t) \/ Volver(t) \/ Cancelar(t) \/ Cancelada(t) \/ AvisarTrasCancelar(t)

GCNext == DeFuente \/ (\E r \in Recargas : DeRecarga(r)) \/ \E t \in Turnos : DelTurno(t)

GCSpec == GCInit /\ [][GCNext]_GCvars

-----------------------------------------------------------------------------
(* Properties *)

\* A turn that begins after a seal or a change of a file that can be read is served
\* what was there or something newer, although reloads of other stamps end in any
\* order and write over each other (validation_context).
VeSuMarca ==
    \A t \in Turnos : turno[t] = "servido" =>
        servido[t].cat >= pedido[t].cat /\ servido[t].fic >= pedido[t].fic

EnReposo(r) ==
    /\ recarga[r] = "limpia"
    /\ \A t \in Turnos : esperada[t] = r =>
          turno[t] \notin {"espera", "avisado", "cancelado"} /\ t \notin registrados

\* A reload that raises with a turn cancelled leaves one ERROR and no more, whenever
\* the cancellations come, and nothing of it is kept.
UnaSenal ==
    \A r \in Recargas : EnReposo(r) =>
        /\ errores[r] = IF r \in falladas /\ \E t \in Turnos : esperada[t] = r /\ turno[t] = "ido"
                        THEN 1 ELSE 0
        /\ r \notin canceladas
=============================================================================
