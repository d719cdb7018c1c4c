----------------------------- MODULE PriorityLanes -----------------------------
(***************************************************************************)
(* backend/ejecutor/prioridad.py: the two lanes to Ollama, the Mesa first. *)
(* A lane is an advisory lock on a file.  A request of the Mesa waits for  *)
(* mesa.lock; one of the executor waits for ejecutor.lock and enters only  *)
(* if it finds mesa.lock free before and after taking its own.  To look at *)
(* mesa.lock is to take it without waiting and let it go.                  *)
(*                                                                         *)
(* The locks are taken in threads, which cannot be cancelled; the object   *)
(* _Toma hands the locked file over to the request, or lets it go if the   *)
(* request has left.  Requests leave at any time: they end, are cancelled, *)
(* or, those of the executor, reach the limit of their wait.  The blocking *)
(* versions are the same steps of a request that is not cancelled.         *)
(***************************************************************************)
EXTENDS Naturals, FiniteSets

CONSTANTS
    Mesas,        \* requests of the Mesa, each with a file of its own
    Ejecutores,   \* requests of the executor
    Nada          \* nobody holds the lock

ASSUME CarrilesSupuestos == Nada \notin Mesas \union Ejecutores /\ Mesas \cap Ejecutores = {}

VARIABLES
    mesa,         \* who holds mesa.lock: a request of the Mesa, or an executor that looks
    ejecutor,     \* who holds ejecutor.lock
    tarea,        \* where each request is
    enHilo,       \* what its thread does
    abandonada,   \* _Toma.abandonada
    tomada,       \* _Toma._f: the locked file was handed over
    anteriores    \* the request of the Mesa that was in when an executor took its lock, and still is

PLvars == <<mesa, ejecutor, tarea, enHilo, abandonada, tomada, anteriores>>

Todas == Mesas \union Ejecutores

Miradas == {"mira", "mirando", "remira", "remirando"}

PLTypeOK ==
    /\ mesa \in Todas \union {Nada} /\ ejecutor \in Ejecutores \union {Nada}
    /\ tarea \in [Todas -> {"fuera", "espera", "dentro", "soltando", "fin"}]
    /\ enHilo \in [Todas -> {"no", "prueba", "aguarda", "entrega", "suelta"} \union Miradas]
    /\ abandonada \subseteq Todas /\ tomada \subseteq Todas
    /\ anteriores \in [Ejecutores -> SUBSET Mesas]

PLInit ==
    /\ mesa = Nada /\ ejecutor = Nada
    /\ tarea = [r \in Todas |-> "fuera"] /\ enHilo = [r \in Todas |-> "no"]
    /\ abandonada = {} /\ tomada = {} /\ anteriores = [e \in Ejecutores |-> {}]

-----------------------------------------------------------------------------
(* Tasks and threads *)

Anda(r, desde, hacia) == tarea[r] = desde /\ tarea' = [tarea EXCEPT ![r] = hacia]

Hila(r, desde, hacia) == enHilo[r] = desde /\ enHilo' = [enHilo EXCEPT ![r] = hacia]

\* What the thread of a request does first.
Primero(r) == IF r \in Mesas THEN "prueba" ELSE "mira"

\* The lock of a lane is let go.
LibraCarril(r) ==
    IF r \in Mesas
    THEN /\ mesa' = Nada /\ UNCHANGED ejecutor
         /\ anteriores' = [e \in Ejecutores |-> anteriores[e] \ {r}]
    ELSE ejecutor' = Nada /\ UNCHANGED <<mesa, anteriores>>

\* carril_mesa_async, carril_ejecutor_async: the request awaits its thread.
Empezar(r) ==
    /\ Anda(r, "fuera", "espera") /\ Hila(r, "no", Primero(r))
    /\ UNCHANGED <<mesa, ejecutor, abandonada, tomada, anteriores>>

\* The thread returned with the lock.
Entrar(r) ==
    /\ Anda(r, "espera", "dentro") /\ enHilo[r] = "no" /\ r \in tomada
    /\ UNCHANGED <<mesa, ejecutor, enHilo, abandonada, tomada, anteriores>>

\* An executor that did not get it tries again after a pause.
Reintentar(e) ==
    /\ tarea[e] = "espera" /\ Hila(e, "no", "mira") /\ e \notin tomada
    /\ UNCHANGED <<mesa, ejecutor, tarea, abandonada, tomada, anteriores>>

\* abandonar: under the guard, the request leaves and takes what was handed over.
Abandonar(r) ==
    /\ tarea[r] \in {"espera", "dentro"}
    /\ tarea' = [tarea EXCEPT ![r] = IF r \in tomada THEN "soltando" ELSE "fin"]
    /\ abandonada' = abandonada \union {r} /\ tomada' = tomada \ {r}
    /\ UNCHANGED <<mesa, ejecutor, enHilo, anteriores>>

\* What was handed over is let go.
SoltarTomada(r) ==
    /\ Anda(r, "soltando", "fin") /\ LibraCarril(r)
    /\ UNCHANGED <<enHilo, abandonada, tomada>>

\* Mutant of Entregar: the file is handed over to a request that has left.
EntregarSiempre(r) ==
    /\ Hila(r, "entrega", "no") /\ tomada' = tomada \union {r}
    /\ UNCHANGED <<mesa, ejecutor, tarea, abandonada, anteriores>>

\* entregar: under the guard, the file is handed over, unless the request has left.
Entregar(r) ==
    /\ \/ r \notin abandonada /\ Hila(r, "entrega", "no") /\ tomada' = tomada \union {r}
       \/ r \in abandonada /\ Hila(r, "entrega", "suelta") /\ UNCHANGED tomada
    /\ UNCHANGED <<mesa, ejecutor, tarea, abandonada, anteriores>>

\* The thread lets the lock go itself.
SoltarEnHilo(r) ==
    /\ Hila(r, "suelta", "no") /\ LibraCarril(r)
    /\ UNCHANGED <<tarea, abandonada, tomada>>

-----------------------------------------------------------------------------
(* The thread of a request of the Mesa: _esperar_mesa *)

ProbarMesa(m) ==
    /\ \/ mesa = Nada /\ mesa' = m /\ Hila(m, "prueba", "entrega")
       \/ mesa # Nada /\ Hila(m, "prueba", "aguarda") /\ UNCHANGED mesa
    /\ UNCHANGED <<ejecutor, tarea, abandonada, tomada, anteriores>>

\* The wait ends with its step, or at once when the request leaves.
Aguardar(m) ==
    /\ \/ m \in abandonada /\ Hila(m, "aguarda", "no")
       \/ m \notin abandonada /\ Hila(m, "aguarda", "prueba")
    /\ UNCHANGED <<mesa, ejecutor, tarea, abandonada, tomada, anteriores>>

-----------------------------------------------------------------------------
(* The thread of a request of the executor: _intentar_ejecutor *)

\* hay_mesa_esperando takes mesa.lock, or finds it taken and nothing is tried; the
\* second time the executor lets its own lock go.
Mirar(e) ==
    /\ \/ mesa = Nada /\ mesa' = e /\ (Hila(e, "mira", "mirando") \/ Hila(e, "remira", "remirando"))
       \/ mesa # Nada /\ UNCHANGED mesa /\ (Hila(e, "mira", "no") \/ Hila(e, "remira", "suelta"))
    /\ UNCHANGED <<ejecutor, tarea, abandonada, tomada, anteriores>>

\* It lets mesa.lock go: there is no Mesa.
DejarDeMirar(e) ==
    /\ Hila(e, "mirando", "prueba") \/ Hila(e, "remirando", "entrega")
    /\ mesa' = Nada
    /\ UNCHANGED <<ejecutor, tarea, abandonada, tomada, anteriores>>

\* Mutant of TrasProbar: the Mesa is not looked at again.
SinRemirar == "entrega"

TrasProbar == "remira"

ProbarEjecutor(e) ==
    /\ \/ /\ ejecutor = Nada /\ ejecutor' = e /\ Hila(e, "prueba", TrasProbar)
          /\ anteriores' = [anteriores EXCEPT ![e] = {mesa} \cap Mesas]
       \/ ejecutor # Nada /\ Hila(e, "prueba", "no") /\ UNCHANGED <<ejecutor, anteriores>>
    /\ UNCHANGED <<mesa, tarea, abandonada, tomada>>

DePeticion(r) ==
    \/ Empezar(r) \/ Entrar(r) \/ Abandonar(r) \/ SoltarTomada(r) \/ Entregar(r) \/ SoltarEnHilo(r)

DeMesa(m) == ProbarMesa(m) \/ Aguardar(m)

DeEjecutor(e) == Reintentar(e) \/ Mirar(e) \/ DejarDeMirar(e) \/ ProbarEjecutor(e)

PLNext ==
    \/ \E r \in Todas : DePeticion(r)
    \/ \E m \in Mesas : DeMesa(m)
    \/ \E e \in Ejecutores : DeEjecutor(e)

PLSpec == PLInit /\ [][PLNext]_PLvars

-----------------------------------------------------------------------------
\* Who is in a lane holds its lock, so that there is one of each at a time, and a
\* lock is not kept for a request that has left, whenever it was cancelled while
\* its thread took it (_Toma).
CarrilConDueno ==
    \A r \in Todas :
        LET suyo == IF r \in Mesas THEN mesa = r ELSE ejecutor = r
        IN  /\ tarea[r] = "dentro" => suyo
            /\ tarea[r] = "fin" /\ enHilo[r] = "no" => ~suyo

\* A request of the executor is not let in past one of the Mesa that was in before
\* it took its lock (carril_ejecutor: the Mesa that came in between goes first).
MesaPrimero == \A e \in tomada \cap Ejecutores : anteriores[e] = {}
=============================================================================
