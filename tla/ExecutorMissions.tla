---------------------------- MODULE ExecutorMissions ----------------------------
(***************************************************************************)
(* backend/ejecutor/misiones.py and pausa.py: a request opens a turn of a  *)
(* mission under one lock, a background task of the process runs the turn  *)
(* in a subprocess and closes its row, and a file pauses the executor.  A  *)
(* restart kills the subprocesses with the process and closes the rows it  *)
(* left open.  Others (the contracts of JAX) put the pause too.            *)
(*                                                                         *)
(* A turn is named by the request that opens it.  A commit may fail, or    *)
(* reach the server and lose its answer.                                   *)
(***************************************************************************)
EXTENDS Naturals

CONSTANTS
    Turnos,         \* requests to crear or continuar, and the turns they open
    CambiosDePausa, \* requests to put or remove the pause
    SinTurno,       \* no turn: a free lock, a turn of no mission
    EntornosEM      \* the combinations of faults a behaviour may meet

\* A statement or a commit of the database fails; a file operation fails; the
\* process dies.
FallasEM == {"base", "disco", "caida"}

ASSUME MisionesSupuestos == SinTurno \notin Turnos /\ EntornosEM \subseteq SUBSET FallasEM

VARIABLES
    fallasEM,       \* the faults of this behaviour
    servicio,       \* is the process up?
    lanzamiento,    \* who holds _lanzamiento
    pedido,         \* where each request is
    mision,         \* the mission of each turn, by its first turn
    estado,         \* the row of each turn
    sesion,         \* did its runner start a session?
    evento,         \* is there a terminal event of the turn in the log?
    tarea,          \* where the background task of each turn is
    runner,         \* is its subprocess alive?
    salida,         \* the result the runner gave, and whether its event was read
    freno,          \* is the pause there?
    cambioDe,       \* where each change of the pause is; all but one are "fuera"
    trasPausa       \* history: turns opened with the pause put

base == <<mision, estado, sesion, evento>>
proceso == <<tarea, runner, salida>>
frenoVars == <<freno, cambioDe>>
EMvars == <<fallasEM, servicio, lanzamiento, pedido, base, proceso, frenoVars, trasPausa>>

Terminales == {"completado", "rechazado", "fallido"}
EstadosDeTurno == {"nada", "en_curso", "interrumpido"} \union Terminales

\* What the runner said: a result (or none), and its own terminal event (or not).
SinResultado == "sin_resultado"
Salidas == [dice : Terminales \union {SinResultado}, visto : BOOLEAN]
SinSalida == [dice |-> SinResultado, visto |-> FALSE]

DentroDeLanzamiento == {"pausa", "turno", "insertar"}

EMTypeOK ==
    /\ fallasEM \in EntornosEM /\ servicio \in BOOLEAN /\ freno \in BOOLEAN
    /\ lanzamiento \in Turnos \union {SinTurno}
    /\ pedido \in [Turnos -> {"fuera", "fin"} \union DentroDeLanzamiento]
    /\ mision \in [Turnos -> Turnos \union {SinTurno}]
    /\ estado \in [Turnos -> EstadosDeTurno]
    /\ sesion \in [Turnos -> BOOLEAN] /\ evento \in [Turnos -> BOOLEAN]
    /\ tarea \in [Turnos -> {"no", "lanzada", "corre", "cierra", "revienta"}]
    /\ runner \in [Turnos -> BOOLEAN] /\ salida \in [Turnos -> Salidas]
    /\ cambioDe \in [CambiosDePausa -> {"fuera", "auditar", "confirmar", "reponer"}]
    /\ trasPausa \in Nat
    /\ \A t \in Turnos : pedido[t] \in DentroDeLanzamiento <=> lanzamiento = t
    /\ \A c, d \in CambiosDePausa : cambioDe[c] # "fuera" /\ cambioDe[d] # "fuera" => c = d

EMInit ==
    /\ fallasEM \in EntornosEM /\ servicio = TRUE /\ lanzamiento = SinTurno
    /\ pedido = [t \in Turnos |-> "fuera"]
    /\ mision = [t \in Turnos |-> SinTurno] /\ estado = [t \in Turnos |-> "nada"]
    /\ sesion = [t \in Turnos |-> FALSE] /\ evento = [t \in Turnos |-> FALSE]
    /\ tarea = [t \in Turnos |-> "no"] /\ runner = [t \in Turnos |-> FALSE]
    /\ salida = [t \in Turnos |-> SinSalida]
    /\ freno \in BOOLEAN /\ cambioDe = [c \in CambiosDePausa |-> "fuera"]
    /\ trasPausa = 0

-----------------------------------------------------------------------------
(* Opening a turn *)

\* The request goes on, inside the lock.
Sigue(t, desde, hacia) ==
    /\ pedido[t] = desde /\ pedido' = [pedido EXCEPT ![t] = hacia]
    /\ UNCHANGED <<fallasEM, servicio, lanzamiento>>

\* The request is answered and the lock released.
Contesta(t, desde) ==
    /\ pedido[t] = desde /\ pedido' = [pedido EXCEPT ![t] = "fin"]
    /\ lanzamiento' = SinTurno
    /\ UNCHANGED <<fallasEM, servicio>>

Disponible == lanzamiento = SinTurno

\* crear and continuar take the lock, and validate what they were asked.
Entrar(t) ==
    /\ servicio /\ Disponible
    /\ pedido[t] = "fuera" /\ pedido' = [pedido EXCEPT ![t] = "pausa"] /\ lanzamiento' = t
    /\ UNCHANGED <<fallasEM, servicio, base, proceso, frenoVars, trasPausa>>

\* A machine, a repository or a mission that will not do, or a read that fails.
Rechazar(t) ==
    /\ \E paso \in DentroDeLanzamiento : Contesta(t, paso)
    /\ UNCHANGED <<base, proceso, frenoVars, trasPausa>>

\* Mutant of MirarPausa: the barrier of the pause is dropped.
NoMirarPausa(t) == Sigue(t, "pausa", "turno") /\ UNCHANGED <<base, proceso, frenoVars, trasPausa>>

\* _barreras_de_lanzamiento: the pause (423), then the open turn (409).
MirarPausa(t) ==
    /\ IF freno THEN Contesta(t, "pausa") ELSE Sigue(t, "pausa", "turno")
    /\ UNCHANGED <<base, proceso, frenoVars, trasPausa>>

\* Mutant of HayTurno: the open turn is the one this process runs.
HayTarea == \E t \in Turnos : tarea[t] # "no"

HayTurno == \E t \in Turnos : estado[t] = "en_curso"

MirarTurno(t) ==
    /\ IF HayTurno THEN Contesta(t, "turno") ELSE Sigue(t, "turno", "insertar")
    /\ UNCHANGED <<base, proceso, frenoVars, trasPausa>>

\* A mission goes on only if a runner of one of its turns started a session.
ConSesion(m) == \E t \in Turnos : mision[t] = m /\ sesion[t]

\* The transaction of the row.  Only who saw it commit launches the task; the
\* lock is released either way.
Insertar(t) ==
    /\ Contesta(t, "insertar")
    /\ \E m \in {t} \union {q \in Turnos : ConSesion(q)} :
         \/ /\ estado' = [estado EXCEPT ![t] = "en_curso"] /\ mision' = [mision EXCEPT ![t] = m]
            /\ tarea' = [tarea EXCEPT ![t] = "lanzada"]
            /\ trasPausa' = IF freno THEN trasPausa + 1 ELSE 0
         \/ /\ "base" \in fallasEM
            /\ estado' = [estado EXCEPT ![t] = "en_curso"] /\ mision' = [mision EXCEPT ![t] = m]
            /\ UNCHANGED <<tarea, trasPausa>>
         \/ "base" \in fallasEM /\ UNCHANGED <<estado, mision, tarea, trasPausa>>
    /\ UNCHANGED <<sesion, evento, runner, salida, frenoVars>>

-----------------------------------------------------------------------------
(* _correr_turno *)

\* A step of the task: nothing else of the process changes.
PasoDeTarea(t, desde, hacia) ==
    /\ tarea[t] = desde /\ tarea' = [tarea EXCEPT ![t] = hacia]
    /\ UNCHANGED <<fallasEM, servicio, lanzamiento, pedido, mision, frenoVars, trasPausa>>

\* The subprocess starts, or cannot be started.
Arrancar(t) ==
    /\ \/ PasoDeTarea(t, "lanzada", "corre") /\ runner' = [runner EXCEPT ![t] = TRUE]
       \/ PasoDeTarea(t, "lanzada", "revienta") /\ "disco" \in fallasEM /\ UNCHANGED runner
    /\ UNCHANGED <<estado, sesion, evento, salida>>

\* The runner sends its terminal event, which goes to the log; or the log cannot
\* be written and the task leaves by the exception, with the runner alive.
Anotar(t) ==
    /\ runner[t] /\ ~salida[t].visto
    /\ \/ /\ PasoDeTarea(t, "corre", "corre") /\ evento' = [evento EXCEPT ![t] = TRUE]
          /\ salida' = [salida EXCEPT ![t].visto = TRUE]
       \/ /\ PasoDeTarea(t, "corre", "revienta") /\ "base" \in fallasEM
          /\ \E b \in {evento[t], TRUE} : evento' = [evento EXCEPT ![t] = b]
          /\ UNCHANGED salida
    /\ UNCHANGED <<estado, sesion, runner>>

\* The runner ends, after a result or without it.
Terminar(t) ==
    /\ PasoDeTarea(t, "corre", "cierra") /\ runner[t]
    /\ runner' = [runner EXCEPT ![t] = FALSE]
    /\ \E r \in Terminales \union {SinResultado} : salida' = [salida EXCEPT ![t].dice = r]
    /\ UNCHANGED <<estado, sesion, evento>>

\* A runner that its task abandoned may end by itself.
Abandonado(t) ==
    /\ runner[t] /\ tarea[t] # "corre" /\ runner' = [runner EXCEPT ![t] = FALSE]
    /\ UNCHANGED <<fallasEM, servicio, lanzamiento, pedido, base, tarea, salida, frenoVars, trasPausa>>

\* Mutant of Cierra: the row is updated whatever its state is.
CierraSinMirar(t, como, inicio, visto) ==
    /\ estado' = [estado EXCEPT ![t] = como] /\ sesion' = [sesion EXCEPT ![t] = inicio]
    /\ evento' = [evento EXCEPT ![t] = @ \/ ~visto]

\* _cerrar_turno: one transaction, on a row that is still open, with its event
\* unless the runner's own was read.
Cierra(t, como, inicio, visto) ==
    IF estado[t] = "en_curso"
    THEN /\ estado' = [estado EXCEPT ![t] = como] /\ sesion' = [sesion EXCEPT ![t] = inicio]
         /\ evento' = [evento EXCEPT ![t] = @ \/ ~visto]
    ELSE UNCHANGED <<estado, sesion, evento>>

\* The close of a runner that ended; when it fails, committed or not, the
\* exception closes again.
Cerrar(t) ==
    /\ \E inicio \in BOOLEAN :
         LET dice == salida[t].dice
             como == IF dice = SinResultado THEN "fallido" ELSE dice
         IN  /\ dice = SinResultado => ~inicio
             /\ \/ Cierra(t, como, inicio, salida[t].visto) /\ PasoDeTarea(t, "cierra", "no")
                \/ /\ "base" \in fallasEM /\ PasoDeTarea(t, "cierra", "revienta")
                   /\ Cierra(t, como, inicio, salida[t].visto) \/ UNCHANGED <<estado, sesion, evento>>
    /\ UNCHANGED <<runner, salida>>

\* runner_error; if this fails too the row stays open until the restart.
CerrarConError(t) ==
    /\ PasoDeTarea(t, "revienta", "no")
    /\ \/ Cierra(t, "fallido", FALSE, FALSE)
       \/ "base" \in fallasEM /\ UNCHANGED <<estado, sesion, evento>>
    /\ UNCHANGED <<runner, salida>>

-----------------------------------------------------------------------------
(* The process *)

\* It dies with its requests, its tasks and their subprocesses.
CaidaEM ==
    /\ "caida" \in fallasEM /\ servicio /\ servicio' = FALSE
    /\ lanzamiento' = SinTurno
    /\ pedido' = [t \in Turnos |-> IF pedido[t] \in DentroDeLanzamiento THEN "fin" ELSE pedido[t]]
    /\ tarea' = [t \in Turnos |-> "no"] /\ runner' = [t \in Turnos |-> FALSE]
    /\ cambioDe' = [c \in CambiosDePausa |-> "fuera"]
    /\ UNCHANGED <<fallasEM, base, salida, freno, trasPausa>>

\* reconciliar_al_arrancar, before the first request is served.
Reiniciar ==
    /\ ~servicio /\ servicio' = TRUE
    /\ estado' = [t \in Turnos |-> IF estado[t] = "en_curso" THEN "interrumpido" ELSE estado[t]]
    /\ evento' = [t \in Turnos |-> evento[t] \/ estado[t] = "en_curso"]
    /\ UNCHANGED <<fallasEM, lanzamiento, pedido, mision, sesion, proceso, frenoVars, trasPausa>>

-----------------------------------------------------------------------------
(* The pause *)

\* A change of the pause moves on; the turns are not concerned.
PasoDePausa(c, desde, hacia) ==
    /\ cambioDe[c] = desde /\ cambioDe' = [cambioDe EXCEPT ![c] = hacia]
    /\ UNCHANGED <<fallasEM, servicio, lanzamiento, pedido, base, proceso>>

Pausa == freno' = TRUE /\ trasPausa' = IF freno THEN trasPausa ELSE 0
Suelta == freno' = FALSE /\ trasPausa' = 0
IgualPausa == UNCHANGED <<freno, trasPausa>>

NadieCambia == servicio /\ \A c \in CambiosDePausa : cambioDe[c] = "fuera"

\* The file appears (even if only its sync failed), or cannot be written (503).
\* A pause that was not there is audited.
PonerPausa(c) ==
    /\ NadieCambia
    /\ \/ freno /\ PasoDePausa(c, "fuera", "fuera") /\ IgualPausa
       \/ ~freno /\ PasoDePausa(c, "fuera", "auditar") /\ Pausa
       \/ "disco" \in fallasEM /\ PasoDePausa(c, "fuera", "fuera") /\ IgualPausa

\* Audited or not (500), the pause stays.
AuditarPausa(c) == PasoDePausa(c, "auditar", "fuera") /\ IgualPausa

\* The audit row is written in a transaction and the file removed before it
\* commits; when either fails first, nothing was removed.
QuitarPausa(c) ==
    /\ NadieCambia /\ freno
    /\ \/ PasoDePausa(c, "fuera", "confirmar") /\ Suelta
       \/ {"base", "disco"} \intersect fallasEM # {} /\ PasoDePausa(c, "fuera", "fuera") /\ IgualPausa

\* The commit; when it is not seen to succeed the pause is put back.
ConfirmarPausa(c) ==
    /\ \/ PasoDePausa(c, "confirmar", "fuera")
       \/ "base" \in fallasEM /\ PasoDePausa(c, "confirmar", "reponer")
    /\ IgualPausa

ReponerPausa(c) ==
    /\ PasoDePausa(c, "reponer", "fuera")
    /\ Pausa \/ ("disco" \in fallasEM /\ IgualPausa)

\* A contract of JAX pauses the executor.
PausaAjena ==
    /\ ~freno /\ Pausa
    /\ UNCHANGED <<fallasEM, servicio, lanzamiento, pedido, base, proceso, cambioDe>>

DeTurno(t) ==
    \/ Entrar(t) \/ Rechazar(t) \/ MirarPausa(t) \/ MirarTurno(t) \/ Insertar(t)
    \/ Arrancar(t) \/ Anotar(t) \/ Terminar(t) \/ Abandonado(t) \/ Cerrar(t) \/ CerrarConError(t)

DePausa(c) ==
    \/ PonerPausa(c) \/ AuditarPausa(c) \/ QuitarPausa(c) \/ ConfirmarPausa(c) \/ ReponerPausa(c)

EMNext ==
    \/ \E t \in Turnos : DeTurno(t)
    \/ \E c \in CambiosDePausa : DePausa(c)
    \/ PausaAjena \/ CaidaEM \/ Reiniciar

EMSpec == EMInit /\ [][EMNext]_EMvars

-----------------------------------------------------------------------------
\* One turn at a time in the whole platform: never two open rows, whatever fails
\* and through restarts; and never two subprocesses, unless the database failed.
UnTurnoALaVez ==
    /\ \A t, q \in Turnos : estado[t] = "en_curso" /\ estado[q] = "en_curso" => t = q
    /\ "base" \notin fallasEM => \A t, q \in Turnos : runner[t] /\ runner[q] => t = q

\* While the pause is put at most one turn is opened: the one whose request had
\* already looked at it.
PausaFrena == trasPausa <= 1

\* The row of a turn is closed once, and whoever reads it closed finds its terminal
\* event in the log: an answer lost, a second close or a restart does not write
\* over it.
UnSoloCierre ==
    [][\A t \in Turnos : estado[t] \notin {"nada", estado'[t]} =>
          estado[t] = "en_curso" /\ evento'[t]]_EMvars
=============================================================================
