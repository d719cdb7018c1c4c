------------------------------- MODULE KillSwitch -------------------------------
(***************************************************************************)
(* backend/kill_switch.py and backend/interruptor.py: the brake of the     *)
(* Mesa is a file.  The platform is the only writer of its own file and    *)
(* never touches the legacy one, which people and scripts put and remove   *)
(* by hand.  activar puts the file, tells every tab and audits; reanudar   *)
(* audits and removes the file in one transaction, and puts it back when   *)
(* the commit fails.  Both run under one lock of the process.              *)
(*                                                                         *)
(* escribir_pausa and borrar_pausa do the link or the unlink and then sync *)
(* the directory: they may fail before it, or after it with the file       *)
(* already changed.  A commit may fail having reached the server.  And     *)
(* whoever cannot look at the file takes it as put: pausa_presente answers *)
(* no only when the file is not there.                                     *)
(***************************************************************************)
EXTENDS Naturals

CONSTANTS
    Llamadas,   \* requests to activar or reanudar
    Entornos    \* the combinations of faults a behaviour may meet

\* A file operation, a look at a file, a statement (or commit, or rollback) fails;
\* the process dies.
Fallas == {"disco", "mirar", "base", "caida"}

ASSUME FrenoSupuestos == Entornos \subseteq SUBSET Fallas

VARIABLES
    fallas,     \* the faults of this behaviour
    pausa,      \* is the platform's file there?
    heredada,   \* is the legacy file there?
    pc,         \* where each request is; all but one are "fuera"
    antes,      \* was the file seen there when the request took the lock?
    resp,       \* its answer
    aviso,      \* the last event sent to the tabs
    \* history
    deuda,      \* the file is away by an unlink no audit row records
    dicho       \* the log says that the file is away, since it was last put

vars == <<fallas, pausa, heredada, pc, antes, resp, aviso, deuda, dicho>>

Pasos == {"fuera", "escribir", "difundir", "auditar", "registrar", "borrar", "confirmar", "reponer"}

\* "igual" and "cambio" are the 200 with its `cambio'; the others are the 503 of
\* InterruptorNoEscribible and the 500 of AuditoriaDelInterruptorFallida.
Respuestas == {"ninguna", "igual", "cambio", "no_escribible", "auditoria_fallida"}

TypeOK ==
    /\ fallas \in Entornos
    /\ {pausa, heredada, deuda, dicho} \subseteq BOOLEAN
    /\ pc \in [Llamadas -> Pasos] /\ antes \in [Llamadas -> BOOLEAN]
    /\ resp \in [Llamadas -> Respuestas]
    /\ aviso \in {"ninguno", "activado", "liberado"}
    /\ \A c, d \in Llamadas : pc[c] # "fuera" /\ pc[d] # "fuera" => c = d

Init ==
    /\ fallas \in Entornos
    /\ pausa \in BOOLEAN /\ heredada = FALSE
    /\ pc = [c \in Llamadas |-> "fuera"]
    /\ antes = [c \in Llamadas |-> FALSE]
    /\ resp = [c \in Llamadas |-> "ninguna"]
    /\ aviso = "ninguno" /\ deuda = FALSE /\ dicho = FALSE

\* What a look at a file that is there, or is not, may answer (pausa_presente).
Miradas(esta) == IF "mirar" \in fallas THEN {esta, TRUE} ELSE {esta}

\* The file, with the account of who removed it.
Pone == pausa' = TRUE /\ deuda' = FALSE
Quita == pausa /\ pausa' = FALSE /\ deuda' = TRUE
NoToca == UNCHANGED <<pausa, deuda>>

\* What the log says is kept until the file is put, and a look may add to it.
Callado == dicho' = (dicho /\ ~pausa')
Anota == \E puesto \in Miradas(pausa') : dicho' = ((dicho \/ ~puesto) /\ ~pausa')

Va(c, paso) == pc' = [pc EXCEPT ![c] = paso] /\ UNCHANGED resp

\* The answer, and the lock.
Responde(c, r) ==
    /\ pc' = [pc EXCEPT ![c] = "fuera"]
    /\ resp' = [resp EXCEPT ![c] = r]

\* _cambio is free.
Libre == \A c \in Llamadas : pc[c] = "fuera"

\* The first step of a request, with the lock just taken and the file looked at.
Empieza(c, paso, puesto) ==
    /\ Libre
    /\ antes' = [antes EXCEPT ![c] = puesto]
    /\ pc' = [pc EXCEPT ![c] = paso]
    /\ resp' = [resp EXCEPT ![c] = "ninguna"]

-----------------------------------------------------------------------------
(* activar *)

\* The lock, and whether the file was already there.
Activar(c) ==
    /\ \E puesto \in Miradas(pausa) : Empieza(c, "escribir", puesto)
    /\ UNCHANGED <<pausa, heredada, aviso, deuda, dicho>>

\* escribir_pausa: the link, or the file that was already there (EEXIST).
Escribir(c) ==
    /\ pc[c] = "escribir"
    /\ Pone /\ Callado
    /\ IF pausa THEN Responde(c, "igual") ELSE Va(c, "difundir")
    /\ UNCHANGED <<heredada, antes, aviso>>

\* Mutant of EsCambio: the file after the failure, and not before, decides.
EsCambioMirandoDespues(c, puesto) == puesto

\* After a failed write: the file is seen, or cannot be looked at, and was not there.
EsCambio(c, puesto) == puesto /\ ~antes[c]

\* escribir_pausa raises, before the link or after it.
EscribirFalla(c) ==
    /\ pc[c] = "escribir" /\ "disco" \in fallas
    /\ Pone \/ NoToca
    /\ \E puesto \in Miradas(pausa') :
          IF EsCambio(c, puesto) THEN Va(c, "difundir") ELSE Responde(c, "no_escribible")
    /\ Callado
    /\ UNCHANGED <<heredada, antes, aviso>>

\* Mutant of AvisaActivado: an activation without its event.
NoAvisa == UNCHANGED aviso

AvisaActivado == aviso' = "activado"

\* event_bus.publicar_a_todos, inside the lock.
Difundir(c) ==
    /\ pc[c] = "difundir"
    /\ AvisaActivado
    /\ Va(c, "auditar")
    /\ UNCHANGED <<pausa, heredada, antes, deuda, dicho>>

\* The transaction of the audit: done, or failed (whether or not it reached the
\* server).  The brake stays as it is.
Auditar(c) ==
    /\ pc[c] = "auditar"
    /\ \/ Responde(c, "cambio")
       \/ "base" \in fallas /\ Responde(c, "auditoria_fallida")
    /\ UNCHANGED <<pausa, heredada, antes, aviso, deuda, dicho>>

-----------------------------------------------------------------------------
(* reanudar *)

\* The lock; where no file of the platform is seen there is nothing to do.
Reanudar(c) ==
    /\ \E puesto \in Miradas(pausa) :
          \/ puesto /\ Empieza(c, "registrar", puesto)
          \/ ~puesto /\ Libre /\ Responde(c, "igual") /\ antes' = [antes EXCEPT ![c] = puesto]
    /\ UNCHANGED <<pausa, heredada, aviso, deuda, dicho>>

\* BEGIN and the audit row.  A failure is the generic except with quitado = False,
\* which logs how the file is.
Registrar(c) ==
    /\ pc[c] = "registrar" /\ NoToca
    /\ \/ Va(c, "borrar") /\ Callado
       \/ "base" \in fallas /\ Responde(c, "auditoria_fallida") /\ Anota
    /\ UNCHANGED <<heredada, antes, aviso>>

\* borrar_pausa.
Borrar(c) ==
    /\ pc[c] = "borrar"
    /\ Quita /\ Callado
    /\ Va(c, "confirmar")
    /\ UNCHANGED <<heredada, antes, aviso>>

\* _NadaQueQuitar: the file was not there, only nobody could look.  The transaction
\* rolls back, or the rollback raises.
NadaQueQuitar(c) ==
    /\ pc[c] = "borrar" /\ ~pausa /\ NoToca
    /\ \/ Responde(c, "igual") /\ Callado
       \/ "base" \in fallas /\ Responde(c, "auditoria_fallida") /\ Anota
    /\ UNCHANGED <<heredada, antes, aviso>>

\* The file is away, and is put back before the 500.
TrasFallar(c) == Va(c, "reponer")

\* Mutant of BorrarFalla: the exception says that nothing changed.
BorrarFallaConfiada(c) ==
    /\ pc[c] = "borrar" /\ "disco" \in fallas
    /\ NoToca \/ Quita
    /\ Responde(c, "no_escribible") /\ Callado
    /\ UNCHANGED <<heredada, antes, aviso>>

\* borrar_pausa raises, before the unlink or after it, and the transaction rolls
\* back: the file is looked at again.
BorrarFalla(c) ==
    /\ pc[c] = "borrar" /\ "disco" \in fallas
    /\ NoToca \/ Quita
    /\ \E puesto \in Miradas(pausa') :
          IF puesto THEN Responde(c, "no_escribible") ELSE TrasFallar(c)
    /\ Callado
    /\ UNCHANGED <<heredada, antes, aviso>>

\* The same, and the rollback raises too: its exception replaces that of the
\* file, and the generic except finds quitado = False.  It puts nothing back and
\* logs how the file is.
BorrarYDeshacerFallan(c) ==
    /\ pc[c] = "borrar" /\ {"disco", "base"} \subseteq fallas
    /\ NoToca \/ Quita
    /\ Responde(c, "auditoria_fallida") /\ Anota
    /\ UNCHANGED <<heredada, antes, aviso>>

\* The tabs are told only when the whole brake is seen off.
AvisaLiberado ==
    \E puesto \in Miradas(pausa \/ heredada) : aviso' = IF puesto THEN aviso ELSE "liberado"

\* The commit, and the answer.
Confirmar(c) ==
    /\ pc[c] = "confirmar"
    /\ AvisaLiberado
    /\ deuda' = FALSE
    /\ Responde(c, "cambio")
    /\ UNCHANGED <<pausa, heredada, antes, dicho>>

\* The commit fails, whether or not it reached the server.
ConfirmarFalla(c) ==
    /\ pc[c] = "confirmar" /\ "base" \in fallas
    /\ TrasFallar(c)
    /\ UNCHANGED <<pausa, heredada, antes, aviso, deuda, dicho>>

\* _reponer_de_emergencia: the file is back, even if the sync of the directory
\* failed, or it is not, which the log says if the file can be looked at.
Reponer(c) ==
    /\ pc[c] = "reponer"
    /\ Pone \/ ("disco" \in fallas /\ NoToca)
    /\ Responde(c, "auditoria_fallida") /\ Anota
    /\ UNCHANGED <<heredada, antes, aviso>>

-----------------------------------------------------------------------------
\* Somebody puts or removes the legacy file.
CambiarHeredada ==
    /\ heredada' = ~heredada
    /\ UNCHANGED <<pausa, pc, antes, resp, aviso, deuda, dicho>>

\* The process dies: an open transaction is rolled back, the tabs reconnect and
\* read the state.
Caida ==
    /\ "caida" \in fallas /\ ~Libre
    /\ pc' = [c \in Llamadas |-> "fuera"]
    /\ aviso' = "ninguno"
    /\ UNCHANGED <<pausa, heredada, antes, resp, deuda, dicho>>

Paso(c) ==
    \/ Activar(c) \/ Escribir(c) \/ EscribirFalla(c) \/ Difundir(c) \/ Auditar(c)
    \/ Reanudar(c) \/ Registrar(c) \/ Borrar(c) \/ NadaQueQuitar(c) \/ BorrarFalla(c)
    \/ BorrarYDeshacerFallan(c) \/ Confirmar(c) \/ ConfirmarFalla(c) \/ Reponer(c)

Next ==
    /\ (\E c \in Llamadas : Paso(c)) \/ CambiarHeredada \/ Caida
    /\ UNCHANGED fallas

Spec == Init /\ [][Next]_vars

-----------------------------------------------------------------------------
(* Properties *)

\* In this behaviour the file can always be looked at.  Otherwise pausa_presente
\* takes it as put, and a failed write that nobody can check is answered as a change
\* on purpose: everybody reads the brake as put.
SeMira == "mirar" \notin fallas

\* The file is the truth, never the exception: as long as it can be looked at, the
\* 200 says `cambio' exactly when this call changed the file, the 503 only when it
\* changed nothing, and the 500 leaves the brake put unless the log says that it is
\* not: whatever else fails, before its effect or after it, and in one call.
RespuestaVeraz ==
    [][SeMira => \A c \in Llamadas : (pc[c] # "fuera" /\ pc'[c] = "fuera") =>
         /\ resp'[c] = "cambio" => pausa' # antes[c]
         /\ resp'[c] \in {"igual", "no_escribible"} => pausa' = antes[c]
         /\ resp'[c] = "auditoria_fallida" => pausa' \/ dicho']_vars

\* What the generic except of reanudar says of a rollback that fails: the brake is
\* right all the same, because it is put back there.  So a 500 with the file away
\* comes only from a restore that was tried.
SiempreSeRepone ==
    [][\A c \in Llamadas :
         (pc[c] # "fuera" /\ pc'[c] = "fuera" /\ resp'[c] = "auditoria_fallida")
           => pausa' \/ pc[c] = "reponer"]_vars

\* When in doubt, braked: with no change in progress, no process killed in the
\* middle of one and a file that can be looked at, the brake is off only by a release
\* the audit records, unless the log says that it is off.
SueltoConAuditoria ==
    Libre /\ deuda => dicho \/ "caida" \in fallas \/ ~SeMira

\* Tabs that were last told the brake is off are right about the platform's file:
\* no activation, failed release or restore leaves them behind, as long as the file
\* can be looked at.
AvisoAlDia == Libre /\ aviso = "liberado" /\ SeMira => ~pausa

\* And when they were told, the legacy brake was off as well, whatever fails.
AvisoCompleto == [][aviso # "liberado" /\ aviso' = "liberado" => ~pausa /\ ~heredada]_vars
=============================================================================
