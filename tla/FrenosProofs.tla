-------------------------------- MODULE FrenosProofs ---------------------------
(***************************************************************************)
(* Proofs about the two brakes: KillSwitch, for any number of requests,    *)
(* and ExecutorMissions, for any requests and any changes of the pause.    *)
(* The truthfulness of the answers of the kill switch and of its events to *)
(* the tabs is proved with every failure, alone or together, and with      *)
(* crashes, as long as the file of the brake can be looked at; and so is   *)
(* its accounting, without crashes.  What is proved of the missions is     *)
(* proved for any combination of faults.                                   *)
(***************************************************************************)
EXTENDS KillSwitch, ExecutorMissions, TLAPS

-----------------------------------------------------------------------------
(* KillSwitch *)

\* What the step of the request that holds the lock says of the file; it has not
\* answered yet.
FrenoSegunPaso ==
    \A c \in Llamadas :
        /\ SeMira => /\ pc[c] = "escribir" => (antes[c] <=> pausa)
                     /\ pc[c] \in {"difundir", "auditar"} => pausa /\ ~antes[c]
                     /\ pc[c] \in {"registrar", "borrar"} => pausa
                     /\ pc[c] \in {"registrar", "borrar", "confirmar", "reponer"} => antes[c]
        /\ pc[c] \in {"confirmar", "reponer"} => ~pausa
        /\ pc[c] # "fuera" => resp[c] = "ninguna"

\* The tabs may be behind only while the lock is held, and never by a release.
AvisoSegunPaso ==
    SeMira =>
        /\ aviso = "liberado" /\ pausa => \E c \in Llamadas : pc[c] = "difundir"
        /\ \A c \in Llamadas : pc[c] \in {"confirmar", "reponer"} => aviso # "liberado"

\* The inductive invariant.
IInv == TypeOK /\ FrenoSegunPaso /\ AvisoSegunPaso

\* An unlink nobody audited is still being worked on, or the log names it.
DeudaSegunPaso ==
    /\ pausa => ~deuda
    /\ deuda => \/ dicho \/ "caida" \in fallas \/ ~SeMira
                \/ \E c \in Llamadas : pc[c] \in {"confirmar", "reponer"}

-----------------------------------------------------------------------------
(* Looks at the file *)

\* A look answers that the file is put whenever it is, and otherwise only when it
\* cannot be looked at.
LEMMA MirarCree ==
    ASSUME NEW esta \in BOOLEAN, NEW puesto \in Miradas(esta)
    PROVE  puesto \in BOOLEAN /\ (esta => puesto) /\ (SeMira => puesto = esta)
BY DEF Miradas, SeMira

\* The log says that the file is away only when it is, and does when it can be seen.
LEMMA LoDicho ==
    ASSUME TypeOK, pausa' \in BOOLEAN, Anota
    PROVE  /\ dicho' \in BOOLEAN
           /\ ~pausa' /\ (dicho \/ SeMira) => dicho'
<1>1. PICK puesto \in Miradas(pausa') : dicho' = ((dicho \/ ~puesto) /\ ~pausa')
  BY DEF Anota
<1>2. puesto \in BOOLEAN /\ (SeMira => puesto = pausa')
  BY <1>1, MirarCree
<1>3. QED
  BY <1>1, <1>2 DEF TypeOK

-----------------------------------------------------------------------------
(* Types *)

\* The initial state is well typed.
LEMMA TipoInicial == Init => TypeOK
BY DEF Init, TypeOK, Pasos, Respuestas

\* At most one request is inside when only c leaves or enters.
LEMMA UnoDentro ==
    ASSUME TypeOK, NEW c \in Llamadas, NEW p \in Pasos, pc' = [pc EXCEPT ![c] = p],
           pc[c] # "fuera" \/ Libre
    PROVE  /\ pc' \in [Llamadas -> Pasos]
           /\ \A x, y \in Llamadas : pc'[x] # "fuera" /\ pc'[y] # "fuera" => x = y
BY DEF TypeOK, Libre

\* Every step keeps the types.
LEMMA TipoDePaso == TypeOK /\ [Next]_vars => TypeOK'
<1> SUFFICES ASSUME TypeOK, [Next]_vars PROVE TypeOK'
  OBVIOUS
<1>0. fallas' = fallas
  BY DEF Next, vars
<1> USE <1>0 DEF TypeOK
<1>1. ASSUME NEW c \in Llamadas, Activar(c) PROVE TypeOK'
  <2>1. PICK puesto \in Miradas(pausa) : Empieza(c, "escribir", puesto)
    BY <1>1 DEF Activar
  <2>2. puesto \in BOOLEAN /\ (SeMira => puesto = pausa)
    BY <2>1, MirarCree
  <2>3. QED
    BY <1>1, <2>1, <2>2, UnoDentro DEF Activar, Empieza, Pasos, Respuestas
<1>2. ASSUME NEW c \in Llamadas, Escribir(c) PROVE TypeOK'
  BY <1>2, UnoDentro DEF Escribir, Pone, Callado, Responde, Va, Pasos, Respuestas
<1>3. ASSUME NEW c \in Llamadas, EscribirFalla(c) PROVE TypeOK'
  BY <1>3, UnoDentro DEF EscribirFalla, Pone, NoToca, Callado, Responde, Va, Pasos, Respuestas
<1>4. ASSUME NEW c \in Llamadas, Difundir(c) PROVE TypeOK'
  BY <1>4, UnoDentro DEF Difundir, AvisaActivado, Va, Pasos, Respuestas
<1>5. ASSUME NEW c \in Llamadas, Auditar(c) PROVE TypeOK'
  BY <1>5, UnoDentro DEF Auditar, Responde, Pasos, Respuestas
<1>6. ASSUME NEW c \in Llamadas, Reanudar(c) PROVE TypeOK'
  <2>1. PICK puesto \in Miradas(pausa) :
           \/ puesto /\ Empieza(c, "registrar", puesto)
           \/ ~puesto /\ Libre /\ Responde(c, "igual") /\ antes' = [antes EXCEPT ![c] = puesto]
    BY <1>6 DEF Reanudar
  <2>2. puesto \in BOOLEAN /\ (SeMira => puesto = pausa)
    BY <2>1, MirarCree
  <2>3. QED
    BY <1>6, <2>1, <2>2, UnoDentro DEF Reanudar, Empieza, Responde, Pasos, Respuestas
<1>7. ASSUME NEW c \in Llamadas, Registrar(c) PROVE TypeOK'
  BY <1>7, UnoDentro DEF Registrar, NoToca, Callado, Anota, Miradas, Va, Responde, Pasos, Respuestas
<1>8. ASSUME NEW c \in Llamadas, Borrar(c) PROVE TypeOK'
  BY <1>8, UnoDentro DEF Borrar, Quita, Callado, Va, Pasos, Respuestas
<1>9. ASSUME NEW c \in Llamadas, BorrarFalla(c) PROVE TypeOK'
  BY <1>9, UnoDentro DEF BorrarFalla, Miradas, NoToca, Quita, Callado, TrasFallar, Va, Responde, Pasos, Respuestas
<1>10. ASSUME NEW c \in Llamadas, BorrarYDeshacerFallan(c) PROVE TypeOK'
  BY <1>10, UnoDentro DEF BorrarYDeshacerFallan, NoToca, Quita, Anota, Miradas, Responde, Pasos, Respuestas
<1>11. ASSUME NEW c \in Llamadas, Confirmar(c) PROVE TypeOK'
  BY <1>11, UnoDentro DEF Confirmar, AvisaLiberado, Miradas, Responde, Pasos, Respuestas
<1>12. ASSUME NEW c \in Llamadas, ConfirmarFalla(c) PROVE TypeOK'
  BY <1>12, UnoDentro DEF ConfirmarFalla, TrasFallar, Va, Pasos, Respuestas
<1>13. ASSUME NEW c \in Llamadas, Reponer(c) PROVE TypeOK'
  BY <1>13, UnoDentro DEF Reponer, Pone, NoToca, Anota, Miradas, Responde, Pasos, Respuestas
<1>14. ASSUME NEW c \in Llamadas, NadaQueQuitar(c) PROVE TypeOK'
  BY <1>14, UnoDentro DEF NadaQueQuitar, NoToca, Callado, Anota, Miradas, Responde, Pasos, Respuestas
<1>15. CASE CambiarHeredada
  BY <1>15 DEF CambiarHeredada
<1>16. CASE Caida
  BY <1>16 DEF Caida, Pasos
<1>17. CASE UNCHANGED vars
  BY <1>17 DEF vars
<1> QED
  BY <1>1, <1>2, <1>3, <1>4, <1>5, <1>6, <1>7, <1>8, <1>9, <1>10, <1>11, <1>12, <1>13,
     <1>14, <1>15, <1>16, <1>17 DEF Next, Paso

\* Every reachable state is well typed and holds the lock at most once, for any
\* requests and any combination of faults.
THEOREM TiposCorrectos == Spec => []TypeOK
BY TipoInicial, TipoDePaso, PTL DEF Spec

-----------------------------------------------------------------------------
(* The inductive invariant *)

\* The file is what the step of the request says, after every step.
LEMMA FrenoDePaso == TypeOK /\ FrenoSegunPaso /\ [Next]_vars => FrenoSegunPaso'
<1> SUFFICES ASSUME TypeOK, FrenoSegunPaso, [Next]_vars PROVE FrenoSegunPaso'
  OBVIOUS
<1>0. fallas' = fallas
  BY DEF Next, vars
<1> USE <1>0 DEF TypeOK, FrenoSegunPaso, SeMira
<1>1. ASSUME NEW c \in Llamadas, Activar(c) PROVE FrenoSegunPaso'
  <2>1. PICK puesto \in Miradas(pausa) : Empieza(c, "escribir", puesto)
    BY <1>1 DEF Activar
  <2>2. puesto \in BOOLEAN /\ (SeMira => puesto = pausa)
    BY <2>1, MirarCree
  <2>3. QED
    BY <1>1, <2>1, <2>2 DEF Activar, Empieza, Libre
<1>2. ASSUME NEW c \in Llamadas, Escribir(c) PROVE FrenoSegunPaso'
  BY <1>2 DEF Escribir, Pone, Callado, Responde, Va
<1>3. ASSUME NEW c \in Llamadas, EscribirFalla(c) PROVE FrenoSegunPaso'
  <2>1. pausa' \in BOOLEAN
    BY <1>3 DEF EscribirFalla, Pone, NoToca
  <2>2. PICK puesto \in Miradas(pausa') :
           IF EsCambio(c, puesto) THEN Va(c, "difundir") ELSE Responde(c, "no_escribible")
    BY <1>3 DEF EscribirFalla
  <2>3. SeMira => puesto = pausa'
    BY <2>1, <2>2, MirarCree
  <2>4. QED
    BY <1>3, <2>1, <2>2, <2>3 DEF EscribirFalla, EsCambio, Pone, NoToca, Responde, Va
<1>4. ASSUME NEW c \in Llamadas, Difundir(c) PROVE FrenoSegunPaso'
  BY <1>4 DEF Difundir, AvisaActivado, Va
<1>5. ASSUME NEW c \in Llamadas, Auditar(c) PROVE FrenoSegunPaso'
  BY <1>5 DEF Auditar, Responde
<1>6. ASSUME NEW c \in Llamadas, Reanudar(c) PROVE FrenoSegunPaso'
  <2>1. PICK puesto \in Miradas(pausa) :
           \/ puesto /\ Empieza(c, "registrar", puesto)
           \/ ~puesto /\ Libre /\ Responde(c, "igual") /\ antes' = [antes EXCEPT ![c] = puesto]
    BY <1>6 DEF Reanudar
  <2>2. puesto \in BOOLEAN /\ (SeMira => puesto = pausa)
    BY <2>1, MirarCree
  <2>3. QED
    BY <1>6, <2>1, <2>2 DEF Reanudar, Empieza, Responde, Libre
<1>7. ASSUME NEW c \in Llamadas, Registrar(c) PROVE FrenoSegunPaso'
  BY <1>7 DEF Registrar, NoToca, Callado, Anota, Miradas, Va, Responde
<1>8. ASSUME NEW c \in Llamadas, Borrar(c) PROVE FrenoSegunPaso'
  BY <1>8 DEF Borrar, Quita, Callado, Va
<1>9. ASSUME NEW c \in Llamadas, BorrarFalla(c) PROVE FrenoSegunPaso'
  <2>1. pausa' \in BOOLEAN
    BY <1>9 DEF BorrarFalla, Quita, NoToca
  <2>2. PICK puesto \in Miradas(pausa') :
           IF puesto THEN Responde(c, "no_escribible") ELSE TrasFallar(c)
    BY <1>9 DEF BorrarFalla
  <2>3. puesto \in BOOLEAN /\ (pausa' => puesto) /\ (SeMira => puesto = pausa')
    BY <2>1, <2>2, MirarCree
  <2>4. QED
    BY <1>9, <2>1, <2>2, <2>3 DEF BorrarFalla, NoToca, Quita, TrasFallar, Va, Responde
<1>10. ASSUME NEW c \in Llamadas, BorrarYDeshacerFallan(c) PROVE FrenoSegunPaso'
  BY <1>10 DEF BorrarYDeshacerFallan, NoToca, Quita, Anota, Miradas, Responde
<1>11. ASSUME NEW c \in Llamadas, Confirmar(c) PROVE FrenoSegunPaso'
  BY <1>11 DEF Confirmar, AvisaLiberado, Miradas, Responde
<1>12. ASSUME NEW c \in Llamadas, ConfirmarFalla(c) PROVE FrenoSegunPaso'
  BY <1>12 DEF ConfirmarFalla, TrasFallar, Va
<1>13. ASSUME NEW c \in Llamadas, Reponer(c) PROVE FrenoSegunPaso'
  BY <1>13 DEF Reponer, Pone, NoToca, Anota, Miradas, Responde
<1>14. ASSUME NEW c \in Llamadas, NadaQueQuitar(c) PROVE FrenoSegunPaso'
  BY <1>14 DEF NadaQueQuitar, NoToca, Callado, Anota, Miradas, Responde
<1>15. CASE CambiarHeredada
  BY <1>15 DEF CambiarHeredada
<1>16. CASE Caida
  BY <1>16 DEF Caida
<1>17. CASE UNCHANGED vars
  BY <1>17 DEF vars
<1> QED
  BY <1>1, <1>2, <1>3, <1>4, <1>5, <1>6, <1>7, <1>8, <1>9, <1>10, <1>11, <1>12, <1>13,
     <1>14, <1>15, <1>16, <1>17 DEF Next, Paso

\* And so are the tabs.
LEMMA AvisoDePaso == IInv /\ [Next]_vars => AvisoSegunPaso'
<1> SUFFICES ASSUME IInv, [Next]_vars PROVE AvisoSegunPaso'
  OBVIOUS
<1>0. fallas' = fallas
  BY DEF Next, vars
<1> USE <1>0 DEF IInv, TypeOK, FrenoSegunPaso, AvisoSegunPaso, SeMira
<1>1. ASSUME NEW c \in Llamadas, Activar(c) PROVE AvisoSegunPaso'
  BY <1>1 DEF Activar, Miradas, Empieza, Libre
<1>2. ASSUME NEW c \in Llamadas, Escribir(c) PROVE AvisoSegunPaso'
  BY <1>2 DEF Escribir, Pone, Callado, Responde, Va
<1>3. ASSUME NEW c \in Llamadas, EscribirFalla(c) PROVE AvisoSegunPaso'
  BY <1>3 DEF EscribirFalla, EsCambio, Miradas, Pone, NoToca, Callado, Responde, Va
<1>4. ASSUME NEW c \in Llamadas, Difundir(c) PROVE AvisoSegunPaso'
  BY <1>4 DEF Difundir, AvisaActivado, Va
<1>5. ASSUME NEW c \in Llamadas, Auditar(c) PROVE AvisoSegunPaso'
  BY <1>5 DEF Auditar, Responde
<1>6. ASSUME NEW c \in Llamadas, Reanudar(c) PROVE AvisoSegunPaso'
  BY <1>6 DEF Reanudar, Miradas, Empieza, Responde, Libre
<1>7. ASSUME NEW c \in Llamadas, Registrar(c) PROVE AvisoSegunPaso'
  BY <1>7 DEF Registrar, NoToca, Callado, Anota, Miradas, Va, Responde
<1>8. ASSUME NEW c \in Llamadas, Borrar(c) PROVE AvisoSegunPaso'
  BY <1>8 DEF Borrar, Quita, Callado, Va
<1>9. ASSUME NEW c \in Llamadas, BorrarFalla(c) PROVE AvisoSegunPaso'
  BY <1>9 DEF BorrarFalla, Miradas, NoToca, Quita, Callado, TrasFallar, Va, Responde
<1>10. ASSUME NEW c \in Llamadas, BorrarYDeshacerFallan(c) PROVE AvisoSegunPaso'
  BY <1>10 DEF BorrarYDeshacerFallan, NoToca, Quita, Anota, Miradas, Responde
<1>11. ASSUME NEW c \in Llamadas, Confirmar(c) PROVE AvisoSegunPaso'
  BY <1>11 DEF Confirmar, AvisaLiberado, Miradas, Responde
<1>12. ASSUME NEW c \in Llamadas, ConfirmarFalla(c) PROVE AvisoSegunPaso'
  BY <1>12 DEF ConfirmarFalla, TrasFallar, Va
<1>13. ASSUME NEW c \in Llamadas, Reponer(c) PROVE AvisoSegunPaso'
  BY <1>13 DEF Reponer, Pone, NoToca, Anota, Miradas, Responde
<1>14. ASSUME NEW c \in Llamadas, NadaQueQuitar(c) PROVE AvisoSegunPaso'
  BY <1>14 DEF NadaQueQuitar, NoToca, Callado, Anota, Miradas, Responde
<1>15. CASE CambiarHeredada
  BY <1>15 DEF CambiarHeredada
<1>16. CASE Caida
  BY <1>16 DEF Caida
<1>17. CASE UNCHANGED vars
  BY <1>17 DEF vars
<1> QED
  BY <1>1, <1>2, <1>3, <1>4, <1>5, <1>6, <1>7, <1>8, <1>9, <1>10, <1>11, <1>12, <1>13,
     <1>14, <1>15, <1>16, <1>17 DEF Next, Paso

\* The invariant holds at the start and is kept.
THEOREM Invariante == Spec => []IInv
<1>1. Init => IInv
  BY TipoInicial DEF Init, IInv, FrenoSegunPaso, AvisoSegunPaso
<1>2. IInv /\ [Next]_vars => IInv'
  BY TipoDePaso, FrenoDePaso, AvisoDePaso DEF IInv
<1> QED
  BY <1>1, <1>2, PTL DEF Spec

-----------------------------------------------------------------------------
(* Answers and events: every fault, and crashes *)

\* The tabs that were last told the brake is off are right once no change of
\* the platform's file is in progress, as long as it can be looked at.
THEOREM LasPestanasNoQuedanAtras == Spec => []AvisoAlDia
<1>1. IInv => AvisoAlDia
  BY DEF IInv, AvisoSegunPaso, AvisoAlDia, Libre
<1> QED
  BY <1>1, Invariante, PTL

\* The tabs are told only when both files are away (AvisaLiberado), whatever fails:
\* a file that cannot be looked at counts as put.
THEOREM ElAvisoEsCompleto == Spec => AvisoCompleto
<1> DEFINE A == aviso # "liberado" /\ aviso' = "liberado" => ~pausa /\ ~heredada
<1>1. IInv /\ [Next]_vars => A
  <2> SUFFICES ASSUME IInv, [Next]_vars PROVE A
    OBVIOUS
  <2>1. ASSUME NEW c \in Llamadas, Confirmar(c) PROVE A
    BY <2>1 DEF Confirmar, AvisaLiberado, Miradas, IInv, FrenoSegunPaso
  <2>2. ASSUME NEW c \in Llamadas, Paso(c), ~Confirmar(c) PROVE A
    BY <2>2 DEF Paso, Activar, Escribir, EscribirFalla, Difundir, AvisaActivado, Auditar,
       Reanudar, Registrar, Borrar, NadaQueQuitar, BorrarFalla, BorrarYDeshacerFallan,
       ConfirmarFalla, Reponer
  <2> QED
    BY <2>1, <2>2 DEF Next, CambiarHeredada, Caida, vars
<1> QED
  BY <1>1, Invariante, PTL DEF Spec, AvisoCompleto

\* What one request answers is what happened to the file.
LEMMA RespuestaDePaso ==
    ASSUME IInv, [Next]_vars, SeMira, NEW x \in Llamadas, pc[x] # "fuera", pc'[x] = "fuera"
    PROVE  /\ resp'[x] = "cambio" => pausa' # antes[x]
           /\ resp'[x] \in {"igual", "no_escribible"} => pausa' = antes[x]
           /\ resp'[x] = "auditoria_fallida" => pausa' \/ dicho'
<1> USE DEF IInv, TypeOK, FrenoSegunPaso, SeMira
<1> DEFINE R == /\ resp'[x] = "cambio" => pausa' # antes[x]
                /\ resp'[x] \in {"igual", "no_escribible"} => pausa' = antes[x]
                /\ resp'[x] = "auditoria_fallida" => pausa' \/ dicho'
<1>1. ASSUME NEW c \in Llamadas, Activar(c) PROVE R
  BY <1>1 DEF Activar, Miradas, Empieza, Libre
<1>2. ASSUME NEW c \in Llamadas, Escribir(c) PROVE R
  BY <1>2 DEF Escribir, Pone, Callado, Responde, Va
<1>3. ASSUME NEW c \in Llamadas, EscribirFalla(c) PROVE R
  BY <1>3 DEF EscribirFalla, EsCambio, Miradas, Pone, NoToca, Callado, Responde, Va
<1>4. ASSUME NEW c \in Llamadas, Difundir(c) PROVE R
  BY <1>4 DEF Difundir, AvisaActivado, Va
<1>5. ASSUME NEW c \in Llamadas, Auditar(c) PROVE R
  BY <1>5 DEF Auditar, Responde
<1>6. ASSUME NEW c \in Llamadas, Reanudar(c) PROVE R
  BY <1>6 DEF Reanudar, Miradas, Empieza, Responde, Libre
<1>7. ASSUME NEW c \in Llamadas, Registrar(c) PROVE R
  BY <1>7 DEF Registrar, NoToca, Callado, Anota, Miradas, Va, Responde
<1>8. ASSUME NEW c \in Llamadas, Borrar(c) PROVE R
  BY <1>8 DEF Borrar, Quita, Callado, Va
<1>9. ASSUME NEW c \in Llamadas, BorrarFalla(c) PROVE R
  BY <1>9 DEF BorrarFalla, Miradas, NoToca, Quita, Callado, TrasFallar, Va, Responde
<1>10. ASSUME NEW c \in Llamadas, BorrarYDeshacerFallan(c) PROVE R
  BY <1>10 DEF BorrarYDeshacerFallan, NoToca, Quita, Anota, Miradas, Responde
<1>11. ASSUME NEW c \in Llamadas, Confirmar(c) PROVE R
  BY <1>11 DEF Confirmar, AvisaLiberado, Miradas, Responde
<1>12. ASSUME NEW c \in Llamadas, ConfirmarFalla(c) PROVE R
  BY <1>12 DEF ConfirmarFalla, TrasFallar, Va
<1>13. ASSUME NEW c \in Llamadas, Reponer(c) PROVE R
  BY <1>13 DEF Reponer, Pone, NoToca, Anota, Miradas, Responde
<1>14. ASSUME NEW c \in Llamadas, NadaQueQuitar(c) PROVE R
  BY <1>14 DEF NadaQueQuitar, NoToca, Callado, Anota, Miradas, Responde
<1>15. CASE CambiarHeredada
  BY <1>15 DEF CambiarHeredada
<1>16. CASE Caida
  BY <1>16 DEF Caida
<1>17. CASE UNCHANGED vars
  BY <1>17 DEF vars
<1> QED
  BY <1>1, <1>2, <1>3, <1>4, <1>5, <1>6, <1>7, <1>8, <1>9, <1>10, <1>11, <1>12, <1>13,
     <1>14, <1>15, <1>16, <1>17 DEF Next, Paso

\* As long as the file can be looked at, the 200 says `cambio' exactly when this call
\* changed the file, the 503 only when it changed nothing, and the 500 leaves the
\* brake put or a log entry saying that it is not: whatever else fails.
THEOREM LaRespuestaEsVeraz == Spec => RespuestaVeraz
<1>1. IInv /\ [Next]_vars => (SeMira =>
        \A c \in Llamadas : (pc[c] # "fuera" /\ pc'[c] = "fuera") =>
          /\ resp'[c] = "cambio" => pausa' # antes[c]
          /\ resp'[c] \in {"igual", "no_escribible"} => pausa' = antes[c]
          /\ resp'[c] = "auditoria_fallida" => pausa' \/ dicho')
  BY RespuestaDePaso
<1> QED
  BY <1>1, Invariante, PTL DEF Spec, RespuestaVeraz

-----------------------------------------------------------------------------
(* The accounting of the brake *)

\* The account follows the unlinks.
LEMMA DeudaDePaso ==
    ASSUME IInv, DeudaSegunPaso, [Next]_vars
    PROVE  DeudaSegunPaso'
<1>0. fallas' = fallas
  BY DEF Next, vars
<1> USE <1>0 DEF IInv, TypeOK, FrenoSegunPaso, DeudaSegunPaso, SeMira
<1>1. ASSUME NEW c \in Llamadas, Activar(c) PROVE DeudaSegunPaso'
  BY <1>1 DEF Activar, Miradas, Empieza, Libre
<1>2. ASSUME NEW c \in Llamadas, Escribir(c) PROVE DeudaSegunPaso'
  BY <1>2 DEF Escribir, Pone, Callado, Responde, Va
<1>3. ASSUME NEW c \in Llamadas, EscribirFalla(c) PROVE DeudaSegunPaso'
  BY <1>3 DEF EscribirFalla, EsCambio, Miradas, Pone, NoToca, Callado, Responde, Va
<1>4. ASSUME NEW c \in Llamadas, Difundir(c) PROVE DeudaSegunPaso'
  BY <1>4 DEF Difundir, AvisaActivado, Va
<1>5. ASSUME NEW c \in Llamadas, Auditar(c) PROVE DeudaSegunPaso'
  BY <1>5 DEF Auditar, Responde
<1>6. ASSUME NEW c \in Llamadas, Reanudar(c) PROVE DeudaSegunPaso'
  BY <1>6 DEF Reanudar, Miradas, Empieza, Responde, Libre
<1>7. ASSUME NEW c \in Llamadas, Registrar(c) PROVE DeudaSegunPaso'
  BY <1>7 DEF Registrar, NoToca, Callado, Anota, Miradas, Va, Responde
<1>8. ASSUME NEW c \in Llamadas, Borrar(c) PROVE DeudaSegunPaso'
  BY <1>8 DEF Borrar, Quita, Callado, Va
<1>9. ASSUME NEW c \in Llamadas, BorrarFalla(c) PROVE DeudaSegunPaso'
  <2>1. pausa' \in BOOLEAN
    BY <1>9 DEF BorrarFalla, Quita, NoToca
  <2>2. PICK puesto \in Miradas(pausa') :
           IF puesto THEN Responde(c, "no_escribible") ELSE TrasFallar(c)
    BY <1>9 DEF BorrarFalla
  <2>3. puesto \in BOOLEAN /\ (pausa' => puesto) /\ (SeMira => puesto = pausa')
    BY <2>1, <2>2, MirarCree
  <2>4. QED
    BY <1>9, <2>1, <2>2, <2>3 DEF BorrarFalla, NoToca, Quita, Callado, TrasFallar, Va, Responde
<1>10. ASSUME NEW c \in Llamadas, BorrarYDeshacerFallan(c) PROVE DeudaSegunPaso'
  <2>1. pausa' \in BOOLEAN /\ Anota
    BY <1>10 DEF BorrarYDeshacerFallan, Quita, NoToca
  <2>2. ~pausa' /\ (dicho \/ SeMira) => dicho'
    BY <2>1, LoDicho
  <2>3. QED
    BY <1>10, <2>1, <2>2 DEF BorrarYDeshacerFallan, NoToca, Quita, Responde
<1>11. ASSUME NEW c \in Llamadas, Confirmar(c) PROVE DeudaSegunPaso'
  BY <1>11 DEF Confirmar, AvisaLiberado, Miradas, Responde
<1>12. ASSUME NEW c \in Llamadas, ConfirmarFalla(c) PROVE DeudaSegunPaso'
  BY <1>12 DEF ConfirmarFalla, TrasFallar, Va
<1>13. ASSUME NEW c \in Llamadas, Reponer(c) PROVE DeudaSegunPaso'
  <2>1. pausa' \in BOOLEAN /\ Anota
    BY <1>13 DEF Reponer, Pone, NoToca
  <2>2. ~pausa' /\ (dicho \/ SeMira) => dicho'
    BY <2>1, LoDicho
  <2>3. QED
    BY <1>13, <2>1, <2>2 DEF Reponer, Pone, NoToca, Responde
<1>14. ASSUME NEW c \in Llamadas, NadaQueQuitar(c) PROVE DeudaSegunPaso'
  BY <1>14 DEF NadaQueQuitar, NoToca, Callado, Anota, Miradas, Responde
<1>15. CASE CambiarHeredada
  BY <1>15 DEF CambiarHeredada
<1>16. CASE Caida
  BY <1>16 DEF Caida
<1>17. CASE UNCHANGED vars
  BY <1>17 DEF vars
<1> QED
  BY <1>1, <1>2, <1>3, <1>4, <1>5, <1>6, <1>7, <1>8, <1>9, <1>10, <1>11, <1>12, <1>13,
     <1>14, <1>15, <1>16, <1>17 DEF Next, Paso

\* With no change in progress, no process killed and a file that can be looked at,
\* the brake is off only by a release the audit records, unless the log says that it
\* is off: also when the disk and the database fail in one call.
THEOREM SoloSeSueltaConAuditoria == Spec => []SueltoConAuditoria
<1>1. Init => DeudaSegunPaso
  BY DEF Init, DeudaSegunPaso
<1>2. IInv /\ DeudaSegunPaso /\ [Next]_vars => DeudaSegunPaso'
  BY DeudaDePaso
<1>3. DeudaSegunPaso => SueltoConAuditoria
  BY DEF DeudaSegunPaso, SueltoConAuditoria, Libre
<1> QED
  BY <1>1, <1>2, <1>3, Invariante, PTL DEF Spec

-----------------------------------------------------------------------------
(* ExecutorMissions *)

\* At most one row is open.
UnaFila == \A t, q \in Turnos : estado[t] = "en_curso" /\ estado[q] = "en_curso" => t = q

\* Who is about to insert the row saw no open one, and its turn is nothing yet.
Espera ==
    \A t \in Turnos :
        /\ pedido[t] = "insertar" => ~HayTurno
        /\ pedido[t] # "fin" => estado[t] = "nada" /\ tarea[t] = "no" /\ ~runner[t]

\* A process that is down runs nothing.
Abajo == ~servicio => \A t \in Turnos : tarea[t] = "no" /\ ~runner[t] /\ pedido[t] \notin DentroDeLanzamiento

\* Without failures of the database a task, or a subprocess, is of an open row, and
\* a subprocess is of a task that reads it.
ConFila ==
    "base" \notin fallasEM => \A t \in Turnos :
        /\ tarea[t] # "no" => estado[t] = "en_curso"
        /\ runner[t] => tarea[t] = "corre"

\* The terminal event that was read is in the log.
Anotado == \A t \in Turnos : salida[t].visto => evento[t]

\* Who is past the pause while it is put has not been followed by anybody.
TrasLaPausa ==
    /\ trasPausa <= 1
    /\ freno /\ (\E t \in Turnos : pedido[t] \in {"turno", "insertar"}) => trasPausa = 0

\* The inductive invariant.
EMInv == EMTypeOK /\ UnaFila /\ Espera /\ Abajo /\ ConFila /\ Anotado /\ TrasLaPausa

-----------------------------------------------------------------------------
(* Types *)

\* The initial state is well typed, and the rest of the invariant holds in it.
LEMMA EMInicio == EMInit => EMInv
<1> SUFFICES ASSUME EMInit PROVE EMInv
  OBVIOUS
<1> USE MisionesSupuestos
<1>1. EMTypeOK
  BY DEF EMInit, EMTypeOK, DentroDeLanzamiento, EstadosDeTurno, Terminales, Salidas, SinSalida, SinResultado
<1>2. UnaFila /\ Espera /\ Abajo /\ ConFila /\ TrasLaPausa
  BY DEF EMInit, UnaFila, Espera, Abajo, ConFila, TrasLaPausa, HayTurno
<1>3. Anotado
  BY DEF EMInit, Anotado, SinSalida
<1>4. QED
  BY <1>1, <1>2, <1>3 DEF EMInv

\* The parts of the type invariant that a step may leave alone together.
TipoDePedido ==
    /\ fallasEM \in EntornosEM /\ servicio \in BOOLEAN
    /\ lanzamiento \in Turnos \union {SinTurno}
    /\ pedido \in [Turnos -> {"fuera", "fin"} \union DentroDeLanzamiento]
    /\ \A t \in Turnos : pedido[t] \in DentroDeLanzamiento <=> lanzamiento = t

TipoDeBase ==
    /\ mision \in [Turnos -> Turnos \union {SinTurno}]
    /\ estado \in [Turnos -> EstadosDeTurno]
    /\ sesion \in [Turnos -> BOOLEAN] /\ evento \in [Turnos -> BOOLEAN]

TipoDeProceso ==
    /\ tarea \in [Turnos -> {"no", "lanzada", "corre", "cierra", "revienta"}]
    /\ runner \in [Turnos -> BOOLEAN] /\ salida \in [Turnos -> Salidas]

TipoDeFreno ==
    /\ freno \in BOOLEAN /\ trasPausa \in Nat
    /\ cambioDe \in [CambiosDePausa -> {"fuera", "auditar", "confirmar", "reponer"}]
    /\ \A c, d \in CambiosDePausa : cambioDe[c] # "fuera" /\ cambioDe[d] # "fuera" => c = d

LEMMA TiposPorPartes ==
    /\ EMTypeOK <=> TipoDePedido /\ TipoDeBase /\ TipoDeProceso /\ TipoDeFreno
    /\ EMTypeOK' <=> TipoDePedido' /\ TipoDeBase' /\ TipoDeProceso' /\ TipoDeFreno'
BY DEF EMTypeOK, TipoDePedido, TipoDeBase, TipoDeProceso, TipoDeFreno

\* A request of a turn that goes on or is answered keeps the lock with who holds it.
LEMMA PedidoSigue ==
    ASSUME TipoDePedido, NEW t \in Turnos, NEW desde \in DentroDeLanzamiento,
           NEW hacia \in DentroDeLanzamiento, Sigue(t, desde, hacia)
    PROVE  TipoDePedido'
BY DEF TipoDePedido, Sigue

LEMMA PedidoContesta ==
    ASSUME TipoDePedido, NEW t \in Turnos, NEW desde \in DentroDeLanzamiento, Contesta(t, desde)
    PROVE  TipoDePedido' /\ \A q \in Turnos : pedido'[q] \notin DentroDeLanzamiento
<1>1. lanzamiento = t
  BY DEF TipoDePedido, Contesta
<1>2. TipoDePedido'
  BY <1>1, MisionesSupuestos DEF TipoDePedido, Contesta, DentroDeLanzamiento
<1>3. QED
  BY <1>1, <1>2, MisionesSupuestos DEF TipoDePedido, Contesta

LEMMA CierraTipos ==
    ASSUME TipoDeBase, NEW t \in Turnos, NEW como \in Terminales, NEW inicio \in BOOLEAN,
           NEW visto \in BOOLEAN, Cierra(t, como, inicio, visto)
    PROVE  /\ estado' \in [Turnos -> EstadosDeTurno]
           /\ sesion' \in [Turnos -> BOOLEAN] /\ evento' \in [Turnos -> BOOLEAN]
BY DEF TipoDeBase, Cierra, EstadosDeTurno
\* Every step keeps the types.
LEMMA EMTipos == EMTypeOK /\ [EMNext]_EMvars => EMTypeOK'
<1> SUFFICES ASSUME EMTypeOK, [EMNext]_EMvars PROVE TipoDePedido' /\ TipoDeBase' /\ TipoDeProceso' /\ TipoDeFreno'
  BY TiposPorPartes
<1> TipoDePedido /\ TipoDeBase /\ TipoDeProceso /\ TipoDeFreno
  BY TiposPorPartes
<1> USE MisionesSupuestos
<1>p. ASSUME UNCHANGED <<fallasEM, servicio, lanzamiento, pedido>> PROVE TipoDePedido'
  BY <1>p DEF TipoDePedido
<1>b. ASSUME UNCHANGED base PROVE TipoDeBase'
  BY <1>b DEF TipoDeBase, base
<1>r. ASSUME UNCHANGED proceso PROVE TipoDeProceso'
  BY <1>r DEF TipoDeProceso, proceso
<1>f. ASSUME UNCHANGED <<frenoVars, trasPausa>> PROVE TipoDeFreno'
  BY <1>f DEF TipoDeFreno, frenoVars
<1>1. CASE UNCHANGED EMvars
  BY <1>1, <1>p, <1>b, <1>r, <1>f DEF EMvars
<1>2. ASSUME NEW t \in Turnos, Entrar(t) PROVE TipoDePedido' /\ TipoDeBase' /\ TipoDeProceso' /\ TipoDeFreno'
  <2>1. TipoDePedido'
    BY <1>2 DEF Entrar, Disponible, TipoDePedido, DentroDeLanzamiento
  <2>2. QED
    BY <1>2, <2>1, <1>b, <1>r, <1>f DEF Entrar
<1>3. ASSUME NEW t \in Turnos, Rechazar(t) PROVE TipoDePedido' /\ TipoDeBase' /\ TipoDeProceso' /\ TipoDeFreno'
  BY <1>3, <1>b, <1>r, <1>f, PedidoContesta DEF Rechazar
<1>4. ASSUME NEW t \in Turnos, MirarPausa(t) PROVE TipoDePedido' /\ TipoDeBase' /\ TipoDeProceso' /\ TipoDeFreno'
  <2>1. TipoDePedido'
    BY <1>4, PedidoContesta, PedidoSigue DEF MirarPausa, DentroDeLanzamiento
  <2>2. QED
    BY <1>4, <2>1, <1>b, <1>r, <1>f DEF MirarPausa
<1>5. ASSUME NEW t \in Turnos, MirarTurno(t) PROVE TipoDePedido' /\ TipoDeBase' /\ TipoDeProceso' /\ TipoDeFreno'
  <2>1. TipoDePedido'
    BY <1>5, PedidoContesta, PedidoSigue DEF MirarTurno, DentroDeLanzamiento
  <2>2. QED
    BY <1>5, <2>1, <1>b, <1>r, <1>f DEF MirarTurno
<1>6. ASSUME NEW t \in Turnos, Insertar(t) PROVE TipoDePedido' /\ TipoDeBase' /\ TipoDeProceso' /\ TipoDeFreno'
  <2>1. TipoDePedido'
    BY <1>6, PedidoContesta DEF Insertar, DentroDeLanzamiento
  <2>2. TipoDeBase'
    BY <1>6 DEF Insertar, TipoDeBase, EstadosDeTurno
  <2>3. TipoDeProceso'
    BY <1>6 DEF Insertar, TipoDeProceso
  <2>4. trasPausa' \in Nat
    BY <1>6 DEF Insertar, TipoDeFreno
  <2>5. TipoDeFreno'
    BY <1>6, <2>4 DEF Insertar, TipoDeFreno, frenoVars
  <2>6. QED
    BY <2>1, <2>2, <2>3, <2>5
<1>t. ASSUME NEW t \in Turnos, NEW desde, NEW hacia \in {"corre", "cierra", "revienta", "no"},
             PasoDeTarea(t, desde, hacia)
      PROVE  /\ TipoDePedido' /\ TipoDeFreno' /\ mision' = mision
             /\ tarea' \in [Turnos -> {"no", "lanzada", "corre", "cierra", "revienta"}]
  BY <1>t, <1>p, <1>f DEF PasoDeTarea, TipoDeProceso
<1>7. ASSUME NEW t \in Turnos, Arrancar(t) PROVE TipoDePedido' /\ TipoDeBase' /\ TipoDeProceso' /\ TipoDeFreno'
  BY <1>7, <1>t DEF Arrancar, TipoDeProceso, TipoDeBase
<1>8. ASSUME NEW t \in Turnos, Anotar(t) PROVE TipoDePedido' /\ TipoDeBase' /\ TipoDeProceso' /\ TipoDeFreno'
  <2>1. CASE PasoDeTarea(t, "corre", "corre") /\ evento' = [evento EXCEPT ![t] = TRUE]
             /\ salida' = [salida EXCEPT ![t].visto = TRUE]
    <3>1. [salida[t] EXCEPT !.visto = TRUE] \in Salidas
      BY DEF TipoDeProceso, Salidas
    <3>2. salida' \in [Turnos -> Salidas]
      BY <2>1, <3>1 DEF TipoDeProceso
    <3>3. TipoDeProceso'
      BY <1>8, <2>1, <3>2, <1>t DEF Anotar, TipoDeProceso
    <3>4. TipoDeBase'
      BY <1>8, <2>1, <1>t DEF Anotar, TipoDeBase
    <3>5. QED
      BY <2>1, <3>3, <3>4, <1>t
  <2>2. CASE PasoDeTarea(t, "corre", "revienta") /\ (\E b \in {evento[t], TRUE} : evento' = [evento EXCEPT ![t] = b])
             /\ UNCHANGED salida
    BY <1>8, <2>2, <1>t DEF Anotar, TipoDeProceso, TipoDeBase
  <2>3. QED
    BY <1>8, <2>1, <2>2 DEF Anotar
<1>9. ASSUME NEW t \in Turnos, Terminar(t) PROVE TipoDePedido' /\ TipoDeBase' /\ TipoDeProceso' /\ TipoDeFreno'
  <2>1. PICK r \in Terminales \union {SinResultado} : salida' = [salida EXCEPT ![t].dice = r]
    BY <1>9 DEF Terminar
  <2>2. [salida[t] EXCEPT !.dice = r] \in Salidas
    BY DEF TipoDeProceso, Salidas
  <2>3. salida' \in [Turnos -> Salidas]
    BY <2>1, <2>2 DEF TipoDeProceso
  <2>4. TipoDeProceso'
    BY <1>9, <2>3, <1>t DEF Terminar, TipoDeProceso
  <2>5. QED
    BY <1>9, <2>4, <1>t DEF Terminar, TipoDeBase
<1>10. ASSUME NEW t \in Turnos, Abandonado(t) PROVE TipoDePedido' /\ TipoDeBase' /\ TipoDeProceso' /\ TipoDeFreno'
  BY <1>10, <1>p, <1>b, <1>f DEF Abandonado, TipoDeProceso
<1>11. ASSUME NEW t \in Turnos, Cerrar(t) PROVE TipoDePedido' /\ TipoDeBase' /\ TipoDeProceso' /\ TipoDeFreno'
  <2>1. salida[t].dice \in Terminales \union {SinResultado} /\ salida[t].visto \in BOOLEAN
    BY DEF TipoDeProceso, Salidas
  <2>2. PICK inicio \in BOOLEAN, como \in Terminales :
            \/ Cierra(t, como, inicio, salida[t].visto) /\ PasoDeTarea(t, "cierra", "no")
            \/ /\ PasoDeTarea(t, "cierra", "revienta")
               /\ Cierra(t, como, inicio, salida[t].visto) \/ UNCHANGED <<estado, sesion, evento>>
    BY <1>11, <2>1 DEF Cerrar, Terminales
  <2>3. /\ estado' \in [Turnos -> EstadosDeTurno]
        /\ sesion' \in [Turnos -> BOOLEAN] /\ evento' \in [Turnos -> BOOLEAN]
    BY <2>1, <2>2, CierraTipos DEF TipoDeBase
  <2>4. QED
    BY <1>11, <2>2, <2>3, <1>t DEF Cerrar, TipoDeBase, TipoDeProceso
<1>12. ASSUME NEW t \in Turnos, CerrarConError(t) PROVE TipoDePedido' /\ TipoDeBase' /\ TipoDeProceso' /\ TipoDeFreno'
  <2>1. /\ estado' \in [Turnos -> EstadosDeTurno]
        /\ sesion' \in [Turnos -> BOOLEAN] /\ evento' \in [Turnos -> BOOLEAN]
    BY <1>12, CierraTipos DEF CerrarConError, TipoDeBase, Terminales
  <2>2. QED
    BY <1>12, <2>1, <1>t DEF CerrarConError, TipoDeBase, TipoDeProceso
<1>13. ASSUME CaidaEM PROVE TipoDePedido' /\ TipoDeBase' /\ TipoDeProceso' /\ TipoDeFreno'
  <2>1. TipoDePedido'
    BY <1>13 DEF CaidaEM, TipoDePedido, DentroDeLanzamiento
  <2>2. QED
    BY <1>13, <2>1, <1>b DEF CaidaEM, TipoDeProceso, TipoDeFreno
<1>14. ASSUME Reiniciar PROVE TipoDePedido' /\ TipoDeBase' /\ TipoDeProceso' /\ TipoDeFreno'
  <2>1. TipoDePedido'
    BY <1>14 DEF Reiniciar, TipoDePedido
  <2>2. TipoDeBase'
    BY <1>14 DEF Reiniciar, TipoDeBase, EstadosDeTurno
  <2>3. QED
    BY <1>14, <2>1, <2>2, <1>r, <1>f DEF Reiniciar
<1>c. ASSUME NEW c \in CambiosDePausa, DePausa(c) PROVE TipoDePedido' /\ TipoDeBase' /\ TipoDeProceso' /\ TipoDeFreno'
  <2>1. UNCHANGED <<fallasEM, servicio, lanzamiento, pedido, base, proceso>>
    BY <1>c DEF DePausa, PonerPausa, AuditarPausa, QuitarPausa, ConfirmarPausa, ReponerPausa, PasoDePausa
  <2>i. Pausa \/ Suelta \/ IgualPausa
    BY <1>c DEF DePausa, PonerPausa, AuditarPausa, QuitarPausa, ConfirmarPausa, ReponerPausa
  <2>a. freno' \in BOOLEAN
    BY <2>i, Zenon DEF Pausa, Suelta, IgualPausa, TipoDeFreno
  <2>b. trasPausa' \in Nat
    BY <2>i DEF Pausa, Suelta, IgualPausa, TipoDeFreno
  <2>2. freno' \in BOOLEAN /\ trasPausa' \in Nat
    BY <2>a, <2>b
  <2>3. PICK desde \in {"fuera", "auditar", "confirmar", "reponer"}, hacia \in {"fuera", "auditar", "confirmar", "reponer"} :
            PasoDePausa(c, desde, hacia) /\ (desde = "fuera" => NadieCambia)
    BY <1>c DEF DePausa, PonerPausa, AuditarPausa, QuitarPausa, ConfirmarPausa, ReponerPausa
  <2>4. \A d \in CambiosDePausa : d # c => cambioDe[d] = "fuera"
    BY <2>3 DEF PasoDePausa, NadieCambia, TipoDeFreno
  <2>5. /\ cambioDe' \in [CambiosDePausa -> {"fuera", "auditar", "confirmar", "reponer"}]
        /\ \A d \in CambiosDePausa : d # c => cambioDe'[d] = "fuera"
    BY <2>3, <2>4 DEF PasoDePausa, TipoDeFreno
  <2>6. TipoDeFreno'
    BY <2>2, <2>5 DEF TipoDeFreno
  <2>7. QED
    BY <2>1, <2>6, <1>p, <1>b, <1>r
<1>15. ASSUME PausaAjena PROVE TipoDePedido' /\ TipoDeBase' /\ TipoDeProceso' /\ TipoDeFreno'
  BY <1>15, <1>p, <1>b, <1>r DEF PausaAjena, Pausa, TipoDeFreno
<1>16. QED
  BY <1>1, <1>2, <1>3, <1>4, <1>5, <1>6, <1>7, <1>8, <1>9, <1>10, <1>11, <1>12, <1>13, <1>14, <1>c,
     <1>15 DEF EMNext, DeTurno
-----------------------------------------------------------------------------
(* The rest of the invariant *)

Resto == UnaFila /\ Espera /\ Abajo /\ ConFila /\ Anotado /\ TrasLaPausa

\* A close, of a turn whose request was answered, opens no row and writes over none.
NoAbre ==
    \A q \in Turnos :
        /\ estado'[q] = "en_curso" => estado[q] = "en_curso"
        /\ estado[q] = "nada" => estado'[q] = "nada"
        /\ evento[q] => evento'[q]
        /\ estado'[q] # estado[q] => estado[q] = "en_curso" /\ evento'[q]

LEMMA CierraNoAbre ==
    ASSUME TipoDeBase, NEW t \in Turnos, NEW como \in Terminales, NEW inicio \in BOOLEAN,
           NEW visto \in BOOLEAN, Cierra(t, como, inicio, visto), visto => evento[t]
    PROVE  /\ NoAbre /\ estado'[t] # "en_curso"
           /\ \A q \in Turnos : q # t => estado'[q] = estado[q]
BY DEF TipoDeBase, Cierra, NoAbre, Terminales

\* How each close is one: of a row that is closed after it when the database works.
LEMMA Cierres ==
    ASSUME EMTypeOK, Anotado, NEW t \in Turnos, Cerrar(t) \/ CerrarConError(t)
    PROVE  /\ NoAbre /\ tarea[t] \in {"cierra", "revienta"}
           /\ \A q \in Turnos : q # t => estado'[q] = estado[q]
           /\ \E hacia \in {"no", "revienta"} : PasoDeTarea(t, tarea[t], hacia)
           /\ UNCHANGED <<runner, salida>>
           /\ "base" \notin fallasEM => tarea'[t] = "no" /\ estado'[t] # "en_curso"
<1> TipoDeBase /\ TipoDeProceso
  BY TiposPorPartes
<1> DEFINE Q == NoAbre /\ (\A q \in Turnos : q # t => estado'[q] = estado[q])
<1>1. salida[t].dice \in Terminales \union {SinResultado} /\ salida[t].visto \in BOOLEAN
      /\ (salida[t].visto => evento[t])
  BY DEF TipoDeProceso, Salidas, Anotado
<1>2. ASSUME UNCHANGED <<estado, sesion, evento>> PROVE Q
  BY <1>2 DEF NoAbre
<1>3. ASSUME NEW hacia, PasoDeTarea(t, "cierra", hacia) \/ PasoDeTarea(t, "revienta", hacia)
      PROVE  tarea'[t] = hacia
  BY <1>3 DEF PasoDeTarea, TipoDeProceso
<1>4. CASE Cerrar(t)
  <2>1. PICK inicio \in BOOLEAN, como \in Terminales :
            \/ Cierra(t, como, inicio, salida[t].visto) /\ PasoDeTarea(t, "cierra", "no")
            \/ /\ "base" \in fallasEM /\ PasoDeTarea(t, "cierra", "revienta")
               /\ Cierra(t, como, inicio, salida[t].visto) \/ UNCHANGED <<estado, sesion, evento>>
    BY <1>4, <1>1 DEF Cerrar, Terminales
  <2>2. ASSUME Cierra(t, como, inicio, salida[t].visto) PROVE Q /\ estado'[t] # "en_curso"
    BY <2>2, <1>1, CierraNoAbre
  <2>3. tarea[t] = "cierra" /\ UNCHANGED <<runner, salida>>
    BY <1>4, <2>1 DEF PasoDeTarea, Cerrar
  <2>4. QED
    BY <2>1, <2>2, <2>3, <1>2, <1>3
<1>5. CASE CerrarConError(t)
  <2>1. ASSUME Cierra(t, "fallido", FALSE, FALSE) PROVE Q /\ estado'[t] # "en_curso"
    BY <2>1, CierraNoAbre DEF Terminales
  <2>2. tarea[t] = "revienta" /\ PasoDeTarea(t, "revienta", "no") /\ UNCHANGED <<runner, salida>>
    BY <1>5 DEF PasoDeTarea, CerrarConError
  <2>3. QED
    BY <1>5, <2>1, <2>2, <1>2, <1>3 DEF CerrarConError
<1>6. QED
  BY <1>4, <1>5

\* Every step keeps the rest of the invariant.
LEMMA EMResto == EMInv /\ [EMNext]_EMvars => Resto'
<1> SUFFICES ASSUME EMInv, [EMNext]_EMvars PROVE Resto'
  OBVIOUS
<1> USE DEF EMInv, Resto
<1> TipoDePedido /\ TipoDeBase /\ TipoDeProceso /\ TipoDeFreno
  BY TiposPorPartes
<1>1. ASSUME UNCHANGED <<fallasEM, base, proceso>> PROVE UnaFila' /\ ConFila' /\ Anotado'
  BY <1>1 DEF UnaFila, ConFila, Anotado, base, proceso
<1>2. ASSUME UNCHANGED <<servicio, pedido, base, proceso>> PROVE Espera' /\ Abajo'
  BY <1>2 DEF Espera, Abajo, HayTurno, base, proceso
<1>3. ASSUME UNCHANGED <<pedido, freno, trasPausa>> PROVE TrasLaPausa'
  BY <1>3 DEF TrasLaPausa
<1>4. CASE UNCHANGED EMvars
  BY <1>4, <1>1, <1>2, <1>3 DEF EMvars, frenoVars
<1>5. ASSUME NEW t \in Turnos, Entrar(t) PROVE Resto'
  <2>1. Espera' /\ Abajo'
    BY <1>5 DEF Entrar, Espera, Abajo, HayTurno, TipoDePedido, base, proceso
  <2>2. TrasLaPausa'
    BY <1>5 DEF Entrar, TrasLaPausa, TipoDePedido, frenoVars
  <2>3. QED
    BY <1>5, <1>1, <2>1, <2>2 DEF Entrar
\* A request that is answered without a turn.
<1>6. ASSUME NEW t \in Turnos, NEW paso \in DentroDeLanzamiento, Contesta(t, paso),
             UNCHANGED <<base, proceso, frenoVars, trasPausa>>
      PROVE  Resto'
  <2>1. Espera' /\ Abajo'
    BY <1>6 DEF Contesta, Espera, Abajo, HayTurno, TipoDePedido, base, proceso, DentroDeLanzamiento
  <2>2. TrasLaPausa'
    BY <1>6 DEF Contesta, TrasLaPausa, TipoDePedido, frenoVars
  <2>3. QED
    BY <1>6, <1>1, <2>1, <2>2 DEF Contesta
<1>7. ASSUME NEW t \in Turnos, Rechazar(t) PROVE Resto'
  BY <1>7, <1>6 DEF Rechazar
<1>8. ASSUME NEW t \in Turnos, MirarPausa(t) PROVE Resto'
  <2>1. CASE Contesta(t, "pausa")
    BY <1>8, <2>1, <1>6 DEF MirarPausa, DentroDeLanzamiento
  <2>2. CASE ~freno /\ Sigue(t, "pausa", "turno")
    <3>1. Espera' /\ Abajo'
      BY <1>8, <2>2 DEF MirarPausa, Sigue, Espera, Abajo, HayTurno, TipoDePedido, base, proceso, DentroDeLanzamiento
    <3>2. TrasLaPausa'
      BY <1>8, <2>2 DEF MirarPausa, TrasLaPausa, frenoVars
    <3>3. QED
      BY <1>8, <2>2, <1>1, <3>1, <3>2 DEF MirarPausa, Sigue
  <2>3. QED
    BY <1>8, <2>1, <2>2 DEF MirarPausa
<1>9. ASSUME NEW t \in Turnos, MirarTurno(t) PROVE Resto'
  <2>1. CASE Contesta(t, "turno")
    BY <1>9, <2>1, <1>6 DEF MirarTurno, DentroDeLanzamiento
  <2>2. CASE ~HayTurno /\ Sigue(t, "turno", "insertar")
    <3>1. Espera' /\ Abajo'
      BY <1>9, <2>2 DEF MirarTurno, Sigue, Espera, Abajo, HayTurno, TipoDePedido, base, proceso, DentroDeLanzamiento
    <3>2. TrasLaPausa'
      BY <1>9, <2>2 DEF MirarTurno, Sigue, TrasLaPausa, TipoDePedido, frenoVars
    <3>3. QED
      BY <1>9, <2>2, <1>1, <3>1, <3>2 DEF MirarTurno, Sigue
  <2>3. QED
    BY <1>9, <2>1, <2>2 DEF MirarTurno
<1>10. ASSUME NEW t \in Turnos, Insertar(t) PROVE Resto'
  <2>1. /\ pedido[t] = "insertar" /\ ~HayTurno /\ tarea[t] = "no" /\ ~runner[t] /\ estado[t] = "nada"
        /\ \A q \in Turnos : pedido'[q] \notin DentroDeLanzamiento
        /\ pedido' = [pedido EXCEPT ![t] = "fin"]
        /\ UNCHANGED <<fallasEM, servicio, sesion, evento, runner, salida, freno>>
    BY <1>10, PedidoContesta DEF Insertar, Contesta, Espera, DentroDeLanzamiento, frenoVars
  <2>2. /\ estado' = estado \/ estado' = [estado EXCEPT ![t] = "en_curso"]
        /\ tarea' = tarea \/ (tarea' = [tarea EXCEPT ![t] = "lanzada"] /\ estado' = [estado EXCEPT ![t] = "en_curso"])
    BY <1>10 DEF Insertar
  <2>3. UnaFila'
    BY <2>1, <2>2 DEF UnaFila, HayTurno, TipoDeBase
  <2>4. Espera' /\ Abajo'
    BY <2>1, <2>2 DEF Espera, Abajo, TipoDePedido, TipoDeBase, TipoDeProceso, DentroDeLanzamiento
  <2>5. ConFila' /\ Anotado'
    BY <2>1, <2>2 DEF ConFila, Anotado, TipoDeBase, TipoDeProceso
  <2>6. trasPausa' <= 1
    BY <1>10, <2>1 DEF Insertar, TrasLaPausa
  <2>7. TrasLaPausa'
    BY <2>1, <2>6 DEF TrasLaPausa, DentroDeLanzamiento
  <2>8. QED
    BY <2>3, <2>4, <2>5, <2>7
\* A step of a task.
<1>t. ASSUME NEW t \in Turnos, NEW desde \in {"lanzada", "corre", "cierra", "revienta"},
             NEW hacia \in {"corre", "cierra", "revienta", "no"}, PasoDeTarea(t, desde, hacia), NoAbre,
             \A q \in Turnos : q # t => runner'[q] = runner[q]
      PROVE  UnaFila' /\ Espera' /\ Abajo' /\ TrasLaPausa'
  <2>1. servicio /\ pedido[t] = "fin"
    BY <1>t DEF PasoDeTarea, Abajo, Espera
  <2>2. UnaFila'
    BY <1>t DEF UnaFila, NoAbre
  <2>3. Espera' /\ Abajo'
    BY <1>t, <2>1 DEF PasoDeTarea, Espera, Abajo, HayTurno, NoAbre, TipoDeProceso
  <2>4. QED
    BY <1>t, <2>2, <2>3, <1>3 DEF PasoDeTarea, frenoVars
<1>n. ASSUME UNCHANGED estado, \A q \in Turnos : evento[q] => evento'[q] PROVE NoAbre
  BY <1>n DEF NoAbre
<1>11. ASSUME NEW t \in Turnos, Arrancar(t) PROVE Resto'
  <2>1. UnaFila' /\ Espera' /\ Abajo' /\ TrasLaPausa'
    BY <1>11, <1>t, <1>n DEF Arrancar, TipoDeProceso
  <2>2. ConFila' /\ Anotado'
    BY <1>11 DEF Arrancar, PasoDeTarea, ConFila, Anotado, TipoDeProceso
  <2>3. QED
    BY <2>1, <2>2
<1>12. ASSUME NEW t \in Turnos, Anotar(t) PROVE Resto'
  <2>1. \A q \in Turnos : evento[q] => evento'[q]
    BY <1>12 DEF Anotar, TipoDeBase
  <2>2. UnaFila' /\ Espera' /\ Abajo' /\ TrasLaPausa'
    BY <1>12, <2>1, <1>t, <1>n DEF Anotar
  <2>3. ConFila'
    BY <1>12 DEF Anotar, PasoDeTarea, ConFila, TipoDeProceso
  <2>4. \A q \in Turnos : salida'[q].visto => salida[q].visto \/ evento'[q]
    BY <1>12 DEF Anotar, TipoDeBase, TipoDeProceso
  <2>5. QED
    BY <2>1, <2>2, <2>3, <2>4 DEF Anotado
<1>13. ASSUME NEW t \in Turnos, Terminar(t) PROVE Resto'
  <2>1. UnaFila' /\ Espera' /\ Abajo' /\ TrasLaPausa'
    BY <1>13, <1>t, <1>n DEF Terminar, TipoDeProceso
  <2>2. ConFila'
    BY <1>13 DEF Terminar, PasoDeTarea, ConFila, TipoDeProceso
  <2>3. \A q \in Turnos : salida'[q].visto = salida[q].visto
    BY <1>13 DEF Terminar, TipoDeProceso, Salidas
  <2>4. Anotado'
    BY <1>13, <2>3 DEF Terminar, Anotado
  <2>5. QED
    BY <2>1, <2>2, <2>4
<1>14. ASSUME NEW t \in Turnos, Abandonado(t) PROVE Resto'
  <2>1. runner[t] /\ \A q \in Turnos : runner'[q] => runner[q]
    BY <1>14 DEF Abandonado, TipoDeProceso
  <2>2. QED
    BY <1>14, <2>1, <1>3
    DEF Abandonado, UnaFila, Espera, Abajo, ConFila, Anotado, HayTurno, base, frenoVars
<1>15. ASSUME NEW t \in Turnos, Cerrar(t) \/ CerrarConError(t) PROVE Resto'
  <2>1. /\ NoAbre /\ tarea[t] \in {"cierra", "revienta"}
        /\ \A q \in Turnos : q # t => estado'[q] = estado[q]
        /\ UNCHANGED <<runner, salida>>
        /\ "base" \notin fallasEM => tarea'[t] = "no" /\ estado'[t] # "en_curso"
    BY <1>15, Cierres
  <2>2. PICK hacia \in {"no", "revienta"} : PasoDeTarea(t, tarea[t], hacia)
    BY <1>15, Cierres
  <2>3. UnaFila' /\ Espera' /\ Abajo' /\ TrasLaPausa'
    BY <2>1, <2>2, <1>t
  <2>4. Anotado'
    BY <2>1 DEF NoAbre, Anotado
  <2>5. ConFila'
    BY <2>1, <2>2 DEF PasoDeTarea, ConFila, TipoDeProceso
  <2>6. QED
    BY <2>3, <2>4, <2>5
<1>16. ASSUME CaidaEM PROVE Resto'
  BY <1>16 DEF CaidaEM, UnaFila, Espera, Abajo, ConFila, Anotado, TrasLaPausa, HayTurno, TipoDePedido,
               DentroDeLanzamiento, base
<1>17. ASSUME Reiniciar PROVE Resto'
  <2>1. \A t \in Turnos : estado'[t] # "en_curso" /\ (estado[t] = "nada" => estado'[t] = "nada")
    BY <1>17 DEF Reiniciar
  <2>2. UnaFila' /\ Espera' /\ Abajo'
    BY <1>17, <2>1 DEF Reiniciar, UnaFila, Espera, Abajo, HayTurno, proceso
  <2>3. ConFila'
    BY <1>17 DEF Reiniciar, ConFila, Abajo, proceso
  <2>4. Anotado'
    BY <1>17 DEF Reiniciar, Anotado, proceso
  <2>5. QED
    BY <1>17, <2>2, <2>3, <2>4, <1>3 DEF Reiniciar, frenoVars
<1>c. ASSUME Pausa \/ Suelta \/ IgualPausa, UNCHANGED pedido PROVE TrasLaPausa'
  BY <1>c DEF Pausa, Suelta, IgualPausa, TrasLaPausa, TipoDeFreno
<1>18. ASSUME NEW c \in CambiosDePausa, DePausa(c) PROVE Resto'
  <2>1. UNCHANGED <<fallasEM, servicio, lanzamiento, pedido, base, proceso>>
    BY <1>18 DEF DePausa, PonerPausa, AuditarPausa, QuitarPausa, ConfirmarPausa, ReponerPausa, PasoDePausa
  <2>2. Pausa \/ Suelta \/ IgualPausa
    BY <1>18 DEF DePausa, PonerPausa, AuditarPausa, QuitarPausa, ConfirmarPausa, ReponerPausa
  <2>3. QED
    BY <2>1, <2>2, <1>1, <1>2, <1>c
<1>19. ASSUME PausaAjena PROVE Resto'
  BY <1>19, <1>1, <1>2, <1>c DEF PausaAjena
<1>20. QED
  BY <1>4, <1>5, <1>7, <1>8, <1>9, <1>10, <1>11, <1>12, <1>13, <1>14, <1>15, <1>16, <1>17, <1>18,
     <1>19 DEF EMNext, DeTurno

\* The invariant holds in every behaviour.
LEMMA EMInvariante == EMSpec => []EMInv
<1>1. EMInv /\ [EMNext]_EMvars => EMInv'
  BY EMTipos, EMResto DEF EMInv, Resto
<1>2. QED
  BY EMInicio, <1>1, PTL DEF EMSpec

-----------------------------------------------------------------------------
(* The properties *)

\* The types of the executor: among them, that at most one request is inside the
\* launching lock and at most one change of the pause is under way.
THEOREM TiposDeMisiones == EMSpec => []EMTypeOK
<1>1. EMInv => EMTypeOK
  BY DEF EMInv
<1>2. QED
  BY EMInvariante, <1>1, PTL

\* One turn at a time (crear, continuar, _turno_en_curso): never two open rows; and
\* never two subprocesses, unless the database failed.
THEOREM UnSoloTurno == EMSpec => []UnTurnoALaVez
<1>1. EMInv => UnTurnoALaVez
  BY DEF EMInv, UnaFila, ConFila, UnTurnoALaVez
<1>2. QED
  BY EMInvariante, <1>1, PTL

\* With the pause put (_barreras_de_lanzamiento), at most one more turn is opened.
THEOREM LaPausaFrena == EMSpec => []PausaFrena
<1>1. EMInv => PausaFrena
  BY DEF EMInv, TrasLaPausa, PausaFrena
<1>2. QED
  BY EMInvariante, <1>1, PTL

\* The row of a turn is closed once, with its event in the log (_cerrar_turno,
\* reconciliar_al_arrancar).
THEOREM CierreUnico == EMSpec => UnSoloCierre
<1> DEFINE A == \A t \in Turnos : estado[t] \notin {"nada", estado'[t]} => estado[t] = "en_curso" /\ evento'[t]
<1>1. EMInv /\ [EMNext]_EMvars => [A]_EMvars
  <2> SUFFICES ASSUME EMInv, EMNext PROVE A
    OBVIOUS
  <2> TipoDeBase
    BY TiposPorPartes DEF EMInv
  <2>1. ASSUME UNCHANGED estado PROVE A
    BY <2>1
  <2>2. ASSUME NEW t \in Turnos, Insertar(t) PROVE A
    BY <2>2 DEF EMInv, Espera, Insertar, Contesta, TipoDeBase
  <2>3. ASSUME NEW t \in Turnos, Cerrar(t) \/ CerrarConError(t) PROVE A
    BY <2>3, Cierres DEF EMInv, NoAbre
  <2>4. ASSUME Reiniciar PROVE A
    BY <2>4 DEF Reiniciar
  <2>5. ASSUME NEW t \in Turnos, DeTurno(t) PROVE A
    BY <2>1, <2>2, <2>3, <2>5
    DEF DeTurno, Entrar, Rechazar, MirarPausa, MirarTurno, Arrancar, Anotar, Terminar, Abandonado, base
  <2>6. ASSUME NEW c \in CambiosDePausa, DePausa(c) PROVE A
    BY <2>1, <2>6 DEF DePausa, PonerPausa, AuditarPausa, QuitarPausa, ConfirmarPausa, ReponerPausa, PasoDePausa, base
  <2>7. QED
    BY <2>1, <2>4, <2>5, <2>6 DEF EMNext, PausaAjena, CaidaEM, base
<1>2. QED
  BY EMInvariante, <1>1, PTL DEF EMSpec, UnSoloCierre
=============================================================================
