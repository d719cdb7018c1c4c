------------------------------ MODULE CatalogSync ------------------------------
(***************************************************************************)
(* backend/catalogo_sync_registro.py and sync_all of model_catalog.py: the *)
(* runs of the synchronisation of the catalogue of models, asked for by    *)
(* the endpoint or by the timer.  Each has a row in                        *)
(* catalogo_sync_ejecucion, and there are two locks of MariaDB: the gate,  *)
(* held while a run looks for another one and inserts its row, and the     *)
(* lock of the work, held on a connection of its own through the whole of  *)
(* sync_all.  Who reads the state marks as interrupted the rows that       *)
(* nobody seems to work on.                                                *)
(*                                                                         *)
(* What sync_all does to the catalogue is its outcome only, and a row      *)
(* marked as interrupted is 'error' with a text of its own.  The progress  *)
(* of a run, and the deletion of old rows that are closed, are left out.   *)
(* The pool commits each statement on its own, and a lock goes with its    *)
(* connection.                                                             *)
(***************************************************************************)
EXTENDS Naturals, FiniteSets

CONSTANTS
    Corridas,       \* runs
    SinCorrida,     \* nobody holds the lock
    MaxTropiezos    \* bound: statements that fail, deaths and connections lost

ASSUME CorridasSupuestas == SinCorrida \notin Corridas /\ MaxTropiezos \in Nat

VARIABLES
    ejecucion,      \* the row of each run
    pasadas,        \* rows reserved longer ago than MARGEN_GRACIA_SEGUNDOS
    delGate,        \* who holds the gate
    delTrabajo,     \* who holds the lock of the work
    corrida,        \* where each run is
    salida,         \* what its sync_all gave
    cerradas,       \* runs that know they closed their row
    omitidas,       \* runs that answered cierre_omitido
    sinConexion,    \* runs that lost the connection with the lock
    sanas,          \* took the lock with their row open, and nothing failed them since
    tropiezos

reserva == <<pasadas, delGate>>
avance == <<salida, cerradas, omitidas, sinConexion, sanas>>
CSvars == <<ejecucion, reserva, delTrabajo, corrida, avance, tropiezos>>

Finales == {"ok", "con_problemas", "error", "interrumpida"}
Reservando == {"gate", "mirar", "alta", "suelta_vacia", "suelta_con_fila"}
Trabajando == {"reservada", "corre", "terminar", "libera", "red"}

CSTypeOK ==
    /\ ejecucion \in [Corridas -> {"nada", "corriendo"} \union Finales]
    /\ pasadas \subseteq Corridas
    /\ delGate \in Corridas \union {SinCorrida} /\ delTrabajo \in Corridas \union {SinCorrida}
    /\ corrida \in [Corridas -> {"fuera", "fin"} \union Reservando \union Trabajando]
    /\ salida \in [Corridas -> {"nada", "ok", "con_problemas", "en_curso", "excepcion"}]
    /\ cerradas \subseteq Corridas /\ omitidas \subseteq Corridas
    /\ sinConexion \subseteq Corridas /\ sanas \subseteq Corridas
    /\ tropiezos \in 0 .. MaxTropiezos

CSInit ==
    /\ ejecucion = [c \in Corridas |-> "nada"] /\ pasadas = {}
    /\ delGate = SinCorrida /\ delTrabajo = SinCorrida
    /\ corrida = [c \in Corridas |-> "fuera"] /\ salida = [c \in Corridas |-> "nada"]
    /\ cerradas = {} /\ omitidas = {} /\ sinConexion = {} /\ sanas = {}
    /\ tropiezos = 0

-----------------------------------------------------------------------------
Sigue(c, desde, hacia) == corrida[c] = desde /\ corrida' = [corrida EXCEPT ![c] = hacia]

Tropieza == tropiezos < MaxTropiezos /\ tropiezos' = tropiezos + 1
Bien == UNCHANGED tropiezos

Corriendo == {c \in Corridas : ejecucion[c] = "corriendo"}

\* marcar_huerfanas_interrumpidas: the rows still open of which nobody holds the lock.
Huerfanas == IF delTrabajo = SinCorrida THEN Corriendo \intersect pasadas ELSE {}
MarcarHuerfanas ==
    ejecucion' = [c \in Corridas |-> IF c \in Huerfanas THEN "interrumpida" ELSE ejecucion[c]]

\* Mutant of PisaFila: the row is written whatever it says.
PisaSiempre(c) == TRUE

\* finalizar_ejecucion writes only a row that is still open.
PisaFila(c) == ejecucion[c] = "corriendo"

EstadoFinal(s) == IF s \in {"ok", "con_problemas"} THEN s ELSE "error"

Finaliza(c) ==
    ejecucion' = IF PisaFila(c) THEN [ejecucion EXCEPT ![c] = EstadoFinal(salida[c])] ELSE ejecucion

-----------------------------------------------------------------------------
(* reservar_ejecucion *)

\* Mutant of PasaElGate: what GET_LOCK answered is not looked at.
PasaSinMirar == TRUE

PasaElGate == delGate = SinCorrida

\* GET_LOCK of the gate; when it stays busy or fails, nothing was reserved.
TomarGate(c) ==
    /\ \/ PasaElGate /\ Sigue(c, "fuera", "gate") /\ delGate' = c /\ Bien
       \/ delGate # SinCorrida /\ Sigue(c, "fuera", "fin") /\ UNCHANGED delGate /\ Bien
       \/ Tropieza /\ Sigue(c, "fuera", "fin") /\ UNCHANGED delGate
    /\ UNCHANGED <<ejecucion, pasadas, delTrabajo, avance>>

MarcarAntes(c) ==
    /\ Sigue(c, "gate", "mirar") /\ MarcarHuerfanas
    /\ UNCHANGED <<reserva, delTrabajo, avance, tropiezos>>

MirarCorriendo(c) ==
    /\ \/ Corriendo # {} /\ Sigue(c, "mirar", "suelta_vacia")
       \/ Corriendo = {} /\ Sigue(c, "mirar", "alta")
    /\ UNCHANGED <<ejecucion, reserva, delTrabajo, avance, tropiezos>>

InsertarCorrida(c) == ejecucion' = [ejecucion EXCEPT ![c] = "corriendo"]

Alta(c) ==
    /\ Sigue(c, "alta", "suelta_con_fila") /\ InsertarCorrida(c)
    /\ UNCHANGED <<reserva, delTrabajo, avance, tropiezos>>

\* A statement fails; the INSERT may have reached the server.
FallarReserva(c) ==
    /\ Tropieza
    /\ \E p \in {"gate", "mirar", "alta"} : Sigue(c, p, "suelta_vacia")
    /\ UNCHANGED ejecucion \/ (corrida[c] = "alta" /\ InsertarCorrida(c))
    /\ UNCHANGED <<reserva, delTrabajo, avance>>

\* RELEASE_LOCK, and the run is handed to a background task; when it fails, the lock
\* goes with the connection and nobody runs what was reserved.
SoltarGate(c) ==
    /\ \/ Bien /\ (Sigue(c, "suelta_con_fila", "reservada") \/ Sigue(c, "suelta_vacia", "fin"))
       \/ Tropieza /\ \E p \in {"suelta_con_fila", "suelta_vacia"} : Sigue(c, p, "fin")
    /\ delGate' = IF delGate = c THEN SinCorrida ELSE delGate
    /\ UNCHANGED <<ejecucion, pasadas, delTrabajo, avance>>

-----------------------------------------------------------------------------
(* ejecutar_reservada and sync_all *)

\* GET_LOCK of the work, without waiting: taken, busy, or failed.
TomarTrabajo(c) ==
    /\ \/ /\ delTrabajo = SinCorrida /\ delTrabajo' = c
          /\ Sigue(c, "reservada", "corre") /\ Bien /\ UNCHANGED salida
          /\ sanas' = IF ejecucion[c] = "corriendo" THEN sanas \union {c} ELSE sanas
       \/ /\ delTrabajo # SinCorrida /\ Sigue(c, "reservada", "red") /\ Bien
          /\ salida' = [salida EXCEPT ![c] = "en_curso"] /\ UNCHANGED <<delTrabajo, sanas>>
       \/ /\ Tropieza /\ Sigue(c, "reservada", "red")
          /\ salida' = [salida EXCEPT ![c] = "excepcion"] /\ UNCHANGED <<delTrabajo, sanas>>
    /\ UNCHANGED <<ejecucion, reserva, cerradas, omitidas, sinConexion>>

\* The providers, the enrichment, and the facets at risk, which are looked for on the
\* connection that holds the lock.
Correr(c) ==
    /\ Sigue(c, "corre", "terminar")
    /\ \E s \in {"ok", "con_problemas", "excepcion"} :
          /\ c \in sinConexion => s = "excepcion"
          /\ salida' = [salida EXCEPT ![c] = s]
    /\ UNCHANGED <<ejecucion, reserva, delTrabajo, cerradas, omitidas, sinConexion, sanas, tropiezos>>

\* Mutant of Terminar: sync_all does not call back, and the row is closed after it.
TerminarFuera(c) ==
    /\ Sigue(c, "terminar", "libera")
    /\ UNCHANGED <<ejecucion, reserva, delTrabajo, avance, tropiezos>>

\* on_terminar closes the row with the lock still held; it may fail, before or after.
Terminar(c) ==
    /\ Sigue(c, "terminar", "libera")
    /\ \/ /\ Bien /\ Finaliza(c) /\ UNCHANGED sanas
          /\ cerradas' = IF PisaFila(c) THEN cerradas \union {c} ELSE cerradas
       \/ /\ Tropieza /\ (Finaliza(c) \/ UNCHANGED ejecucion)
          /\ UNCHANGED cerradas /\ sanas' = sanas \ {c}
    /\ UNCHANGED <<reserva, delTrabajo, salida, omitidas, sinConexion>>

\* Mutant of SiempreLibera: what raised leaves the lock in a connection of the pool.
LiberaSiAcabo(c) == salida[c] # "excepcion"

SiempreLibera(c) == TRUE

\* RELEASE_LOCK in the finally; a connection that does not confirm it is closed.
LiberarTrabajo(c) ==
    /\ Sigue(c, "libera", "red")
    /\ delTrabajo' = IF delTrabajo = c /\ SiempreLibera(c) THEN SinCorrida ELSE delTrabajo
    /\ UNCHANGED <<ejecucion, reserva, avance, tropiezos>>

\* The safety net of ejecutar_reservada, for a row that on_terminar did not close.
Red(c) ==
    /\ Sigue(c, "red", "fin")
    /\ \/ c \in cerradas /\ Bien /\ UNCHANGED <<ejecucion, omitidas>>
       \/ /\ c \notin cerradas /\ Bien /\ Finaliza(c)
          /\ omitidas' = IF PisaFila(c) \/ salida[c] = "excepcion" THEN omitidas ELSE omitidas \union {c}
       \/ /\ c \notin cerradas /\ Tropieza /\ (Finaliza(c) \/ UNCHANGED ejecucion)
          /\ UNCHANGED omitidas
    /\ UNCHANGED <<reserva, delTrabajo, salida, cerradas, sinConexion, sanas>>

-----------------------------------------------------------------------------
(* Around them *)

\* GET /sync/estado marks the orphans before it reads.
SyncEstado ==
    /\ MarcarHuerfanas
    /\ UNCHANGED <<reserva, delTrabajo, corrida, avance, tropiezos>>

\* The margin passes.
Envejecer(c) ==
    /\ ejecucion[c] = "corriendo" /\ c \notin pasadas /\ pasadas' = pasadas \union {c}
    /\ UNCHANGED <<ejecucion, delGate, delTrabajo, corrida, avance, tropiezos>>

\* The process of the run dies, and its connections with it.
Morir(c) ==
    /\ corrida[c] \notin {"fuera", "fin"} /\ Tropieza
    /\ corrida' = [corrida EXCEPT ![c] = "fin"] /\ sanas' = sanas \ {c}
    /\ delGate' = IF delGate = c THEN SinCorrida ELSE delGate
    /\ delTrabajo' = IF delTrabajo = c THEN SinCorrida ELSE delTrabajo
    /\ UNCHANGED <<ejecucion, pasadas, salida, cerradas, omitidas, sinConexion>>

\* The server drops the connection that holds the lock.
PerderConexion(c) ==
    /\ delTrabajo = c /\ Tropieza /\ delTrabajo' = SinCorrida
    /\ sinConexion' = sinConexion \union {c} /\ sanas' = sanas \ {c}
    /\ UNCHANGED <<ejecucion, reserva, corrida, salida, cerradas, omitidas>>

DeReserva(c) ==
    TomarGate(c) \/ MarcarAntes(c) \/ MirarCorriendo(c) \/ Alta(c) \/ FallarReserva(c) \/ SoltarGate(c)

DeEjecucion(c) ==
    TomarTrabajo(c) \/ Correr(c) \/ Terminar(c) \/ LiberarTrabajo(c) \/ Red(c)

CSNext ==
    \/ \E c \in Corridas : DeReserva(c) \/ DeEjecucion(c)
    \/ \E c \in Corridas : Envejecer(c) \/ Morir(c) \/ PerderConexion(c)
    \/ SyncEstado

CSSpec == CSInit /\ [][CSNext]_CSvars

\* What has begun goes on, time passes, and the screen asks for the state, each with
\* some effect a number of times: it is enough that something of it does.
AlgoSigue == SyncEstado \/ \E c \in Corridas : DeEjecucion(c) \/ Envejecer(c)

CSFairness == WF_CSvars(AlgoSigue)

CSFairSpec == CSSpec /\ CSFairness

-----------------------------------------------------------------------------
(* Properties *)

\* One run at a time, for the screen and for the timer: two rows are never open,
\* although the look and the INSERT are no transaction (reservar_ejecucion).
UnaCorriendo == \A c, d \in Corridas : {c, d} \subseteq Corriendo => c = d

\* A run that took its lock with its row open and lost nothing is never given for
\* interrupted, and its row ends with what it gave (on_terminar).
CierreVeraz ==
    \A c \in sanas : /\ ejecucion[c] \in {"corriendo", EstadoFinal(salida[c])}
                     /\ corrida[c] = "fin" => ejecucion[c] = EstadoFinal(salida[c])

\* A closed row keeps what it says: a run given for interrupted that ends late does
\* not write over it, and answers that its close was left out or raises.
CerradaSeQueda ==
    [][\A c \in Corridas :
         /\ ejecucion[c] \in Finales => ejecucion'[c] = ejecucion[c]
         /\ corrida[c] = "red" /\ corrida'[c] = "fin" /\ ejecucion'[c] = "interrumpida"
              => c \in omitidas' \/ salida[c] = "excepcion" \/ tropiezos' > tropiezos]_CSvars

\* No row says for ever that its run goes on, whatever died.
NadieCorreParaSiempre == \A c \in Corridas : c \in Corriendo ~> c \notin Corriendo
=============================================================================
