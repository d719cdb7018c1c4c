---------------------------- MODULE ExclusionProofs ----------------------------
(***************************************************************************)
(* Proofs about the parts in which something has one owner at a time: the  *)
(* gate and the work of a synchronisation of the catalogue, for any runs   *)
(* and failures; the two lanes to Ollama, for any requests; and the pool   *)
(* of the PDFs, for any extractions, workers and pools.                    *)
(***************************************************************************)
EXTENDS CatalogSync, PriorityLanes, PdfPool, FiniteSetTheorems, TLAPS

-----------------------------------------------------------------------------
(* CatalogSync: types *)

LEMMA CSTiposAlInicio == CSInit => CSTypeOK
BY CorridasSupuestas DEF CorridasSupuestas, CSInit, CSTypeOK, Finales, Reservando, Trabajando

LEMMA TiposDeReserva ==
    ASSUME CSTypeOK, NEW c \in Corridas, DeReserva(c)
    PROVE  CSTypeOK'
<1> USE CorridasSupuestas DEF CSTypeOK, Sigue, Finales, Reservando, Trabajando
<1>1. CASE TomarGate(c)
  BY <1>1 DEF TomarGate, avance, Tropieza, Bien, CorridasSupuestas
<1>2. CASE MarcarAntes(c)
  BY <1>2 DEF MarcarAntes, reserva, avance, MarcarHuerfanas
<1>3. CASE MirarCorriendo(c)
  BY <1>3 DEF MirarCorriendo, reserva, avance
<1>4. CASE Alta(c)
  BY <1>4 DEF Alta, reserva, avance, InsertarCorrida
<1>5. CASE FallarReserva(c)
  BY <1>5 DEF FallarReserva, reserva, avance, InsertarCorrida, Tropieza, CorridasSupuestas
<1>6. CASE SoltarGate(c)
  BY <1>6 DEF SoltarGate, avance, Tropieza, Bien, CorridasSupuestas
<1> QED  BY <1>1, <1>2, <1>3, <1>4, <1>5, <1>6 DEF DeReserva

LEMMA TiposDeEjecucion ==
    ASSUME CSTypeOK, NEW c \in Corridas, DeEjecucion(c)
    PROVE  CSTypeOK'
<1> USE CorridasSupuestas DEF CSTypeOK, Sigue, Finales, Reservando, Trabajando
<1>0. /\ EstadoFinal(salida[c]) \in Finales
      /\ Finaliza(c) => ejecucion' \in [Corridas -> {"nada", "corriendo"} \union Finales]
  BY DEF EstadoFinal, Finaliza
<1>1. CASE TomarTrabajo(c)
  BY <1>1 DEF TomarTrabajo, reserva, Tropieza, Bien, CorridasSupuestas
<1>2. CASE Correr(c)
  BY <1>2 DEF Correr, reserva
<1>3. CASE Terminar(c)
  BY <1>0, <1>3 DEF Terminar, reserva, Tropieza, Bien, CorridasSupuestas
<1>4. CASE LiberarTrabajo(c)
  BY <1>4 DEF LiberarTrabajo, reserva, avance
<1>5. CASE Red(c)
  BY <1>0, <1>5 DEF Red, reserva, Tropieza, Bien, CorridasSupuestas
<1> QED  BY <1>1, <1>2, <1>3, <1>4, <1>5 DEF DeEjecucion

LEMMA CSTipos == CSTypeOK /\ [CSNext]_CSvars => CSTypeOK'
<1> SUFFICES ASSUME CSTypeOK, [CSNext]_CSvars PROVE CSTypeOK'
  OBVIOUS
<1> USE CorridasSupuestas DEF CSTypeOK, Finales, Reservando, Trabajando
<1>1. ASSUME NEW c \in Corridas, DeReserva(c) \/ DeEjecucion(c) PROVE CSTypeOK'
  BY <1>1, TiposDeReserva, TiposDeEjecucion
<1>2. ASSUME NEW c \in Corridas, Envejecer(c) PROVE CSTypeOK'
  BY <1>2 DEF Envejecer, avance
<1>3. ASSUME NEW c \in Corridas, Morir(c) PROVE CSTypeOK'
  BY <1>3 DEF Morir, Tropieza, CorridasSupuestas
<1>4. ASSUME NEW c \in Corridas, PerderConexion(c) PROVE CSTypeOK'
  BY <1>4 DEF PerderConexion, reserva, Tropieza, CorridasSupuestas
<1>5. CASE SyncEstado
  BY <1>5 DEF SyncEstado, reserva, avance, MarcarHuerfanas
<1>6. CASE UNCHANGED CSvars
  BY <1>6 DEF CSvars, reserva, avance
<1> QED  BY <1>1, <1>2, <1>3, <1>4, <1>5, <1>6 DEF CSNext

\* Every reachable state of the runs is well typed, for any runs and failures.
THEOREM TiposDeCorridas == CSSpec => []CSTypeOK
BY CSTiposAlInicio, CSTipos, PTL DEF CSSpec

-----------------------------------------------------------------------------
(* One row is open.  Who is between the gate and its release holds the gate; *)
(* until its INSERT a run has no row; and who is about to insert saw no row, *)
(* which nobody else could have inserted since.                              *)

SinFilaAun == {"fuera", "gate", "mirar", "alta"}

UnGate ==
    \A c \in Corridas :
        /\ corrida[c] \in Reservando => delGate = c
        /\ corrida[c] \in SinFilaAun => ejecucion[c] = "nada"
        /\ corrida[c] = "alta" => Corriendo = {}

UnaFilaAbierta == UnGate /\ UnaCorriendo

\* A step that inserts nothing opens no row.
LEMMA NadaSeAbre ==
    ASSUME CSTypeOK, UnaFilaAbierta, NEW c \in Corridas,
           \A d \in Corridas : ejecucion'[d] = "corriendo" => ejecucion[d] = "corriendo",
           \A d \in Corridas : ejecucion[d] = "nada" => ejecucion'[d] = "nada",
           \A d \in Corridas \ {c} : corrida'[d] = corrida[d],
           \A d \in Corridas \ {c} : delGate = d => delGate' = d,
           corrida'[c] \in Reservando => delGate' = c,
           corrida'[c] \in SinFilaAun => corrida[c] \in SinFilaAun,
           corrida'[c] = "alta" => corrida[c] = "alta" \/ Corriendo = {}
    PROVE  UnaFilaAbierta'
<1>1. Corriendo' \subseteq Corriendo
  BY DEF Corriendo
<1> QED  BY <1>1 DEF UnaFilaAbierta, UnGate, UnaCorriendo

LEMMA FilaEnReserva ==
    ASSUME CSTypeOK, UnaFilaAbierta, NEW c \in Corridas, DeReserva(c)
    PROVE  UnaFilaAbierta'
<1> USE DEF CSTypeOK, Sigue, Reservando, SinFilaAun
<1>0. /\ corrida[c] \in Reservando => delGate = c
      /\ corrida[c] \in SinFilaAun => ejecucion[c] = "nada"
      /\ corrida[c] = "alta" => Corriendo = {}
      /\ \A d \in Corridas : c # SinCorrida /\ d # SinCorrida
  BY CorridasSupuestas DEF UnaFilaAbierta, UnGate, CorridasSupuestas
<1>1. CASE TomarGate(c)
  BY <1>0, <1>1, NadaSeAbre DEF TomarGate, PasaElGate
<1>2. CASE MarcarAntes(c)
  BY <1>0, <1>2, NadaSeAbre DEF MarcarAntes, reserva, MarcarHuerfanas, Huerfanas, Corriendo
<1>3. CASE MirarCorriendo(c)
  BY <1>0, <1>3, NadaSeAbre DEF MirarCorriendo, reserva
<1>4. ASSUME corrida[c] = "alta", corrida'[c] \in {"suelta_con_fila", "suelta_vacia"},
             \A d \in Corridas \ {c} : corrida'[d] = corrida[d],
             delGate' = delGate, InsertarCorrida(c)
      PROVE  UnaFilaAbierta'
  <2>1. Corriendo' = {c} /\ \A d \in Corridas \ {c} : ejecucion'[d] = ejecucion[d]
    BY <1>0, <1>4 DEF InsertarCorrida, Corriendo
  <2>2. \A d \in Corridas \ {c} : corrida[d] \notin Reservando
    BY <1>0, <1>4 DEF UnaFilaAbierta, UnGate
  <2> QED  BY <1>0, <1>4, <2>1, <2>2 DEF UnaFilaAbierta, UnGate, UnaCorriendo
<1>5. CASE Alta(c)
  BY <1>4, <1>5 DEF Alta, reserva
<1>6. CASE FallarReserva(c)
  <2>1. CASE corrida[c] = "alta" /\ InsertarCorrida(c)
    BY <1>4, <1>6, <2>1 DEF FallarReserva, reserva
  <2>2. CASE UNCHANGED ejecucion
    BY <1>0, <1>6, <2>2, NadaSeAbre DEF FallarReserva, reserva
  <2> QED  BY <1>6, <2>1, <2>2 DEF FallarReserva
<1>7. CASE SoltarGate(c)
  BY <1>0, <1>7, NadaSeAbre DEF SoltarGate
<1> QED  BY <1>1, <1>2, <1>3, <1>5, <1>6, <1>7 DEF DeReserva

LEMMA FilaEnEjecucion ==
    ASSUME CSTypeOK, UnaFilaAbierta, NEW c \in Corridas, DeEjecucion(c)
    PROVE  UnaFilaAbierta'
<1> USE DEF CSTypeOK, Sigue, Reservando, SinFilaAun
<1>0. Finaliza(c) => \A d \in Corridas :
          /\ ejecucion'[d] = "corriendo" => ejecucion[d] = "corriendo"
          /\ ejecucion[d] = "nada" => ejecucion'[d] = "nada"
  BY DEF Finaliza, PisaFila, EstadoFinal
<1>1. CASE TomarTrabajo(c)
  BY <1>1, NadaSeAbre DEF TomarTrabajo, reserva
<1>2. CASE Correr(c)
  BY <1>2, NadaSeAbre DEF Correr, reserva
<1>3. CASE Terminar(c)
  BY <1>0, <1>3, NadaSeAbre DEF Terminar, reserva
<1>4. CASE LiberarTrabajo(c)
  BY <1>4, NadaSeAbre DEF LiberarTrabajo, reserva
<1>5. CASE Red(c)
  BY <1>0, <1>5, NadaSeAbre DEF Red, reserva
<1> QED  BY <1>1, <1>2, <1>3, <1>4, <1>5 DEF DeEjecucion

LEMMA FilaSigue == CSTypeOK /\ UnaFilaAbierta /\ [CSNext]_CSvars => UnaFilaAbierta'
<1> SUFFICES ASSUME CSTypeOK, UnaFilaAbierta, [CSNext]_CSvars PROVE UnaFilaAbierta'
  OBVIOUS
<1> USE DEF CSTypeOK, Reservando, SinFilaAun
<1>1. ASSUME NEW c \in Corridas, DeReserva(c) \/ DeEjecucion(c) PROVE UnaFilaAbierta'
  BY <1>1, FilaEnReserva, FilaEnEjecucion
<1>2. ASSUME NEW c \in Corridas, Envejecer(c) PROVE UnaFilaAbierta'
  BY <1>2 DEF Envejecer, UnaFilaAbierta, UnGate, UnaCorriendo, Corriendo
<1>3. ASSUME NEW c \in Corridas, Morir(c) PROVE UnaFilaAbierta'
  BY <1>3, NadaSeAbre DEF Morir
<1>4. ASSUME NEW c \in Corridas, PerderConexion(c) PROVE UnaFilaAbierta'
  BY <1>4 DEF PerderConexion, reserva, UnaFilaAbierta, UnGate, UnaCorriendo, Corriendo
<1>5. CASE SyncEstado
  <2>1. Corriendo' \subseteq Corriendo
    BY <1>5 DEF SyncEstado, MarcarHuerfanas, Corriendo
  <2> QED  BY <1>5, <2>1
           DEF SyncEstado, reserva, MarcarHuerfanas, Huerfanas, Corriendo, UnaFilaAbierta, UnGate,
               UnaCorriendo
<1>6. CASE UNCHANGED CSvars
  BY <1>6 DEF CSvars, reserva, UnaFilaAbierta, UnGate, UnaCorriendo, Corriendo
<1> QED  BY <1>1, <1>2, <1>3, <1>4, <1>5, <1>6 DEF CSNext

LEMMA FilaAlInicio == CSInit => UnaFilaAbierta
BY DEF CSInit, UnaFilaAbierta, UnGate, UnaCorriendo, Corriendo, Reservando, SinFilaAun

\* For any number of runs asked for by anybody, and whatever fails, at most one row
\* says that it goes on: the gate makes one of the look and the INSERT.
THEOREM UnaSolaCorrida == CSSpec => []UnaCorriendo
<1>1. UnaFilaAbierta => UnaCorriendo
  BY DEF UnaFilaAbierta
<1> QED  BY <1>1, FilaAlInicio, FilaSigue, CSTiposAlInicio, CSTipos, PTL DEF CSSpec

-----------------------------------------------------------------------------
(* How a row is closed.  A run that took its lock with its row open, and lost *)
(* nothing, holds the lock until it has closed the row, so that nobody takes  *)
(* it for an orphan; then its row says what it gave.                          *)

Cuidada(c) ==
    /\ corrida[c] \in {"corre", "terminar", "libera", "red", "fin"}
    /\ corrida[c] \in {"corre", "terminar"} => delTrabajo = c /\ ejecucion[c] = "corriendo"
    /\ corrida[c] \in {"libera", "red", "fin"} =>
          ejecucion[c] = EstadoFinal(salida[c]) /\ c \in cerradas

CierreSano ==
    /\ \A c \in sanas : Cuidada(c)
    /\ \A c \in cerradas : ejecucion[c] \in {"ok", "con_problemas", "error"}

\* A step that leaves alone what the run c is about.
LEMMA SigueCuidada ==
    ASSUME CSTypeOK, NEW c \in Corridas, c \in sanas => Cuidada(c), c \in sanas' => c \in sanas,
           corrida'[c] = corrida[c], salida'[c] = salida[c], c \in cerradas => c \in cerradas',
           delTrabajo = c => delTrabajo' = c,
           ejecucion'[c] = ejecucion[c] \/ (delTrabajo # c /\ ejecucion[c] = "corriendo")
    PROVE  c \in sanas' => Cuidada(c)'
BY DEF Cuidada, EstadoFinal

LEMMA CierreEnReserva ==
    ASSUME CSTypeOK, UnaFilaAbierta, CierreSano, NEW c \in Corridas, DeReserva(c)
    PROVE  CierreSano'
<1> USE DEF CSTypeOK, Sigue
<1>1. /\ UNCHANGED <<delTrabajo, avance>> /\ c \notin sanas /\ ejecucion' \in [Corridas -> {"nada", "corriendo"} \union Finales]
      /\ \A d \in Corridas \ {c} : corrida'[d] = corrida[d]
      /\ \A d \in Corridas : \/ ejecucion'[d] = ejecucion[d]
                             \/ delTrabajo = SinCorrida /\ ejecucion[d] = "corriendo"
                             \/ d = c /\ ejecucion[d] = "nada"
  <2>1. c \notin sanas
    BY DEF CierreSano, Cuidada, DeReserva, TomarGate, MarcarAntes, MirarCorriendo, Alta,
           FallarReserva, SoltarGate
  <2>2. corrida[c] = "alta" => ejecucion[c] = "nada"
    BY DEF UnaFilaAbierta, UnGate, SinFilaAun
  <2>3. CASE TomarGate(c) \/ MirarCorriendo(c) \/ SoltarGate(c)
    BY <2>1, <2>3 DEF TomarGate, MirarCorriendo, SoltarGate
  <2>4. CASE MarcarAntes(c)
    BY <2>1, <2>4 DEF MarcarAntes, MarcarHuerfanas, Huerfanas, Corriendo, Finales
  <2>5. CASE Alta(c) \/ FallarReserva(c)
    BY <2>1, <2>2, <2>5 DEF Alta, FallarReserva, InsertarCorrida
  <2> QED  BY <2>3, <2>4, <2>5 DEF DeReserva
<1>2. \A d \in Corridas : d # SinCorrida
  BY CorridasSupuestas DEF CorridasSupuestas
<1>3. ASSUME NEW d \in sanas' PROVE Cuidada(d)'
  <2>1. d \in sanas /\ d \in Corridas /\ d # c
    BY <1>1, <1>3 DEF avance
  <2> QED  BY <1>1, <1>2, <1>3, <2>1, SigueCuidada DEF avance, CierreSano
<1>4. ASSUME NEW d \in cerradas' PROVE ejecucion'[d] = ejecucion[d]
  BY <1>1, <1>4 DEF avance, CierreSano
<1> QED  BY <1>1, <1>3, <1>4 DEF CierreSano, avance

LEMMA CierreEnEjecucion ==
    ASSUME CSTypeOK, CierreSano, NEW c \in Corridas, DeEjecucion(c)
    PROVE  CierreSano'
<1> USE DEF CSTypeOK, Sigue
<1>0. \A d \in Corridas : d # SinCorrida
  BY CorridasSupuestas DEF CorridasSupuestas
<1>1. Finaliza(c) => /\ \A d \in Corridas \ {c} : ejecucion'[d] = ejecucion[d]
                     /\ PisaFila(c) => ejecucion'[c] = EstadoFinal(salida[c])
                     /\ ~PisaFila(c) => ejecucion' = ejecucion
  BY DEF Finaliza
<1>2. EstadoFinal(salida[c]) \in {"ok", "con_problemas", "error"}
  BY DEF EstadoFinal
<1>3. /\ \A d \in Corridas \ {c} : /\ corrida'[d] = corrida[d] /\ salida'[d] = salida[d]
                                   /\ ejecucion'[d] = ejecucion[d]
                                   /\ delTrabajo = d => delTrabajo' = d
      /\ cerradas \subseteq cerradas' /\ cerradas' \subseteq cerradas \union {c}
      /\ sanas' \subseteq sanas \union {c}
  BY <1>0, <1>1 DEF DeEjecucion, TomarTrabajo, Correr, Terminar, LiberarTrabajo, Red, reserva, avance
<1>4. ASSUME NEW d \in sanas', d # c PROVE Cuidada(d)'
  <2>1. d \in sanas /\ d \in Corridas
    BY <1>3, <1>4
  <2> QED  BY <1>3, <1>4, <2>1, SigueCuidada DEF CierreSano
<1>5. ASSUME c \in sanas' PROVE Cuidada(c)'
  <2> USE DEF CierreSano, Cuidada
  <2>1. CASE TomarTrabajo(c)
    BY <1>5, <2>1 DEF TomarTrabajo
  <2>2. CASE Correr(c)
    BY <1>5, <2>2 DEF Correr
  <2>3. CASE Terminar(c)
    BY <1>1, <1>5, <2>3 DEF Terminar, PisaFila, EstadoFinal
  <2>4. CASE LiberarTrabajo(c)
    BY <1>5, <2>4 DEF LiberarTrabajo, avance, EstadoFinal
  <2>5. CASE Red(c)
    BY <1>5, <2>5 DEF Red, EstadoFinal
  <2> QED  BY <2>1, <2>2, <2>3, <2>4, <2>5 DEF DeEjecucion
<1>6. ASSUME NEW d \in cerradas' PROVE ejecucion'[d] \in {"ok", "con_problemas", "error"}
  <2>1. CASE d # c
    BY <1>3, <1>6, <2>1 DEF CierreSano
  <2>2. CASE d = c /\ c \in cerradas
    <3>1. ejecucion[c] \in {"ok", "con_problemas", "error"}
      BY <2>2 DEF CierreSano
    <3> QED  BY <1>1, <2>2, <3>1
             DEF DeEjecucion, TomarTrabajo, Correr, Terminar, LiberarTrabajo, Red, PisaFila
  <2>3. CASE d = c /\ c \notin cerradas
    BY <1>1, <1>2, <1>6, <2>3
       DEF DeEjecucion, TomarTrabajo, Correr, Terminar, LiberarTrabajo, Red, avance, Bien
  <2> QED  BY <2>1, <2>2, <2>3
<1> QED  BY <1>4, <1>5, <1>6 DEF CierreSano

LEMMA CierreSigue ==
    CSTypeOK /\ UnaFilaAbierta /\ CierreSano /\ [CSNext]_CSvars => CierreSano'
<1> SUFFICES ASSUME CSTypeOK, UnaFilaAbierta, CierreSano, [CSNext]_CSvars PROVE CierreSano'
  OBVIOUS
<1> USE DEF CSTypeOK
<1>0. \A d \in Corridas : d # SinCorrida
  BY CorridasSupuestas DEF CorridasSupuestas
<1>1. ASSUME NEW c \in Corridas, DeReserva(c) \/ DeEjecucion(c) PROVE CierreSano'
  BY <1>1, CierreEnReserva, CierreEnEjecucion
<1>2. ASSUME NEW c \in Corridas, Morir(c) \/ PerderConexion(c) PROVE CierreSano'
  <2>1. /\ sanas' = sanas \ {c} /\ UNCHANGED <<ejecucion, salida, cerradas>>
        /\ \A d \in Corridas \ {c} : corrida'[d] = corrida[d] /\ (delTrabajo = d => delTrabajo' = d)
    BY <1>2 DEF Morir, PerderConexion
  <2>2. ASSUME NEW d \in sanas' PROVE Cuidada(d)'
    BY <2>1, <2>2, SigueCuidada DEF CierreSano
  <2> QED  BY <2>1, <2>2 DEF CierreSano
<1>3. ASSUME NEW c \in Corridas, Envejecer(c) PROVE CierreSano'
  BY <1>3 DEF Envejecer, avance, CierreSano, Cuidada, EstadoFinal
<1>4. CASE SyncEstado
  <2>1. \A d \in Corridas : \/ ejecucion'[d] = ejecucion[d]
                            \/ delTrabajo = SinCorrida /\ ejecucion[d] = "corriendo"
    BY <1>4 DEF SyncEstado, MarcarHuerfanas, Huerfanas, Corriendo
  <2>2. ASSUME NEW d \in sanas' PROVE Cuidada(d)'
    BY <1>0, <1>4, <2>1, <2>2, SigueCuidada DEF SyncEstado, avance, CierreSano
  <2>3. ASSUME NEW d \in cerradas' PROVE ejecucion'[d] = ejecucion[d]
    BY <1>4, <2>1, <2>3 DEF SyncEstado, avance, CierreSano
  <2> QED  BY <1>4, <2>2, <2>3 DEF SyncEstado, avance, CierreSano
<1>5. CASE UNCHANGED CSvars
  BY <1>5 DEF CSvars, avance, CierreSano, Cuidada, EstadoFinal
<1> QED  BY <1>1, <1>2, <1>3, <1>4, <1>5 DEF CSNext

LEMMA CierreAlInicio == CSInit => CierreSano
BY DEF CSInit, CierreSano

\* A run that held its lock from beginning to end is never given for interrupted by
\* who asks for the state, and its row ends with its outcome, for any runs.
THEOREM ElCierreEsVeraz == CSSpec => []CierreVeraz
<1>1. CSTypeOK /\ CierreSano => CierreVeraz
  BY DEF CSTypeOK, CierreSano, Cuidada, CierreVeraz, EstadoFinal
<1> QED  BY <1>1, CierreAlInicio, CierreSigue, FilaAlInicio, FilaSigue, CSTiposAlInicio, CSTipos,
            PTL DEF CSSpec

\* What a closed row says is never written over, and a run that ends late tells that
\* its close was left out, for any runs.
THEOREM LoCerradoSeQueda == CSSpec => CerradaSeQueda
<1> DEFINE Queda ==
      \A c \in Corridas :
         /\ ejecucion[c] \in Finales => ejecucion'[c] = ejecucion[c]
         /\ corrida[c] = "red" /\ corrida'[c] = "fin" /\ ejecucion'[c] = "interrumpida"
              => c \in omitidas' \/ salida[c] = "excepcion" \/ tropiezos' > tropiezos
<1>1. CSTypeOK /\ UnaFilaAbierta /\ CierreSano /\ [CSNext]_CSvars => [Queda]_CSvars
  <2> SUFFICES ASSUME CSTypeOK, UnaFilaAbierta, CierreSano, CSNext, NEW c \in Corridas
               PROVE  /\ ejecucion[c] \in Finales => ejecucion'[c] = ejecucion[c]
                      /\ corrida[c] = "red" /\ corrida'[c] = "fin" /\ ejecucion'[c] = "interrumpida"
                           => c \in omitidas' \/ salida[c] = "excepcion" \/ tropiezos' > tropiezos
    OBVIOUS
  <2> USE DEF CSTypeOK, Sigue, Finales
  <2>1. corrida[c] = "alta" => ejecucion[c] = "nada"
    BY DEF UnaFilaAbierta, UnGate, SinFilaAun
  <2>2. ASSUME NEW d \in Corridas, DeReserva(d)
        PROVE  (ejecucion[c] \in Finales => ejecucion'[c] = ejecucion[c]) /\ (corrida[c] = "red" => corrida'[c] = "red")
    BY <2>1, <2>2 DEF DeReserva, TomarGate, MarcarAntes, MirarCorriendo, Alta, FallarReserva, SoltarGate,
                      InsertarCorrida, MarcarHuerfanas, Huerfanas, Corriendo
  <2>3. ASSUME NEW d \in Corridas, DeEjecucion(d) PROVE ejecucion[c] \in Finales => ejecucion'[c] = ejecucion[c]
    BY <2>3 DEF DeEjecucion, TomarTrabajo, Correr, Terminar, LiberarTrabajo, Red, Finaliza, PisaFila
  <2>4. ASSUME NEW d \in Corridas, DeEjecucion(d), corrida[c] = "red", corrida'[c] = "fin",
               ejecucion'[c] = "interrumpida"
        PROVE  c \in omitidas' \/ salida[c] = "excepcion" \/ tropiezos' > tropiezos
    <3>1. Red(c)
      BY <2>4 DEF DeEjecucion, TomarTrabajo, Correr, Terminar, LiberarTrabajo, Red
    <3>2. c \in cerradas => ejecucion[c] # "interrumpida"
      BY DEF CierreSano
    <3>3. Finaliza(c) /\ PisaFila(c) => ejecucion'[c] # "interrumpida"
      BY DEF Finaliza, EstadoFinal
    <3> QED  BY <2>4, <3>1, <3>2, <3>3 DEF Red, Tropieza
  <2>5. ASSUME NEW d \in Corridas, Envejecer(d) \/ Morir(d) \/ PerderConexion(d)
        PROVE  ejecucion' = ejecucion /\ (corrida'[c] = corrida[c] \/ tropiezos' > tropiezos)
    BY <2>5 DEF Envejecer, Morir, PerderConexion, Tropieza
  <2>6. CASE SyncEstado
    BY <2>6 DEF SyncEstado, MarcarHuerfanas, Huerfanas, Corriendo
  <2> QED  BY <2>2, <2>3, <2>4, <2>5, <2>6 DEF CSNext
<1> QED  BY <1>1, CierreAlInicio, CierreSigue, FilaAlInicio, FilaSigue, CSTiposAlInicio, CSTipos,
            PTL DEF CSSpec, CerradaSeQueda

-----------------------------------------------------------------------------
(* PriorityLanes: types *)

LEMMA PLTiposAlInicio == PLInit => PLTypeOK
BY DEF PLInit, PLTypeOK, Todas

LEMMA PLTipos == PLTypeOK /\ [PLNext]_PLvars => PLTypeOK'
<1> SUFFICES ASSUME PLTypeOK, [PLNext]_PLvars PROVE PLTypeOK'
  OBVIOUS
<1> USE DEF PLTypeOK, Todas, Miradas, Anda, Hila
<1>0. ASSUME NEW r \in Todas, LibraCarril(r)
      PROVE  /\ mesa' \in Todas \union {Nada} /\ ejecutor' \in Ejecutores \union {Nada}
             /\ anteriores' \in [Ejecutores -> SUBSET Mesas]
  BY <1>0 DEF LibraCarril
<1>1. ASSUME NEW r \in Todas, DePeticion(r) PROVE PLTypeOK'
  <2>1. CASE Empezar(r)
    BY <2>1 DEF Empezar, Primero
  <2>2. CASE Entrar(r) \/ Abandonar(r) \/ Entregar(r)
    BY <2>2 DEF Entrar, Abandonar, Entregar
  <2>3. CASE SoltarTomada(r) \/ SoltarEnHilo(r)
    BY <1>0, <2>3 DEF SoltarTomada, SoltarEnHilo
  <2> QED  BY <1>1, <2>1, <2>2, <2>3 DEF DePeticion
<1>2. ASSUME NEW m \in Mesas, DeMesa(m) PROVE PLTypeOK'
  BY <1>2 DEF DeMesa, ProbarMesa, Aguardar
<1>3. ASSUME NEW e \in Ejecutores, DeEjecutor(e) PROVE PLTypeOK'
  BY <1>3 DEF DeEjecutor, Reintentar, Mirar, DejarDeMirar, ProbarEjecutor, TrasProbar
<1>4. CASE UNCHANGED PLvars
  BY <1>4 DEF PLvars
<1> QED  BY <1>1, <1>2, <1>3, <1>4 DEF PLNext

\* Every reachable state of the lanes is well typed, for any requests.
THEOREM TiposDeCarriles == PLSpec => []PLTypeOK
BY PLTiposAlInicio, PLTipos, PTL DEF PLSpec

-----------------------------------------------------------------------------
(* Who holds a lock: the request it was handed over to, or its thread on the *)
(* way, and never both.  Who looks for a Mesa holds mesa.lock meanwhile.     *)

Suyo(r) == IF r \in Mesas THEN mesa = r ELSE ejecutor = r

Tiene(r) ==
    \/ r \in tomada \/ tarea[r] = "soltando" \/ enHilo[r] \in {"entrega", "suelta"}
    \/ r \in Ejecutores /\ enHilo[r] \in {"remira", "remirando"}

EnOrden(r) ==
    /\ r \in tomada => enHilo[r] = "no" /\ tarea[r] \in {"espera", "dentro"}
    /\ tarea[r] \in {"fuera", "soltando"} => enHilo[r] = "no"
    /\ tarea[r] = "dentro" => r \in tomada
    /\ r \in abandonada <=> tarea[r] \in {"soltando", "fin"}
    /\ r \in Mesas => enHilo[r] \notin Miradas
    /\ Suyo(r) <=> Tiene(r)
    /\ r \in Ejecutores => (mesa = r <=> enHilo[r] \in {"mirando", "remirando"})

\* The Mesa that was in when an executor took its lock, if it still is.
Delante(e) ==
    /\ \A m \in anteriores[e] : mesa = m
    /\ enHilo[e] \in {"remirando", "entrega"} \/ e \in tomada => anteriores[e] = {}

CarrilesEnOrden == (\A r \in Todas : EnOrden(r)) /\ (\A e \in Ejecutores : Delante(e))

LEMMA Distintos ==
    /\ \A r \in Todas : r # Nada /\ (r \in Mesas \/ r \in Ejecutores)
    /\ \A m \in Mesas : m \notin Ejecutores /\ m \in Todas
    /\ \A e \in Ejecutores : e \notin Mesas /\ e \in Todas
BY CarrilesSupuestos DEF CarrilesSupuestos, Todas

\* A step of the request r that holds or not what it held leaves the others in order.
LEMMA OrdenDeLosDemas ==
    ASSUME PLTypeOK, CarrilesEnOrden, NEW r \in Todas, NEW x \in Todas \ {r},
           tarea'[x] = tarea[x], enHilo'[x] = enHilo[x],
           x \in tomada' <=> x \in tomada, x \in abandonada' <=> x \in abandonada,
           mesa' = x <=> mesa = x, ejecutor' = x <=> ejecutor = x
    PROVE  EnOrden(x)'
BY DEF CarrilesEnOrden, EnOrden, Suyo, Tiene

LEMMA OrdenDePeticion ==
    ASSUME PLTypeOK, CarrilesEnOrden, NEW r \in Todas, DePeticion(r)
    PROVE  CarrilesEnOrden'
<1> USE Distintos DEF PLTypeOK, Anda, Hila, Miradas
<1>0. EnOrden(r)
  BY DEF CarrilesEnOrden
<1>1. ASSUME LibraCarril(r), Suyo(r)
      PROVE  /\ ~Suyo(r)'
             /\ \A x \in Todas \ {r} : (mesa' = x <=> mesa = x) /\ (ejecutor' = x <=> ejecutor = x)
             /\ r \in Ejecutores => mesa' = mesa
             /\ \A e \in Ejecutores : anteriores'[e] \subseteq anteriores[e] /\ \A m \in anteriores'[e] : mesa' = m
  BY <1>1 DEF LibraCarril, Suyo, CarrilesEnOrden, Delante
<1>2. ASSUME UNCHANGED <<mesa, ejecutor>>
      PROVE  \A x \in Todas \ {r} : (mesa' = x <=> mesa = x) /\ (ejecutor' = x <=> ejecutor = x)
  BY <1>2
<1>3. CASE Empezar(r) \/ Entrar(r) \/ Abandonar(r) \/ Entregar(r)
  <2>1. UNCHANGED <<mesa, ejecutor, anteriores>>
    BY <1>3 DEF Empezar, Entrar, Abandonar, Entregar
  <2>2. EnOrden(r)'
    BY <1>0, <1>3 DEF Empezar, Entrar, Abandonar, Entregar, EnOrden, Suyo, Tiene, Primero
  <2>3. ASSUME NEW x \in Todas \ {r} PROVE EnOrden(x)'
    BY <1>2, <1>3, <2>1, OrdenDeLosDemas DEF Empezar, Entrar, Abandonar, Entregar
  <2>4. ASSUME NEW e \in Ejecutores PROVE Delante(e)'
    BY <1>3, <2>1 DEF Empezar, Entrar, Abandonar, Entregar, CarrilesEnOrden, Delante, Primero
  <2> QED  BY <2>2, <2>3, <2>4 DEF CarrilesEnOrden
<1>4. CASE SoltarTomada(r) \/ SoltarEnHilo(r)
  <2>1. Suyo(r) /\ LibraCarril(r) /\ UNCHANGED <<abandonada, tomada>>
    BY <1>0, <1>4 DEF SoltarTomada, SoltarEnHilo, EnOrden, Tiene
  <2>2. EnOrden(r)'
    BY <1>0, <1>1, <1>4, <2>1 DEF SoltarTomada, SoltarEnHilo, EnOrden, Tiene
  <2>3. ASSUME NEW x \in Todas \ {r} PROVE EnOrden(x)'
    BY <1>1, <1>4, <2>1, OrdenDeLosDemas DEF SoltarTomada, SoltarEnHilo
  <2>4. ASSUME NEW e \in Ejecutores PROVE Delante(e)'
    BY <1>1, <1>4, <2>1 DEF SoltarTomada, SoltarEnHilo, CarrilesEnOrden, Delante
  <2> QED  BY <2>2, <2>3, <2>4 DEF CarrilesEnOrden
<1> QED  BY <1>3, <1>4 DEF DePeticion

LEMMA OrdenDeMesa ==
    ASSUME PLTypeOK, CarrilesEnOrden, NEW m \in Mesas, DeMesa(m)
    PROVE  CarrilesEnOrden'
<1> USE Distintos DEF PLTypeOK, Hila, Miradas
<1>0. EnOrden(m) /\ UNCHANGED <<ejecutor, tarea, abandonada, tomada, anteriores>>
  BY DEF CarrilesEnOrden, DeMesa, ProbarMesa, Aguardar
<1>1. EnOrden(m)'
  BY <1>0 DEF DeMesa, ProbarMesa, Aguardar, EnOrden, Suyo, Tiene
<1>2. ASSUME NEW x \in Todas \ {m} PROVE EnOrden(x)'
  BY <1>0, OrdenDeLosDemas DEF DeMesa, ProbarMesa, Aguardar
<1>3. ASSUME NEW e \in Ejecutores PROVE Delante(e)'
  BY <1>0 DEF DeMesa, ProbarMesa, Aguardar, CarrilesEnOrden, Delante
<1> QED  BY <1>1, <1>2, <1>3 DEF CarrilesEnOrden

LEMMA OrdenDeEjecutor ==
    ASSUME PLTypeOK, CarrilesEnOrden, NEW e \in Ejecutores, DeEjecutor(e)
    PROVE  CarrilesEnOrden'
<1> USE Distintos DEF PLTypeOK, Hila, Miradas
<1>0. EnOrden(e) /\ Delante(e) /\ UNCHANGED <<tarea, abandonada, tomada>>
  BY DEF CarrilesEnOrden, DeEjecutor, Reintentar, Mirar, DejarDeMirar, ProbarEjecutor
<1>1. EnOrden(e)'
  BY <1>0 DEF DeEjecutor, Reintentar, Mirar, DejarDeMirar, ProbarEjecutor, TrasProbar, EnOrden, Suyo, Tiene
<1>2. ASSUME NEW x \in Todas \ {e} PROVE EnOrden(x)'
  <2>1. (mesa' = x <=> mesa = x) /\ (ejecutor' = x <=> ejecutor = x) /\ enHilo'[x] = enHilo[x]
    BY <1>0 DEF DeEjecutor, Reintentar, Mirar, DejarDeMirar, ProbarEjecutor, EnOrden
  <2> QED  BY <1>0, <2>1, OrdenDeLosDemas
<1>3. ASSUME NEW d \in Ejecutores PROVE Delante(d)'
  <2>1. Delante(d)
    BY DEF CarrilesEnOrden
  <2>2. CASE Reintentar(e)
    BY <1>0, <2>1, <2>2 DEF Reintentar, Delante
  <2>3. CASE Mirar(e)
    BY <1>0, <2>1, <2>3 DEF Mirar, Delante
  <2>4. CASE DejarDeMirar(e)
    BY <1>0, <2>1, <2>4 DEF DejarDeMirar, Delante, EnOrden
  <2>5. CASE ProbarEjecutor(e)
    <3>1. enHilo[e] = "prueba" /\ e \notin tomada /\ UNCHANGED mesa
      BY <1>0, <2>5 DEF ProbarEjecutor, EnOrden
    <3> QED  BY <1>0, <2>1, <2>5, <3>1 DEF ProbarEjecutor, TrasProbar, Delante
  <2> QED  BY <2>2, <2>3, <2>4, <2>5 DEF DeEjecutor
<1> QED  BY <1>1, <1>2, <1>3 DEF CarrilesEnOrden

LEMMA OrdenSigue == PLTypeOK /\ CarrilesEnOrden /\ [PLNext]_PLvars => CarrilesEnOrden'
<1> SUFFICES ASSUME PLTypeOK, CarrilesEnOrden, [PLNext]_PLvars PROVE CarrilesEnOrden'
  OBVIOUS
<1>1. CASE PLNext
  BY <1>1, OrdenDePeticion, OrdenDeMesa, OrdenDeEjecutor DEF PLNext
<1>2. CASE UNCHANGED PLvars
  BY <1>2 DEF PLvars, CarrilesEnOrden, EnOrden, Delante, Suyo, Tiene
<1> QED  BY <1>1, <1>2

LEMMA OrdenAlInicio == PLInit => CarrilesEnOrden
BY Distintos DEF PLInit, CarrilesEnOrden, EnOrden, Delante, Suyo, Tiene, Miradas, Todas

\* For any requests, whoever is in a lane holds its lock and nobody who has left
\* keeps one, wherever it was cancelled.
THEOREM CadaCarrilConSuDueno == PLSpec => []CarrilConDueno
<1>1. CarrilesEnOrden => CarrilConDueno
  BY Distintos DEF CarrilesEnOrden, EnOrden, Suyo, Tiene, Miradas, CarrilConDueno
<1> QED  BY <1>1, OrdenAlInicio, OrdenSigue, PLTiposAlInicio, PLTipos, PTL DEF PLSpec

\* For any requests, an executor is not let in past a Mesa that was in before it.
THEOREM LaMesaVaPrimero == PLSpec => []MesaPrimero
<1>1. CarrilesEnOrden => MesaPrimero
  BY DEF CarrilesEnOrden, Delante, MesaPrimero
<1> QED  BY <1>1, OrdenAlInicio, OrdenSigue, PLTiposAlInicio, PLTipos, PTL DEF PLSpec

-----------------------------------------------------------------------------
(* PdfPool: what each place of an extraction says of its pool, of its work   *)
(* and of its turn.                                                          *)

ConElTurno == {"pool", "crea", "corre", "vigila", "recicla", "mata"}

\* Who holds the lock kills the pool in use, or is the shutdown.
UnSoloReciclado ==
    /\ \A q \in Quienes : donde[q] = "mata" <=> reciclando = q
    /\ donde[Cierre] = "mata" => cerrado
    /\ \A r \in Extracciones : donde[r] = "mata" =>
          /\ suyo[r] = actual /\ actual \in Pools
          /\ actual \in matanza \/ pools[actual] = "muerto"

Colocada(r) ==
    /\ donde[r] \in {"recicla", "mata", "corre", "vigila"} => suyo[r] \in Pools
    /\ donde[r] \in {"fuera", "turno", "pool", "crea"} => futuro[r] = "no"
    /\ donde[r] \in {"recicla", "mata"} /\ despues[r] = "pool" => futuro[r] = "no"
    /\ donde[r] \in ConElTurno <=> r \in conTurno
    /\ futuro[r] = "corre" => /\ suyo[r] \in Pools /\ pools[suyo[r]] = "sirve"
                              /\ r \in conTurno \/ suyo[r] \in matanza \union sobrevive

PoolEnOrden == UnSoloReciclado /\ NingunPoolFantasma /\ \A r \in Extracciones : Colocada(r)

LEMMA Nombres ==
    /\ \A r \in Extracciones : r # Cierre /\ r # SinDueno /\ r \in Quienes
    /\ Cierre # SinDueno /\ Cierre \in Quienes /\ (\A q \in Quienes : q # SinDueno)
    /\ \A q \in Quienes : q = Cierre \/ q \in Extracciones
    /\ Ninguno \notin Pools /\ MaxRoturas \in Nat
    /\ 1 \in Pools
BY PoolSupuestos DEF PoolSupuestos, Quienes, Pools, Ninguno

LEMMA CreaTipada ==
    ASSUME PPTypeOK, Crea
    PROVE  /\ actual' \in Pools /\ pools[actual'] = "nuevo"
           /\ pools' = [pools EXCEPT ![actual'] = "sirve"]
<1>1. PICK p \in Pools : /\ \A x \in Pools : x < p <=> pools[x] # "nuevo"
                         /\ actual' = p /\ pools' = [pools EXCEPT ![p] = "sirve"]
  BY DEF Crea
<1>2. ~(p < p)
  BY DEF Pools
<1> QED  BY <1>1, <1>2

LEMMA PoolAlInicio == PPInit => PPTypeOK /\ PoolEnOrden
<1> SUFFICES ASSUME PPInit PROVE PPTypeOK /\ PoolEnOrden
  OBVIOUS
<1> USE Nombres
<1>1. PPTypeOK
  <2>1. actual \in Pools \union {Ninguno} /\ pools \in [Pools -> {"nuevo", "sirve", "roto", "muerto"}]
    BY DEF PPInit
  <2>2. roturas \in 0 .. MaxRoturas /\ reciclando \in Quienes \union {SinDueno}
    BY DEF PPInit
  <2>3. cerrado \in BOOLEAN /\ matanza \subseteq Pools /\ sobrevive \subseteq Pools /\ conTurno \subseteq Extracciones
    BY Zenon DEF PPInit
  <2>4. /\ donde \in [Quienes -> {"fuera", "turno", "pool", "crea", "corre", "vigila", "recicla", "mata", "fin"}]
        /\ despues \in [Extracciones -> {"pool", "fin"}]
        /\ suyo \in [Extracciones -> Pools \union {Ninguno}]
        /\ futuro \in [Extracciones -> {"no", "corre", "listo", "roto"}]
    BY DEF PPInit
  <2> QED  BY <2>1, <2>2, <2>3, <2>4 DEF PPTypeOK
<1>2. UnSoloReciclado /\ NingunPoolFantasma
  BY DEF PPInit, UnSoloReciclado, NingunPoolFantasma
<1>3. \A r \in Extracciones : Colocada(r)
  BY DEF PPInit, Colocada, ConElTurno
<1> QED  BY <1>1, <1>2, <1>3 DEF PoolEnOrden

LEMMA TiposDeExtraccion ==
    ASSUME PPTypeOK, PoolEnOrden, NEW r \in Extracciones, DeExtraccion(r)
    PROVE  PPTypeOK'
<1> USE Nombres DEF PPTypeOK, elPool, trabajo, Pasa, Termina
<1>0. Colocada(r)
  BY DEF PoolEnOrden
<1>1. ASSUME NEW p \in Pools, Envia(r, p)
      PROVE  /\ donde' \in [Quienes -> {"fuera", "turno", "pool", "crea", "corre", "vigila", "recicla", "mata", "fin"}]
             /\ despues' \in [Extracciones -> {"pool", "fin"}]
             /\ suyo' \in [Extracciones -> Pools \union {Ninguno}]
             /\ futuro' \in [Extracciones -> {"no", "corre", "listo", "roto"}]
  BY <1>1 DEF Envia, PideReciclar
<1>2. CASE Pedir(r) \/ TomarTurno(r) \/ Extraer(r) \/ Recibir(r) \/ CancelarReciclado(r)
  BY <1>2 DEF Pedir, TomarTurno, Extraer, Recibir, CancelarReciclado
<1>3. CASE BuscarPool(r)
  BY <1>1, <1>3 DEF BuscarPool, PideReciclar, Sirve
<1>4. CASE CrearPool(r)
  BY <1>1, <1>4, CreaTipada DEF CrearPool
<1>5. CASE Fallar(r)
  BY <1>0, <1>5 DEF Fallar, PideReciclar, Colocada
<1>6. CASE Cancelar(r)
  BY <1>6 DEF Cancelar, TrasCancelar
<1>7. CASE TomarCandado(r)
  <2>1. CASE TrasReciclar(r, actual) /\ UNCHANGED <<reciclando, matanza>>
    <3>1. CASE actual # Ninguno /\ Envia(r, actual)
      BY <1>1, <1>7, <2>1, <3>1 DEF TomarCandado, TrasReciclar
    <3>2. CASE Termina(r) /\ UNCHANGED <<despues, suyo, futuro>>
      BY <1>7, <2>1, <3>2 DEF TomarCandado
    <3> QED  BY <2>1, <3>1, <3>2 DEF TrasReciclar
  <2>2. CASE reciclando' = r /\ matanza' = matanza \union {suyo[r]} /\ Pasa(r, "mata") /\ UNCHANGED trabajo
    BY <1>0, <1>7, <2>2 DEF TomarCandado, Colocada
  <2> QED  BY <1>7, <2>1, <2>2 DEF TomarCandado
<1>8. CASE Reponer(r)
  BY <1>8, CreaTipada DEF Reponer
<1> QED  BY <1>2, <1>3, <1>4, <1>5, <1>6, <1>7, <1>8 DEF DeExtraccion

LEMMA PoolTipos == PPTypeOK /\ PoolEnOrden /\ [PPNext]_PPvars => PPTypeOK'
<1> SUFFICES ASSUME PPTypeOK, PoolEnOrden, [PPNext]_PPvars PROVE PPTypeOK'
  OBVIOUS
<1> USE Nombres DEF PPTypeOK, elPool, trabajo, Pasa
<1>1. ASSUME NEW r \in Extracciones, DeExtraccion(r) PROVE PPTypeOK'
  BY <1>1, TiposDeExtraccion
<1>2. ASSUME NEW p \in Pools, Matar(p) \/ Romper(p) PROVE PPTypeOK'
  BY <1>2 DEF Matar, Romper, Rotos
<1>3. CASE PedirCierre \/ Cerrado
  BY <1>3 DEF PedirCierre, Cerrado
<1>4. CASE Cerrar
  <2>1. cerrado' \in BOOLEAN
    BY <1>4, Zenon DEF Cerrar
  <2>2. matanza' \subseteq Pools /\ reciclando' \in Quienes \union {SinDueno}
    BY <1>4 DEF Cerrar
  <2>3. donde' \in [Quienes -> {"fuera", "turno", "pool", "crea", "corre", "vigila", "recicla", "mata", "fin"}]
    BY <1>4 DEF Cerrar
  <2> QED  BY <1>4, <2>1, <2>2, <2>3 DEF Cerrar
<1>5. CASE UNCHANGED PPvars
  BY <1>5 DEF PPvars
<1> QED  BY <1>1, <1>2, <1>3, <1>4, <1>5 DEF PPNext

LEMMA Mueve ==
    ASSUME PPTypeOK, NEW q \in Quienes, NEW hacia, Pasa(q, hacia)
    PROVE  donde'[q] = hacia /\ \A x \in Quienes : x # q => donde'[x] = donde[x]
BY DEF PPTypeOK, Pasa

\* Whoever holds the lock, a pool that serves is not hit by a cancellation: it is being killed.
LEMMA ConCandado ==
    ASSUME PPTypeOK, PoolEnOrden, reciclando # SinDueno, NEW p \in Pools, pools[p] = "sirve"
    PROVE  p \in matanza
<1>1. reciclando \in Quienes /\ donde[reciclando] = "mata"
  BY DEF PPTypeOK, PoolEnOrden, UnSoloReciclado
<1>2. CASE reciclando = Cierre
  BY <1>1, <1>2, Nombres DEF PoolEnOrden, UnSoloReciclado, NingunPoolFantasma
<1>3. CASE reciclando \in Extracciones
  BY <1>1, <1>3 DEF PoolEnOrden, UnSoloReciclado, NingunPoolFantasma
<1> QED  BY <1>1, <1>2, <1>3, Nombres

\* Steps that leave the pool, the lock and every killer alone.
LEMMA OrdenFueraDelCandado ==
    ASSUME PPTypeOK, PoolEnOrden, NEW r \in Extracciones, UNCHANGED elPool,
           NEW hacia, hacia # "mata", Pasa(r, hacia), donde[r] # "mata",
           \A s \in Extracciones : s # r => suyo'[s] = suyo[s]
    PROVE  UnSoloReciclado' /\ NingunPoolFantasma'
<1> USE Nombres DEF elPool
<1>1. donde'[r] = hacia /\ \A q \in Quienes : q # r => donde'[q] = donde[q]
  BY Mueve
<1>2. \A q \in Quienes : donde'[q] = "mata" <=> donde[q] = "mata"
  BY <1>1
<1>3. UnSoloReciclado'
  BY <1>1, <1>2 DEF PoolEnOrden, UnSoloReciclado
<1>4. NingunPoolFantasma'
  BY DEF PoolEnOrden, NingunPoolFantasma
<1> QED  BY <1>3, <1>4

\* Every other extraction stays where it was.
LEMMA LosDemas ==
    ASSUME PPTypeOK, PoolEnOrden, PPTypeOK',
           NEW r \in Extracciones, NEW hacia, Pasa(r, hacia),
           NEW s \in Extracciones, s # r,
           suyo'[s] = suyo[s], futuro'[s] = futuro[s], despues'[s] = despues[s],
           s \in conTurno' <=> s \in conTurno,
           matanza \union sobrevive \subseteq matanza' \union sobrevive',
           \A p \in Pools : pools[p] = "sirve" => pools'[p] = "sirve"
    PROVE  Colocada(s)'
<1>1. donde'[s] = donde[s]
  BY Mueve, Nombres
<1> QED  BY <1>1 DEF PoolEnOrden, Colocada, ConElTurno

\* The work is sent to the pool in use by an extraction that has none sent.
LEMMA ElEnvio ==
    ASSUME PPTypeOK, PoolEnOrden, PPTypeOK', NEW r \in Extracciones, actual \in Pools, Envia(r, actual),
           UNCHANGED elPool, r \in conTurno, conTurno' = conTurno,
           futuro[r] = "no", donde[r] # "mata"
    PROVE  PoolEnOrden'
<1> USE Nombres DEF elPool
<1>1. \A s \in Extracciones : s # r => suyo'[s] = suyo[s] /\ futuro'[s] = futuro[s] /\ despues'[s] = despues[s]
  BY DEF Envia, PideReciclar, PPTypeOK
<1>2. CASE Sirve(actual)
  <2>1. Pasa(r, "corre") /\ suyo'[r] = actual
    BY <1>2 DEF Envia, PPTypeOK
  <2>2. UnSoloReciclado' /\ NingunPoolFantasma'
    BY <1>1, <2>1, OrdenFueraDelCandado
  <2>3. Colocada(r)'
    BY <1>2, <2>1, Mueve DEF Colocada, ConElTurno, Sirve
  <2>4. \A s \in Extracciones : s # r => Colocada(s)'
    BY <1>1, <2>1, LosDemas
  <2> QED  BY <2>2, <2>3, <2>4 DEF PoolEnOrden
<1>3. CASE ~Sirve(actual)
  <2>1. Pasa(r, "recicla") /\ suyo'[r] = actual /\ futuro'[r] = "no"
    BY <1>3 DEF Envia, PideReciclar, PPTypeOK
  <2>2. UnSoloReciclado' /\ NingunPoolFantasma'
    BY <1>1, <2>1, OrdenFueraDelCandado
  <2>3. Colocada(r)'
    BY <2>1, Mueve DEF Colocada, ConElTurno
  <2>4. \A s \in Extracciones : s # r => Colocada(s)'
    BY <1>1, <2>1, LosDemas
  <2> QED  BY <2>2, <2>3, <2>4 DEF PoolEnOrden
<1> QED  BY <1>2, <1>3

\* An extraction goes on to another place that holds its turn.
LEMMA ElPaso ==
    ASSUME PPTypeOK, PoolEnOrden, PPTypeOK', NEW r \in Extracciones, UNCHANGED <<elPool, conTurno>>,
           NEW hacia \in ConElTurno, hacia # "mata", Pasa(r, hacia), donde[r] \in ConElTurno, donde[r] # "mata",
           \A s \in Extracciones : s # r => suyo'[s] = suyo[s] /\ futuro'[s] = futuro[s] /\ despues'[s] = despues[s],
           futuro'[r] = "corre" => futuro[r] = "corre" /\ suyo'[r] = suyo[r],
           hacia \in {"recicla", "corre", "vigila"} => suyo'[r] \in Pools,
           hacia \in {"pool", "crea"} => futuro'[r] = "no",
           hacia = "recicla" /\ despues'[r] = "pool" => futuro'[r] = "no"
    PROVE  PoolEnOrden'
<1> USE Nombres DEF elPool
<1>1. UnSoloReciclado' /\ NingunPoolFantasma'
  BY OrdenFueraDelCandado
<1>2. donde'[r] = hacia
  BY Mueve
<1>3. Colocada(r)'
  BY <1>2 DEF PoolEnOrden, Colocada, ConElTurno
<1>4. \A s \in Extracciones : s # r => Colocada(s)'
  BY LosDemas
<1> QED  BY <1>1, <1>3, <1>4 DEF PoolEnOrden

\* An extraction ends that has nothing running in a pool out of danger.
LEMMA ElFinal ==
    ASSUME PPTypeOK, PoolEnOrden, PPTypeOK', NEW r \in Extracciones, Termina(r),
           UNCHANGED <<elPool, despues, suyo, futuro>>, donde[r] # "mata",
           futuro[r] = "corre" => suyo[r] \in matanza \union sobrevive
    PROVE  PoolEnOrden'
<1> USE Nombres DEF elPool, Termina
<1>1. UnSoloReciclado' /\ NingunPoolFantasma'
  BY OrdenFueraDelCandado
<1>2. donde'[r] = "fin" /\ r \notin conTurno'
  BY Mueve
<1>3. Colocada(r)'
  BY <1>2 DEF PoolEnOrden, Colocada, ConElTurno
<1>4. \A s \in Extracciones : s # r => Colocada(s)'
  BY LosDemas
<1> QED  BY <1>1, <1>3, <1>4 DEF PoolEnOrden

LEMMA OrdenDeLaPeticion ==
    ASSUME PPTypeOK, PoolEnOrden, PPTypeOK', NEW r \in Extracciones,
           Pedir(r) \/ TomarTurno(r) \/ BuscarPool(r) \/ Extraer(r) \/ Recibir(r) \/ Fallar(r) \/ Cancelar(r)
    PROVE  PoolEnOrden'
<1> USE Nombres
<1>0. Colocada(r)
  BY DEF PoolEnOrden
<1>1. CASE Pedir(r)
  <2>1. donde'[r] = "turno" /\ UNCHANGED <<elPool, trabajo>>
    BY <1>1, Mueve DEF Pedir
  <2>2. UnSoloReciclado' /\ NingunPoolFantasma'
    BY <1>1, OrdenFueraDelCandado DEF Pedir, trabajo
  <2>3. Colocada(r)'
    BY <1>0, <1>1, <2>1 DEF Pedir, Colocada, ConElTurno, elPool, trabajo
  <2>4. \A s \in Extracciones : s # r => Colocada(s)'
    BY <1>1, LosDemas DEF Pedir, elPool, trabajo
  <2> QED  BY <2>2, <2>3, <2>4 DEF PoolEnOrden
<1>2. CASE TomarTurno(r)
  <2>1. CASE Termina(r)
    BY <1>0, <1>2, <2>1, ElFinal DEF TomarTurno, Colocada
  <2>2. CASE conTurno' = conTurno \union {r} /\ Pasa(r, "pool")
    <3>1. donde'[r] = "pool" /\ UNCHANGED <<elPool, despues, suyo, futuro>>
      BY <1>2, <2>2, Mueve DEF TomarTurno
    <3>2. UnSoloReciclado' /\ NingunPoolFantasma'
      BY <1>2, <2>2, <3>1, OrdenFueraDelCandado DEF TomarTurno
    <3>3. Colocada(r)'
      BY <1>0, <1>2, <2>2, <3>1 DEF TomarTurno, Colocada, ConElTurno, elPool
    <3>4. \A s \in Extracciones : s # r => Colocada(s)'
      BY <2>2, <3>1, LosDemas DEF elPool
    <3> QED  BY <3>2, <3>3, <3>4 DEF PoolEnOrden
  <2> QED  BY <1>2, <2>1, <2>2 DEF TomarTurno
<1>3. CASE BuscarPool(r)
  <2>0. donde[r] = "pool" /\ futuro[r] = "no" /\ r \in conTurno /\ UNCHANGED <<elPool, conTurno>>
    BY <1>0, <1>3 DEF BuscarPool, Colocada, ConElTurno
  <2>1. CASE Sirve(actual) /\ Envia(r, actual)
    BY <2>0, <2>1, ElEnvio DEF Sirve
  <2>2. CASE actual # Ninguno /\ UNCHANGED futuro /\ \E luego \in {"pool", "fin"} : PideReciclar(r, actual, luego)
    <3>1. actual \in Pools
      BY <2>2 DEF PPTypeOK
    <3>2. Pasa(r, "recicla") /\ suyo'[r] = actual
      BY <2>2 DEF PideReciclar, PPTypeOK
    <3>3. \A s \in Extracciones : s # r => suyo'[s] = suyo[s] /\ futuro'[s] = futuro[s] /\ despues'[s] = despues[s]
      BY <2>2 DEF PideReciclar, PPTypeOK
    <3>4. futuro'[r] = "no"
      BY <2>0, <2>2
    <3> QED  BY <2>0, <3>1, <3>2, <3>3, <3>4, ElPaso DEF ConElTurno
  <2>3. CASE Pasa(r, "crea") /\ UNCHANGED <<despues, suyo, futuro>>
    BY <2>0, <2>3, ElPaso DEF ConElTurno
  <2> QED  BY <1>3, <2>1, <2>2, <2>3 DEF BuscarPool
<1>4. CASE Extraer(r)
  <2>1. UNCHANGED <<elPool, donde, despues, suyo, conTurno>> /\ futuro'[r] = "listo" /\ futuro[r] = "corre"
        /\ \A s \in Extracciones : s # r => futuro'[s] = futuro[s]
    BY <1>4 DEF Extraer, PPTypeOK
  <2>2. UnSoloReciclado' /\ NingunPoolFantasma'
    BY <2>1 DEF PoolEnOrden, UnSoloReciclado, NingunPoolFantasma, elPool
  <2>3. \A s \in Extracciones : Colocada(s)'
    BY <2>1 DEF PoolEnOrden, Colocada, ConElTurno, elPool
  <2> QED  BY <2>2, <2>3 DEF PoolEnOrden
<1>5. CASE Recibir(r)
  BY <1>5, ElFinal DEF Recibir
<1>6. CASE Fallar(r)
  <2>1. UNCHANGED <<elPool, futuro, conTurno>> /\ Pasa(r, "recicla") /\ suyo'[r] = suyo[r] /\ despues'[r] = "fin"
    BY <1>6 DEF Fallar, PideReciclar, PPTypeOK
  <2>2. \A s \in Extracciones : s # r => suyo'[s] = suyo[s] /\ futuro'[s] = futuro[s] /\ despues'[s] = despues[s]
    BY <1>6 DEF Fallar, PideReciclar, PPTypeOK
  <2>3. suyo[r] \in Pools /\ donde[r] \in {"corre", "vigila"}
    BY <1>0, <1>6 DEF Fallar, Colocada
  <2> QED  BY <2>1, <2>2, <2>3, ElPaso DEF ConElTurno
<1>7. CASE Cancelar(r)
  <2>1. CASE futuro[r] = "corre"
    <3>1. Pasa(r, "vigila") /\ UNCHANGED <<elPool, despues, suyo, futuro, conTurno>>
      BY <1>7, <2>1 DEF Cancelar, TrasCancelar
    <3>2. suyo[r] \in Pools /\ donde[r] \in {"pool", "crea", "corre"}
      BY <1>0, <1>7, <2>1 DEF Cancelar, Colocada
    <3> QED  BY <3>1, <3>2, ElPaso DEF ConElTurno
  <2>2. CASE futuro[r] # "corre"
    BY <1>7, <2>2, ElFinal DEF Cancelar, TrasCancelar
  <2> QED  BY <2>1, <2>2
<1> QED  BY <1>1, <1>2, <1>3, <1>4, <1>5, <1>6, <1>7

\* A pool is created by whoever the lock lets in, where the one in use does not serve.
LEMMA ElNuevo ==
    ASSUME PPTypeOK, PoolEnOrden, PPTypeOK', Crea, pools[actual] # "sirve" \/ actual = Ninguno, ~cerrado,
           NEW r \in Extracciones, UNCHANGED <<cerrado, matanza, sobrevive>>, reciclando' = SinDueno,
           NEW hacia \in {"corre", "fin"}, Pasa(r, hacia),
           \A q \in Quienes : q # r => donde[q] # "mata",
           \A s \in Extracciones : s # r => suyo'[s] = suyo[s] /\ futuro'[s] = futuro[s] /\ despues'[s] = despues[s],
           hacia = "corre" => suyo'[r] = actual' /\ r \in conTurno /\ conTurno' = conTurno,
           hacia = "fin" => futuro'[r] # "corre" /\ conTurno' = conTurno \ {r}
    PROVE  PoolEnOrden'
<1> USE Nombres
<1>1. /\ actual' \in Pools /\ pools[actual'] = "nuevo" /\ pools'[actual'] = "sirve"
      /\ \A p \in Pools : p # actual' => pools'[p] = pools[p]
  BY CreaTipada DEF PPTypeOK
<1>2. donde'[r] = hacia /\ \A q \in Quienes : q # r => donde'[q] = donde[q]
  BY Mueve
<1>3. UnSoloReciclado'
  BY <1>2 DEF UnSoloReciclado
<1>4. NingunPoolFantasma'
  BY <1>1 DEF PoolEnOrden, NingunPoolFantasma
<1>5. Colocada(r)'
  BY <1>1, <1>2 DEF Colocada, ConElTurno
<1>6. \A p \in Pools : pools[p] = "sirve" => pools'[p] = "sirve"
  BY <1>1
<1>7. \A s \in Extracciones : s # r => Colocada(s)'
  BY <1>6, LosDemas
<1> QED  BY <1>3, <1>4, <1>5, <1>7 DEF PoolEnOrden

LEMMA OrdenAlCrear ==
    ASSUME PPTypeOK, PoolEnOrden, PPTypeOK', NEW r \in Extracciones, CrearPool(r)
    PROVE  PoolEnOrden'
<1> USE Nombres
<1>0. /\ donde[r] = "crea" /\ futuro[r] = "no" /\ r \in conTurno /\ reciclando = SinDueno
      /\ UNCHANGED <<cerrado, reciclando, matanza, sobrevive, roturas>>
  BY DEF CrearPool, PoolEnOrden, Colocada, ConElTurno
<1>1. CASE cerrado /\ Termina(r) /\ UNCHANGED <<actual, pools, despues, suyo, futuro>>
  <2>1. UNCHANGED <<elPool, despues, suyo, futuro>>
    BY <1>0, <1>1 DEF elPool
  <2> QED  BY <1>0, <1>1, <2>1, ElFinal
<1>2. CASE ~cerrado /\ actual # Ninguno /\ Envia(r, actual) /\ UNCHANGED <<actual, pools, conTurno>>
  <2>1. UNCHANGED elPool /\ actual \in Pools
    BY <1>0, <1>2 DEF elPool, PPTypeOK
  <2> QED  BY <1>0, <1>2, <2>1, ElEnvio
<1>3. CASE /\ ~cerrado /\ actual = Ninguno /\ Crea /\ Pasa(r, "corre")
           /\ suyo' = [suyo EXCEPT ![r] = actual'] /\ futuro' = [futuro EXCEPT ![r] = "corre"]
           /\ UNCHANGED <<despues, conTurno>>
  <2>1. \A q \in Quienes : q # r => donde[q] # "mata"
    BY <1>0 DEF PoolEnOrden, UnSoloReciclado
  <2>2. suyo'[r] = actual' /\ \A s \in Extracciones : s # r => suyo'[s] = suyo[s] /\ futuro'[s] = futuro[s] /\ despues'[s] = despues[s]
    BY <1>3 DEF PPTypeOK
  <2> QED  BY <1>0, <1>3, <2>1, <2>2, ElNuevo
<1> QED  BY <1>1, <1>2, <1>3 DEF CrearPool

LEMMA OrdenAlReponer ==
    ASSUME PPTypeOK, PoolEnOrden, PPTypeOK', NEW r \in Extracciones, Reponer(r)
    PROVE  PoolEnOrden'
<1> USE Nombres
<1>1. /\ donde[r] = "mata" /\ suyo[r] = actual /\ pools[actual] = "muerto" /\ r \in conTurno /\ futuro[r] # "corre"
      /\ Crea /\ ~cerrado /\ reciclando' = SinDueno /\ UNCHANGED <<cerrado, matanza, sobrevive>>
  BY DEF Reponer, PoolEnOrden, UnSoloReciclado, Colocada, ConElTurno
<1>2. \A q \in Quienes : q # r => donde[q] # "mata"
  BY <1>1 DEF PoolEnOrden, UnSoloReciclado
<1>3. CASE Termina(r) /\ UNCHANGED <<despues, suyo, futuro>>
  BY <1>1, <1>2, <1>3, ElNuevo DEF Termina
<1>4. CASE /\ Pasa(r, "corre") /\ suyo' = [suyo EXCEPT ![r] = actual']
           /\ futuro' = [futuro EXCEPT ![r] = "corre"] /\ UNCHANGED <<despues, conTurno>>
  <2>1. suyo'[r] = actual' /\ \A s \in Extracciones : s # r => suyo'[s] = suyo[s] /\ futuro'[s] = futuro[s] /\ despues'[s] = despues[s]
    BY <1>4 DEF PPTypeOK
  <2> QED  BY <1>1, <1>2, <1>4, <2>1, ElNuevo
<1> QED  BY <1>3, <1>4 DEF Reponer

LEMMA OrdenAlReciclar ==
    ASSUME PPTypeOK, PoolEnOrden, PPTypeOK', NEW r \in Extracciones, TomarCandado(r)
    PROVE  PoolEnOrden'
<1> USE Nombres
<1>0. /\ donde[r] = "recicla" /\ reciclando = SinDueno /\ suyo[r] \in Pools /\ r \in conTurno
      /\ UNCHANGED <<actual, pools, cerrado, sobrevive, roturas>>
      /\ despues[r] = "pool" => futuro[r] = "no"
  BY DEF TomarCandado, PoolEnOrden, Colocada, ConElTurno
<1>1. CASE ~EsElActual(suyo[r]) /\ TrasReciclar(r, actual) /\ UNCHANGED <<reciclando, matanza>>
  <2>1. UNCHANGED elPool
    BY <1>0, <1>1 DEF elPool
  <2>2. CASE Termina(r) /\ UNCHANGED <<despues, suyo, futuro>>
    <3>1. futuro[r] = "corre" => suyo[r] \in matanza
      BY <1>0, <1>1 DEF EsElActual, PoolEnOrden, Colocada, NingunPoolFantasma
    <3> QED  BY <1>0, <2>1, <2>2, <3>1, ElFinal
  <2>3. CASE despues[r] = "pool" /\ actual # Ninguno /\ Envia(r, actual) /\ UNCHANGED conTurno
    <3>1. actual \in Pools
      BY <2>3 DEF PPTypeOK
    <3> QED  BY <1>0, <2>1, <2>3, <3>1, ElEnvio
  <2> QED  BY <1>1, <2>2, <2>3 DEF TrasReciclar
<1>2. CASE /\ EsElActual(suyo[r]) /\ reciclando' = r /\ matanza' = matanza \union {suyo[r]}
           /\ Pasa(r, "mata") /\ UNCHANGED trabajo
  <2>1. suyo[r] = actual /\ actual \in Pools /\ actual \in matanza'
    BY <1>0, <1>2 DEF EsElActual
  <2>2. donde'[r] = "mata" /\ \A q \in Quienes : q # r => donde'[q] = donde[q] /\ donde[q] # "mata"
    BY <1>0, <1>2, Mueve DEF PoolEnOrden, UnSoloReciclado
  <2>3. UnSoloReciclado'
    BY <1>0, <1>2, <2>1, <2>2 DEF UnSoloReciclado, trabajo
  <2>4. NingunPoolFantasma'
    BY <1>0, <1>2 DEF PoolEnOrden, NingunPoolFantasma
  <2>5. Colocada(r)'
    BY <1>0, <1>2, <2>2 DEF PoolEnOrden, Colocada, ConElTurno, trabajo
  <2>6. \A s \in Extracciones : s # r => Colocada(s)'
    BY <1>0, <1>2, LosDemas DEF trabajo
  <2> QED  BY <2>3, <2>4, <2>5, <2>6 DEF PoolEnOrden
<1> QED  BY <1>1, <1>2 DEF TomarCandado

LEMMA OrdenAlCancelar ==
    ASSUME PPTypeOK, PoolEnOrden, PPTypeOK', NEW r \in Extracciones, CancelarReciclado(r)
    PROVE  PoolEnOrden'
<1> USE Nombres DEF Termina
<1>0. Termina(r) /\ UNCHANGED <<actual, pools, cerrado, roturas, despues, suyo, futuro>> /\ Colocada(r)
  BY DEF CancelarReciclado, PoolEnOrden
<1>1. CASE donde[r] = "recicla" /\ reciclando # SinDueno /\ UNCHANGED <<reciclando, matanza, sobrevive>>
  <2>1. futuro[r] = "corre" => suyo[r] \in matanza
    BY <1>0, <1>1, ConCandado DEF Colocada
  <2>2. UNCHANGED elPool
    BY <1>0, <1>1 DEF elPool
  <2> QED  BY <1>0, <1>1, <2>1, <2>2, ElFinal
<1>2. CASE /\ donde[r] = "mata" /\ reciclando' = SinDueno
           /\ \/ UNCHANGED <<matanza, sobrevive>>
              \/ /\ suyo[r] \in matanza /\ matanza' = matanza \ {suyo[r]}
                 /\ sobrevive' = sobrevive \union {suyo[r]}
  <2>1. suyo[r] = actual /\ actual \in Pools /\ (actual \in matanza \/ pools[actual] = "muerto")
    BY <1>2 DEF PoolEnOrden, UnSoloReciclado
  <2>2. donde'[r] = "fin" /\ \A q \in Quienes : q # r => donde'[q] = donde[q] /\ donde[q] # "mata"
    BY <1>0, <1>2, Mueve DEF PoolEnOrden, UnSoloReciclado
  <2>3. UnSoloReciclado'
    BY <1>2, <2>2 DEF UnSoloReciclado
  <2>4. NingunPoolFantasma'
    BY <1>0, <1>2, <2>1 DEF PoolEnOrden, NingunPoolFantasma
  <2>5. matanza \union sobrevive \subseteq matanza' \union sobrevive'
    BY <1>2
  <2>6. Colocada(r)'
    BY <1>0, <1>2, <2>1, <2>2, <2>5 DEF Colocada, ConElTurno
  <2>7. \A s \in Extracciones : s # r => Colocada(s)'
    BY <1>0, <2>5, LosDemas
  <2> QED  BY <2>3, <2>4, <2>6, <2>7 DEF PoolEnOrden
<1> QED  BY <1>1, <1>2 DEF CancelarReciclado

LEMMA OrdenDelResto ==
    ASSUME PPTypeOK, PoolEnOrden, PPTypeOK'
    PROVE  /\ (\E p \in Pools : Matar(p) \/ Romper(p)) => PoolEnOrden'
           /\ PedirCierre \/ Cerrar \/ Cerrado => PoolEnOrden'
<1> USE Nombres
<1>1. ASSUME NEW p \in Pools, Matar(p) PROVE PoolEnOrden'
  <2>1. /\ UNCHANGED <<actual, cerrado, reciclando, sobrevive, donde, despues, suyo, conTurno>>
        /\ pools'[p] = "muerto" /\ \A x \in Pools : x # p => pools'[x] = pools[x]
        /\ matanza' = matanza \ {p}
        /\ \A r \in Extracciones : futuro'[r] = IF suyo[r] = p /\ futuro[r] = "corre" THEN "roto" ELSE futuro[r]
    BY <1>1 DEF Matar, Rotos, PPTypeOK
  <2>2. UnSoloReciclado' /\ NingunPoolFantasma'
    BY <2>1 DEF PoolEnOrden, UnSoloReciclado, NingunPoolFantasma
  <2>3. \A r \in Extracciones : Colocada(r)'
    BY <2>1 DEF PoolEnOrden, Colocada, ConElTurno
  <2> QED  BY <2>2, <2>3 DEF PoolEnOrden
<1>2. ASSUME NEW p \in Pools, Romper(p) PROVE PoolEnOrden'
  <2>1. /\ UNCHANGED <<actual, cerrado, reciclando, matanza, sobrevive, donde, despues, suyo, conTurno>>
        /\ pools[p] = "sirve" /\ pools'[p] = "roto" /\ \A x \in Pools : x # p => pools'[x] = pools[x]
        /\ \A r \in Extracciones : futuro'[r] = IF suyo[r] = p /\ futuro[r] = "corre" THEN "roto" ELSE futuro[r]
    BY <1>2 DEF Romper, Rotos, PPTypeOK
  <2>2. UnSoloReciclado' /\ NingunPoolFantasma'
    BY <2>1 DEF PoolEnOrden, UnSoloReciclado, NingunPoolFantasma
  <2>3. \A r \in Extracciones : Colocada(r)'
    BY <2>1 DEF PoolEnOrden, Colocada, ConElTurno
  <2> QED  BY <2>2, <2>3 DEF PoolEnOrden
<1>3. ASSUME UNCHANGED <<pools, sobrevive, trabajo>>, matanza \subseteq matanza' \/ matanza = {},
             NEW hacia, Pasa(Cierre, hacia)
      PROVE  \A r \in Extracciones : Colocada(r)'
  <2>1. \A r \in Extracciones : donde'[r] = donde[r]
    BY <1>3, Mueve
  <2> QED  BY <1>3, <2>1 DEF PoolEnOrden, Colocada, ConElTurno, trabajo
<1>4. CASE PedirCierre
  <2>1. \A q \in Quienes : donde'[q] = "mata" <=> donde[q] = "mata"
    BY <1>4, Mueve DEF PedirCierre
  <2>2. UnSoloReciclado' /\ NingunPoolFantasma'
    BY <1>4, <2>1 DEF PedirCierre, elPool, trabajo, PoolEnOrden, UnSoloReciclado, NingunPoolFantasma
  <2> QED  BY <1>3, <1>4, <2>2 DEF PedirCierre, elPool, PoolEnOrden
<1>5. CASE Cerrar
  <2>0. \A r \in Extracciones : donde[r] # "mata"
    BY <1>5 DEF Cerrar, PoolEnOrden, UnSoloReciclado
  <2>1. CASE actual = Ninguno
    <3>1. Pasa(Cierre, "fin") /\ reciclando' = SinDueno /\ UNCHANGED <<actual, pools, matanza, sobrevive, trabajo>>
      BY <1>5, <2>1 DEF Cerrar
    <3>2. \A q \in Quienes : donde'[q] # "mata"
      BY <2>0, <3>1, Mueve
    <3>3. UnSoloReciclado' /\ NingunPoolFantasma'
      BY <2>1, <3>1, <3>2 DEF PoolEnOrden, UnSoloReciclado, NingunPoolFantasma
    <3> QED  BY <1>3, <3>1, <3>3 DEF PoolEnOrden
  <2>2. CASE actual # Ninguno
    <3>1. /\ Pasa(Cierre, "mata") /\ reciclando' = Cierre /\ UNCHANGED <<pools, sobrevive, trabajo>>
          /\ actual' = Ninguno /\ matanza' = matanza \union {actual}
      BY <1>5, <2>2 DEF Cerrar
    <3>2. cerrado'
      BY <1>5 DEF Cerrar
    <3>3. donde'[Cierre] = "mata" /\ \A r \in Extracciones : donde'[r] # "mata"
      BY <2>0, <3>1, Mueve
    <3>4. UnSoloReciclado'
      BY <3>1, <3>2, <3>3 DEF UnSoloReciclado
    <3>5. NingunPoolFantasma'
      BY <3>1, <3>2 DEF PoolEnOrden, NingunPoolFantasma
    <3> QED  BY <1>3, <3>1, <3>4, <3>5 DEF PoolEnOrden
  <2> QED  BY <2>1, <2>2
<1>6. CASE Cerrado
  <2>1. \A q \in Quienes : donde'[q] # "mata"
    BY <1>6, Mueve DEF Cerrado, PoolEnOrden, UnSoloReciclado
  <2>2. UnSoloReciclado' /\ NingunPoolFantasma'
    BY <1>6, <2>1 DEF Cerrado, trabajo, PoolEnOrden, UnSoloReciclado, NingunPoolFantasma
  <2> QED  BY <1>3, <1>6, <2>2 DEF Cerrado, PoolEnOrden
<1> QED  BY <1>1, <1>2, <1>4, <1>5, <1>6

LEMMA PoolSigue == PPTypeOK /\ PoolEnOrden /\ [PPNext]_PPvars => PoolEnOrden'
<1> SUFFICES ASSUME PPTypeOK, PoolEnOrden, [PPNext]_PPvars PROVE PoolEnOrden'
  OBVIOUS
<1>0. PPTypeOK'
  BY PoolTipos
<1>1. ASSUME NEW r \in Extracciones, DeExtraccion(r) PROVE PoolEnOrden'
  BY <1>0, <1>1, OrdenDeLaPeticion, OrdenAlCrear, OrdenAlReponer, OrdenAlReciclar, OrdenAlCancelar DEF DeExtraccion
<1>2. CASE UNCHANGED PPvars
  BY <1>2 DEF PPvars, elPool, trabajo, PoolEnOrden, UnSoloReciclado, NingunPoolFantasma, Colocada
<1> QED  BY <1>0, <1>1, <1>2, OrdenDelResto DEF PPNext

\* Nobody takes a turn that is not there.
TurnosContados == Cardinality(conTurno) <= Procesos

LEMMA LosTurnos == PPTypeOK /\ PoolEnOrden /\ TurnosContados /\ [PPNext]_PPvars => TurnosContados'
<1> SUFFICES ASSUME PPTypeOK, TurnosContados, [PPNext]_PPvars PROVE TurnosContados'
  OBVIOUS
<1>0. IsFiniteSet(conTurno) /\ Cardinality(conTurno) \in Nat /\ Procesos \in Nat
  BY FS_Subset, FS_CardinalityType, PoolSupuestos DEF PPTypeOK, PoolSupuestos
<1>1. ASSUME conTurno' \subseteq conTurno PROVE TurnosContados'
  BY <1>0, <1>1, FS_Subset, FS_CardinalityType DEF TurnosContados
<1>2. ASSUME NEW r \in Extracciones, Cardinality(conTurno) < Procesos, conTurno' = conTurno \union {r}
      PROVE  TurnosContados'
  <2>1. Cardinality(conTurno \union {r}) = IF r \in conTurno THEN Cardinality(conTurno) ELSE Cardinality(conTurno) + 1
    BY <1>0, FS_AddElement
  <2>2. Cardinality(conTurno \union {r}) <= Procesos
    BY <1>0, <1>2, <2>1
  <2> QED  BY <1>2, <2>2 DEF TurnosContados
<1>3. ASSUME NEW r \in Extracciones, DeExtraccion(r)
      PROVE  conTurno' \subseteq conTurno \/ (Cardinality(conTurno) < Procesos /\ conTurno' = conTurno \union {r})
  BY <1>3 DEF DeExtraccion, Pedir, TomarTurno, BuscarPool, CrearPool, Extraer, Recibir, Fallar, Cancelar,
              TomarCandado, Reponer, CancelarReciclado, TrasReciclar, TrasCancelar, Termina, trabajo
<1>4. ASSUME NEW p \in Pools, Matar(p) \/ Romper(p) PROVE conTurno' \subseteq conTurno
  BY <1>4 DEF Matar, Romper
<1>5. CASE PedirCierre \/ Cerrar \/ Cerrado \/ UNCHANGED PPvars
  BY <1>1, <1>5 DEF PedirCierre, Cerrar, Cerrado, trabajo, PPvars
<1> QED  BY <1>1, <1>2, <1>3, <1>4, <1>5 DEF PPNext

LEMMA TurnosAlInicio == PPInit => TurnosContados
BY FS_EmptySet, PoolSupuestos DEF PPInit, TurnosContados, PoolSupuestos

\* For any requests and any number of workers: the variables of the pool have their types.
THEOREM TiposDelPool == PPSpec => []PPTypeOK
BY PoolAlInicio, PoolTipos, PoolSigue, PTL DEF PPSpec

\* For any requests and any number of workers, no executor is left behind, whatever
\* is cancelled, breaks or is closed.
THEOREM NadaQuedaAtras == PPSpec => []NingunPoolFantasma
<1>1. PoolEnOrden => NingunPoolFantasma
  BY DEF PoolEnOrden
<1> QED  BY <1>1, PoolAlInicio, PoolTipos, PoolSigue, PTL DEF PPSpec

\* For any requests and any number of workers, no work waits inside a pool that
\* is not about to be killed: a turn is held for as long as its work runs.
THEOREM CadaTrabajoConSuTurno == PPSpec => []SinColaEnElPool
<1>1. PPTypeOK /\ PoolEnOrden /\ TurnosContados => SinColaEnElPool
  <2> SUFFICES ASSUME PPTypeOK, PoolEnOrden, TurnosContados, NEW p \in Pools \ (matanza \union sobrevive)
               PROVE  Cardinality({r \in Extracciones : suyo[r] = p /\ futuro[r] = "corre"}) <= Procesos
    BY DEF SinColaEnElPool
  <2> DEFINE Suyos == {r \in Extracciones : suyo[r] = p /\ futuro[r] = "corre"}
  <2>1. Suyos \subseteq conTurno
    BY DEF PoolEnOrden, Colocada
  <2>2. IsFiniteSet(conTurno) /\ Cardinality(conTurno) \in Nat /\ Procesos \in Nat
    BY FS_Subset, FS_CardinalityType, PoolSupuestos DEF PPTypeOK, PoolSupuestos
  <2>3. Cardinality(Suyos) <= Cardinality(conTurno) /\ Cardinality(Suyos) \in Nat
    BY <2>1, <2>2, FS_Subset, FS_CardinalityType
  <2> QED  BY <2>2, <2>3 DEF TurnosContados
<1> QED  BY <1>1, PoolAlInicio, TurnosAlInicio, PoolTipos, PoolSigue, LosTurnos, PTL DEF PPSpec
=============================================================================
