-------------------------------- MODULE PdfPool --------------------------------
(***************************************************************************)
(* backend/adjuntos/pdf_pool.py: the extraction of the text of a PDF in a  *)
(* pool of processes.  An extraction takes one of as many turns as there   *)
(* are workers, looks for a pool that serves, sends its work and waits.    *)
(* What went past its time cannot be stopped: the whole pool is killed and *)
(* another one takes its place, under a lock.  A request that is cancelled *)
(* with its work running leaves a watch behind, which keeps its turn.      *)
(*                                                                         *)
(* Between two awaits nothing else runs on the event loop, and is a step;  *)
(* the workers die, and the threads that kill pools run, at any time.  The *)
(* warming of a new pool, best effort, is left out.                        *)
(***************************************************************************)
EXTENDS Naturals, FiniteSets

CONSTANTS
    Extracciones,   \* requests, each with one PDF
    Cierre,         \* the shutdown of the application
    SinDueno,       \* nobody holds the lock
    Procesos,       \* JAX_ADJUNTO_PDF_PROCESOS
    MaxPools,       \* bound: pools ever created
    MaxRoturas      \* bound: pools whose worker dies by itself

ASSUME PoolSupuestos ==
    /\ IsFiniteSet(Extracciones) /\ {Cierre, SinDueno} \cap Extracciones = {} /\ Cierre # SinDueno
    /\ Procesos \in Nat \ {0} /\ MaxPools \in Nat \ {0} /\ MaxRoturas \in Nat

\* A pool is named by its turn to be created; 0 is None.
Pools == 1 .. MaxPools
Ninguno == 0

VARIABLES
    actual,      \* _pool
    pools,       \* the state of each pool
    cerrado,     \* _cerrado
    reciclando,  \* who holds the lock of the recycling
    matanza,     \* pools that a thread is going to kill
    sobrevive,   \* pools whose killing was cancelled before its thread began
    roturas,     \* pools broken so far
    donde,       \* where each extraction, and the shutdown, is
    despues,     \* where it goes after a recycling
    suyo,        \* the pool it was given
    futuro,      \* what became of its work
    conTurno     \* extractions that hold a turn, by themselves or by their watch

trabajo == <<despues, suyo, futuro, conTurno>>
elPool == <<actual, pools, cerrado, reciclando, matanza, sobrevive, roturas>>
PPvars == <<elPool, donde, trabajo>>

Quienes == Extracciones \union {Cierre}

PPTypeOK ==
    /\ actual \in Pools \union {Ninguno} /\ cerrado \in BOOLEAN
    /\ pools \in [Pools -> {"nuevo", "sirve", "roto", "muerto"}]
    /\ reciclando \in Quienes \union {SinDueno} /\ matanza \subseteq Pools /\ sobrevive \subseteq Pools
    /\ roturas \in 0 .. MaxRoturas
    /\ donde \in [Quienes -> {"fuera", "turno", "pool", "crea", "corre", "vigila", "recicla", "mata", "fin"}]
    /\ despues \in [Extracciones -> {"pool", "fin"}] /\ suyo \in [Extracciones -> Pools \union {Ninguno}]
    /\ futuro \in [Extracciones -> {"no", "corre", "listo", "roto"}] /\ conTurno \subseteq Extracciones

\* The application creates its pool when it starts; without it the module begins
\* with none, and the first extraction creates it.
PPInit ==
    /\ actual \in {Ninguno, 1} /\ pools = [p \in Pools |-> IF p = actual THEN "sirve" ELSE "nuevo"]
    /\ cerrado = FALSE
    /\ reciclando = SinDueno /\ matanza = {} /\ sobrevive = {} /\ roturas = 0
    /\ donde = [q \in Quienes |-> "fuera"] /\ despues = [r \in Extracciones |-> "fin"]
    /\ suyo = [r \in Extracciones |-> Ninguno] /\ futuro = [r \in Extracciones |-> "no"]
    /\ conTurno = {}

-----------------------------------------------------------------------------
(* Helpers *)

Pasa(q, hacia) == donde' = [donde EXCEPT ![q] = hacia]

\* The extraction ends, in whatever way, and its turn is released.
Termina(r) == Pasa(r, "fin") /\ conTurno' = conTurno \ {r}

Sirve(p) == p \in Pools /\ pools[p] = "sirve"

\* crear_pool.
Crea ==
    \E p \in Pools :
        /\ \A x \in Pools : x < p <=> pools[x] # "nuevo"
        /\ actual' = p /\ pools' = [pools EXCEPT ![p] = "sirve"]

\* What a pool had running comes out as BrokenProcessPool.
Rotos(p) == [r \in Extracciones |-> IF suyo[r] = p /\ futuro[r] = "corre" THEN "roto" ELSE futuro[r]]

\* The recycling of a pool begins with the lock, and then goes on where it says.
PideReciclar(r, p, luego) ==
    /\ Pasa(r, "recicla") /\ suyo' = [suyo EXCEPT ![r] = p] /\ despues' = [despues EXCEPT ![r] = luego]

\* The work is sent, or the pool does not take it.
Envia(r, p) ==
    /\ futuro' = [futuro EXCEPT ![r] = IF Sirve(p) THEN "corre" ELSE @]
    /\ IF Sirve(p) THEN Pasa(r, "corre") /\ suyo' = [suyo EXCEPT ![r] = p] /\ UNCHANGED despues
       ELSE PideReciclar(r, p, "fin")

-----------------------------------------------------------------------------
(* extraer_texto_en_pool *)

Pedir(r) ==
    /\ donde[r] = "fuera" /\ Pasa(r, "turno")
    /\ UNCHANGED <<elPool, trabajo>>

\* _tomar_turno: a turn, or 503 when none is free in time, or the request is cancelled.
TomarTurno(r) ==
    /\ donde[r] = "turno"
    /\ \/ Cardinality(conTurno) < Procesos /\ conTurno' = conTurno \union {r} /\ Pasa(r, "pool")
       \/ Termina(r)
    /\ UNCHANGED <<elPool, despues, suyo, futuro>>

\* _pool_actual finds one that serves and the work is sent, unless it breaks just
\* then; or finds one that does not, and recycles it; or finds none, and waits for
\* the lock to create it.
BuscarPool(r) ==
    /\ donde[r] = "pool"
    /\ \/ Sirve(actual) /\ Envia(r, actual)
       \/ /\ actual # Ninguno /\ ~Sirve(actual) /\ UNCHANGED futuro
          /\ \E luego \in {"pool", "fin"} : PideReciclar(r, actual, luego)
       \/ actual = Ninguno /\ Pasa(r, "crea") /\ UNCHANGED <<despues, suyo, futuro>>
    /\ UNCHANGED <<elPool, conTurno>>

\* Under the lock: closed, or created by another meanwhile, or created here.
CrearPool(r) ==
    /\ donde[r] = "crea" /\ reciclando = SinDueno
    /\ \/ cerrado /\ Termina(r) /\ UNCHANGED <<actual, pools, despues, suyo, futuro>>
       \/ ~cerrado /\ actual # Ninguno /\ Envia(r, actual) /\ UNCHANGED <<actual, pools, conTurno>>
       \/ /\ ~cerrado /\ actual = Ninguno /\ Crea /\ Pasa(r, "corre")
          /\ suyo' = [suyo EXCEPT ![r] = actual'] /\ futuro' = [futuro EXCEPT ![r] = "corre"]
          /\ UNCHANGED <<despues, conTurno>>
    /\ UNCHANGED <<cerrado, reciclando, matanza, sobrevive, roturas>>

\* The worker ends.
Extraer(r) ==
    /\ futuro[r] = "corre" /\ futuro' = [futuro EXCEPT ![r] = "listo"]
    /\ UNCHANGED <<elPool, donde, despues, suyo, conTurno>>

\* The text is there: for the request, or for a watch, which drops it.
Recibir(r) ==
    /\ donde[r] \in {"corre", "vigila"} /\ futuro[r] = "listo" /\ Termina(r)
    /\ UNCHANGED <<elPool, despues, suyo, futuro>>

\* The time of the extraction is over, or its pool broke: it is recycled.
Fallar(r) ==
    /\ donde[r] \in {"corre", "vigila"} /\ futuro[r] \in {"corre", "roto"}
    /\ PideReciclar(r, suyo[r], "fin")
    /\ UNCHANGED <<elPool, futuro, conTurno>>

\* Mutant of TrasCancelar: the turn is released with the work running.
SinVigilar(r) == Termina(r)

\* With the work running the turn goes to a watch.
TrasCancelar(r) ==
    IF futuro[r] = "corre" THEN Pasa(r, "vigila") /\ UNCHANGED conTurno ELSE Termina(r)

\* The request is cancelled before it recycles anything.
Cancelar(r) ==
    /\ donde[r] \in {"pool", "crea", "corre"} /\ TrasCancelar(r)
    /\ UNCHANGED <<elPool, despues, suyo, futuro>>

-----------------------------------------------------------------------------
(* _reciclar *)

\* Mutant of EsElActual: a pool is recycled again by the second that suspected it.
SiempreEsElActual(p) == TRUE

EsElActual(p) == p = actual

\* After a recycling: the request ends, or is given the pool there is now, or none.
TrasReciclar(r, p) ==
    \/ despues[r] = "fin" /\ Termina(r) /\ UNCHANGED <<despues, suyo, futuro>>
    \/ despues[r] = "pool" /\ p = Ninguno /\ Termina(r) /\ UNCHANGED <<despues, suyo, futuro>>
    \/ despues[r] = "pool" /\ p # Ninguno /\ Envia(r, p) /\ UNCHANGED conTurno

\* The lock: another has recycled it already, or a thread is sent to kill it.
TomarCandado(r) ==
    /\ donde[r] = "recicla" /\ reciclando = SinDueno
    /\ \/ ~EsElActual(suyo[r]) /\ TrasReciclar(r, actual) /\ UNCHANGED <<reciclando, matanza>>
       \/ /\ EsElActual(suyo[r]) /\ reciclando' = r /\ matanza' = matanza \union {suyo[r]}
          /\ Pasa(r, "mata") /\ UNCHANGED trabajo
    /\ UNCHANGED <<actual, pools, cerrado, sobrevive, roturas>>

\* _matar_pool, in a thread.
Matar(p) ==
    /\ p \in matanza /\ matanza' = matanza \ {p}
    /\ pools' = [pools EXCEPT ![p] = "muerto"] /\ futuro' = Rotos(p)
    /\ UNCHANGED <<actual, cerrado, reciclando, sobrevive, roturas, donde, despues, suyo, conTurno>>

\* The pool is dead and another one takes its place.  Who closes takes the lock and
\* leaves none to recycle, so that _cerrado, which is looked at here, is not set.
Reponer(r) ==
    /\ donde[r] = "mata" /\ pools[suyo[r]] = "muerto" /\ suyo[r] \notin matanza /\ reciclando' = SinDueno
    /\ ~cerrado /\ Crea
    /\ \/ despues[r] = "fin" /\ Termina(r) /\ UNCHANGED <<despues, suyo, futuro>>
       \/ /\ despues[r] = "pool" /\ Pasa(r, "corre") /\ suyo' = [suyo EXCEPT ![r] = actual']
          /\ futuro' = [futuro EXCEPT ![r] = "corre"] /\ UNCHANGED <<despues, conTurno>>
    /\ UNCHANGED <<cerrado, matanza, sobrevive, roturas>>

\* A request is cancelled while it waits for the lock, which it takes at once when it
\* is free, or for the thread.  A thread that has not begun does not begin; one that has goes on.
CancelarReciclado(r) ==
    /\ Termina(r)
    /\ \/ donde[r] = "recicla" /\ reciclando # SinDueno /\ UNCHANGED <<reciclando, matanza, sobrevive>>
       \/ /\ donde[r] = "mata" /\ reciclando' = SinDueno
          /\ \/ UNCHANGED <<matanza, sobrevive>>
             \/ /\ suyo[r] \in matanza /\ matanza' = matanza \ {suyo[r]}
                /\ sobrevive' = sobrevive \union {suyo[r]}
    /\ UNCHANGED <<actual, pools, cerrado, roturas, despues, suyo, futuro>>

-----------------------------------------------------------------------------
(* The shutdown and the workers *)

PedirCierre ==
    /\ donde[Cierre] = "fuera" /\ Pasa(Cierre, "recicla")
    /\ UNCHANGED <<elPool, trabajo>>

\* cerrar_pool: no pool from now on, and the one there was is killed.
Cerrar ==
    /\ donde[Cierre] = "recicla" /\ reciclando = SinDueno
    /\ cerrado' = TRUE /\ actual' = Ninguno
    /\ IF actual = Ninguno THEN Pasa(Cierre, "fin") /\ UNCHANGED <<reciclando, matanza>>
       ELSE reciclando' = Cierre /\ matanza' = matanza \union {actual} /\ Pasa(Cierre, "mata")
    /\ UNCHANGED <<pools, sobrevive, roturas, trabajo>>

Cerrado ==
    /\ donde[Cierre] = "mata" /\ matanza = {} /\ reciclando' = SinDueno /\ Pasa(Cierre, "fin")
    /\ UNCHANGED <<actual, pools, cerrado, matanza, sobrevive, roturas, trabajo>>

\* A worker dies, and its pool with it.
Romper(p) ==
    /\ pools[p] = "sirve" /\ roturas < MaxRoturas /\ roturas' = roturas + 1
    /\ pools' = [pools EXCEPT ![p] = "roto"] /\ futuro' = Rotos(p)
    /\ UNCHANGED <<actual, cerrado, reciclando, matanza, sobrevive, donde, despues, suyo, conTurno>>

DeExtraccion(r) ==
    \/ Pedir(r) \/ TomarTurno(r) \/ BuscarPool(r) \/ CrearPool(r) \/ Extraer(r) \/ Recibir(r)
    \/ Fallar(r) \/ Cancelar(r) \/ TomarCandado(r) \/ Reponer(r) \/ CancelarReciclado(r)

PPNext ==
    \/ \E r \in Extracciones : DeExtraccion(r)
    \/ \E p \in Pools : Matar(p) \/ Romper(p)
    \/ PedirCierre \/ Cerrar \/ Cerrado

PPSpec == PPInit /\ [][PPNext]_PPvars

-----------------------------------------------------------------------------
\* There are never more extractions sent than workers, so that none waits inside
\* the pool with its time running, whatever is cancelled, breaks or goes past its
\* time; but for a pool that is about to be killed, or that a cancelled recycling
\* left alive because no thread had begun to kill it.
SinColaEnElPool ==
    \A p \in Pools \ (matanza \union sobrevive) :
        Cardinality({r \in Extracciones : suyo[r] = p /\ futuro[r] = "corre"}) <= Procesos

\* No executor is left behind: a pool that serves is the one in use or is about to be
\* killed; and once the application closed there is none in use.
NingunPoolFantasma ==
    /\ \A p \in Pools : pools[p] = "sirve" => p = actual \/ p \in matanza
    /\ cerrado => actual = Ninguno
=============================================================================
