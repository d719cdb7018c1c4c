------------------------------- MODULE UsageSpool -------------------------------
(***************************************************************************)
(* backend/uso/cola.py, backend/uso/reintento.py and record_usage: a usage *)
(* row that cannot enter axioma_usage waits in a directory, one file each. *)
(* The platform and other processes deposit; the platform drains.          *)
(*                                                                         *)
(* Every process has its own lock, which serialises its counting, dropping *)
(* and draining but not its writing; between processes there is none.  The *)
(* pool commits each INSERT on its own.  Writing a file and naming it are  *)
(* one step: nobody lists a temporary.                                     *)
(***************************************************************************)
EXTENDS Naturals, FiniteSets

CONSTANTS
    Propias,        \* rows of record_usage
    Ajenas,         \* rows deposited by the other process
    Libre, Drenador, \* holders of a lock that are no row
    Tope,           \* max_filas
    Lote,           \* rows per cycle
    MaxIntentos,    \* refusals in a row before a row is set aside
    MaxSucesos      \* bound: rows recorded, disk errors, lost answers and crashes

Filas == Propias \union Ajenas

ASSUME SpoolSupuestos ==
    /\ Propias \intersect Ajenas = {} /\ IsFiniteSet(Filas)
    /\ Libre \notin Filas /\ Drenador \notin Filas /\ Libre # Drenador
    /\ Tope \in Nat \ {0} /\ Lote \in Nat \ {0} /\ MaxIntentos \in Nat \ {0}
    /\ MaxSucesos \in Nat

VARIABLES
    base,       \* does the database answer?
    tipo,       \* what each row is like
    turno,      \* where the call that records each row is
    fecha,      \* modification time of its file, 0 before there is one
    dir, corruptos, rechazadas,     \* the directory and its subdirectories
    directas, recuperadas,  \* rows in the table without and with their spool_id
    perdidas,   \* rows counted as lost because they could not be queued
    desborde,   \* rows counted as dropped by a full spool
    candado,    \* who holds the lock of each process
    victimas,   \* what _hacer_lugar of each process chose to drop
    drenaje,    \* where the cycle is
    leidas, porInsertar, hechas, candidatas,    \* its rows
    ajeno,      \* did it meet an error that is not of a row?
    intentos,   \* refusals in a row of each row
    percances   \* disk errors, lost answers and crashes so far

archivos == <<fecha, dir, corruptos, rechazadas>>
tabla == <<directas, recuperadas>>
contadas == <<perdidas, desborde>>
ciclo == <<drenaje, leidas, porInsertar, hechas, candidatas, ajeno, intentos>>
vars == <<base, tipo, turno, archivos, tabla, contadas, candado, victimas, ciclo, percances>>

Procesos == {"plataforma", "jacobs"}
De(f) == IF f \in Propias THEN "plataforma" ELSE "jacobs"

\* A row the table accepts, one it always refuses for its data, a file that is
\* not a row of the contract (an old copy of the module wrote it).
Tipos == {"sana", "venenosa", "ilegible"}

EnVuelo == {"medir", "listar", "descartar", "escribir"}
Turnos == {"nada", "fin"} \union EnVuelo
Fases == {"dormido", "leer", "insertar", "quitar", "quitando", "mover"}

TypeOK ==
    /\ base \in BOOLEAN /\ ajeno \in BOOLEAN
    /\ tipo \in [Filas -> Tipos] /\ \A f \in Propias : tipo[f] # "ilegible"
    /\ turno \in [Filas -> Turnos] /\ fecha \in [Filas -> Nat]
    /\ dir \union corruptos \union rechazadas \union directas \union recuperadas \subseteq Filas
    /\ perdidas \union desborde \union leidas \union porInsertar \subseteq Filas
    /\ hechas \union candidatas \subseteq Filas
    /\ candado \in [Procesos -> Filas \union {Libre, Drenador}]
    /\ victimas \in [Procesos -> SUBSET Filas]
    /\ drenaje \in Fases
    /\ intentos \in [Filas -> Nat] /\ percances \in 0 .. MaxSucesos
    \* a lock is held by the call or the cycle that is inside it, and only then
    /\ \A f \in Filas : turno[f] \in {"medir", "listar", "descartar"} <=> candado[De(f)] = f
    /\ drenaje \in {"leer", "quitando"} <=> candado["plataforma"] = Drenador
    /\ candado["jacobs"] # Drenador

Init ==
    /\ base \in BOOLEAN
    /\ tipo \in [Filas -> Tipos] /\ \A f \in Propias : tipo[f] # "ilegible"
    /\ turno = [f \in Filas |-> "nada"] /\ fecha = [f \in Filas |-> 0]
    /\ dir = {} /\ corruptos = {} /\ rechazadas = {} /\ directas = {} /\ recuperadas = {}
    /\ perdidas = {} /\ desborde = {}
    /\ candado = [p \in Procesos |-> Libre] /\ victimas = [p \in Procesos |-> {}]
    /\ drenaje = "dormido" /\ leidas = {} /\ porInsertar = {} /\ hechas = {} /\ candidatas = {}
    /\ ajeno = FALSE /\ intentos = [f \in Filas |-> 0] /\ percances = 0

-----------------------------------------------------------------------------
Va(f, desde, hacia) == turno[f] = desde /\ turno' = [turno EXCEPT ![f] = hacia]

\* A disk operation fails, or an answer of the database is lost.
Cabe == Cardinality({f \in Filas : turno[f] # "nada"}) + percances < MaxSucesos
Falla == Cabe /\ percances' = percances + 1
SinFalla == UNCHANGED percances

\* The k rows of S that were written first.
MasViejas(S, k) == {f \in S : Cardinality({g \in S : fecha[g] < fecha[f]}) < k}

Toma(p, quien) == candado[p] = Libre /\ candado' = [candado EXCEPT ![p] = quien]
Suelta(p) == candado' = [candado EXCEPT ![p] = Libre]

\* encolar: one measurement at a time; who finds the lock taken skips it.
Encolar(f) ==
    IF candado[De(f)] = Libre
    THEN Va(f, "nada", "medir") /\ Toma(De(f), f)
    ELSE Va(f, "nada", "escribir") /\ UNCHANGED candado

\* The direct INSERT.  When it fails, or its answer is lost, the row is queued.
Registrar(f) ==
    /\ f \in Propias /\ Cabe
    /\ \/ /\ Va(f, "nada", "fin") /\ base /\ tipo[f] = "sana"
          /\ directas' = directas \union {f} /\ UNCHANGED candado /\ SinFalla
       \/ Encolar(f) /\ (~base \/ tipo[f] = "venenosa") /\ UNCHANGED directas /\ SinFalla
       \/ Encolar(f) /\ base /\ tipo[f] = "sana" /\ directas' = directas \union {f} /\ Falla
    /\ UNCHANGED <<base, tipo, archivos, recuperadas, contadas, victimas, ciclo>>

\* The other process queues a row that it could not insert.
Ajena(f) ==
    /\ f \in Ajenas /\ Cabe /\ Encolar(f)
    /\ UNCHANGED <<base, tipo, archivos, tabla, contadas, victimas, ciclo, percances>>

\* The cheap count, and whether room has to be made.
Medir(f) ==
    /\ \/ /\ Cardinality(dir) + 1 > Tope /\ Va(f, "medir", "listar")
          /\ UNCHANGED candado /\ SinFalla
       \/ /\ Cardinality(dir) + 1 <= Tope /\ Va(f, "medir", "escribir")
          /\ Suelta(De(f)) /\ SinFalla
       \/ Va(f, "medir", "escribir") /\ Suelta(De(f)) /\ Falla
    /\ UNCHANGED <<base, tipo, archivos, tabla, contadas, victimas, ciclo>>

\* _hacer_lugar: list again, then drop the oldest of what was listed.
Listar(f) ==
    /\ Va(f, "listar", "descartar")
    /\ victimas' = [victimas EXCEPT ![De(f)] =
          IF Cardinality(dir) + 1 > Tope THEN MasViejas(dir, Cardinality(dir) + 1 - Tope) ELSE {}]
    /\ UNCHANGED <<base, tipo, archivos, tabla, contadas, candado, ciclo, percances>>

\* A file that is gone is not counted; one that cannot be unlinked stays.
Descartar(f) ==
    LET listadas == victimas[De(f)] \intersect dir
    IN  /\ Va(f, "descartar", "escribir") /\ Suelta(De(f))
        /\ victimas' = [victimas EXCEPT ![De(f)] = {}]
        /\ \/ /\ dir' = dir \ listadas /\ desborde' = desborde \union listadas /\ SinFalla
           \/ /\ \E g \in listadas : /\ dir' = dir \ (listadas \ {g})
                                     /\ desborde' = desborde \union (listadas \ {g})
              /\ Falla
        /\ UNCHANGED <<base, tipo, fecha, corruptos, rechazadas, tabla, perdidas, ciclo>>

\* The file appears whole, after all that were there.
Nombra(f) ==
    /\ dir' = dir \union {f}
    /\ fecha' = [fecha EXCEPT ![f] = Cardinality({g \in Filas : fecha[g] > 0}) + 1]

\* encolar returned None: registros_perdidos.
Pierde(f) == perdidas' = perdidas \union {f}

\* _escribir_atomico, outside the lock: it fails before the file has its name,
\* or in the sync of the directory, with the file already there.
Escribir(f) ==
    /\ Va(f, "escribir", "fin")
    /\ \/ Nombra(f) /\ UNCHANGED perdidas /\ SinFalla
       \/ UNCHANGED <<dir, fecha>> /\ Pierde(f) /\ Falla
       \/ Nombra(f) /\ Pierde(f) /\ Falla
    /\ UNCHANGED <<base, tipo, corruptos, rechazadas, tabla, desborde, candado, victimas, ciclo>>

-----------------------------------------------------------------------------
Fase(desde, hacia) == drenaje = desde /\ drenaje' = hacia

SinIntentos == intentos' = [f \in Filas |-> 0]

\* Mutant of Podar: every cycle starts counting again.
PodarTodo(vistas) == SinIntentos

\* A row that is no longer read loses its count.
Podar(vistas) == intentos' = [f \in Filas |-> IF f \in vistas THEN intentos[f] ELSE 0]

\* leer_pendientes waits for the lock.
Despertar ==
    /\ Fase("dormido", "leer") /\ Toma("plataforma", Drenador)
    /\ UNCHANGED <<base, tipo, turno, archivos, tabla, contadas, victimas, leidas, porInsertar,
                   hechas, candidatas, ajeno, intentos, percances>>

\* The files that the drain can read, when those of rotos raise.
Legibles(rotos) == {f \in dir \ rotos : tipo[f] # "ilegible"}

\* The files met before the batch is full that it cannot read.
Encontradas(rotos) ==
    {f \in dir \ Legibles(rotos) :
        Cardinality({g \in Legibles(rotos) : fecha[g] < fecha[f]}) < Lote}

\* The oldest rows.  What is met on the way and cannot be read is moved to corruptos/:
\* what is not a row, and any row that the disk does not give (rotos), whatever it
\* holds.  What the disk does not let it move (fijos) stays; a row that is in both
\* stands also for one that could not even be listed.
Leer ==
    /\ \E rotos \in SUBSET dir : \E fijos \in SUBSET Encontradas(rotos) :
          /\ rotos \subseteq Encontradas(rotos)
          /\ leidas' = MasViejas(Legibles(rotos), Lote) /\ porInsertar' = leidas'
          /\ dir' = dir \ (Encontradas(rotos) \ fijos)
          /\ corruptos' = corruptos \union (Encontradas(rotos) \ fijos)
          /\ IF rotos \union fijos = {} THEN SinFalla ELSE Falla
    /\ IF leidas' = {} THEN Fase("leer", "dormido") /\ SinIntentos
                       ELSE Fase("leer", "insertar") /\ UNCHANGED intentos
    /\ Suelta("plataforma")
    /\ UNCHANGED <<base, tipo, turno, fecha, rechazadas, tabla, contadas, victimas, hechas,
                   candidatas, ajeno>>

\* The directory cannot be listed: the cycle fails.
FallarLectura ==
    /\ Fase("leer", "dormido") /\ SinIntentos /\ Falla
    /\ Suelta("plataforma")
    /\ UNCHANGED <<base, tipo, turno, archivos, tabla, contadas, victimas, leidas, porInsertar,
                   hechas, candidatas, ajeno>>

\* INSERT IGNORE of one row, on its own: it enters or is already there; it is
\* refused for what it holds; or the database is down, perhaps after entering.
Insertar(f) ==
    /\ drenaje = "insertar" /\ f \in MasViejas(porInsertar, 1)
    /\ porInsertar' = porInsertar \ {f}
    /\ \/ /\ base /\ tipo[f] = "sana" /\ SinFalla
          /\ recuperadas' = recuperadas \union {f} /\ hechas' = hechas \union {f}
          /\ intentos' = [intentos EXCEPT ![f] = 0]
          /\ UNCHANGED <<candidatas, ajeno>>
       \/ /\ base /\ tipo[f] = "venenosa" /\ SinFalla
          /\ intentos' = [intentos EXCEPT ![f] = @ + 1]
          /\ candidatas' = IF intentos[f] + 1 >= MaxIntentos THEN candidatas \union {f} ELSE candidatas
          /\ UNCHANGED <<recuperadas, hechas, ajeno>>
       \/ /\ \/ ~base /\ SinFalla /\ UNCHANGED recuperadas
             \/ base /\ tipo[f] = "sana" /\ Falla /\ recuperadas' = recuperadas \union {f}
          /\ ajeno' = TRUE /\ intentos' = [intentos EXCEPT ![f] = 0]
          /\ UNCHANGED <<hechas, candidatas>>
    /\ UNCHANGED <<base, tipo, turno, archivos, directas, contadas, candado, victimas, drenaje,
                   leidas>>

\* The rows of the cycle are forgotten.
CicloNuevo == leidas' = {} /\ porInsertar' = {} /\ hechas' = {} /\ candidatas' = {} /\ ajeno' = FALSE

\* No connection to start with, or the commit raises: nothing is removed.
FallarCiclo ==
    /\ Fase("insertar", "dormido") /\ ~base /\ porInsertar \in {{}, leidas}
    /\ CicloNuevo /\ SinIntentos
    /\ UNCHANGED <<base, tipo, turno, archivos, tabla, contadas, candado, victimas, percances>>

Confirmar ==
    /\ porInsertar = {} /\ base
    /\ Fase("insertar", IF hechas = {} THEN "mover" ELSE "quitar")
    /\ UNCHANGED <<base, tipo, turno, archivos, tabla, contadas, candado, victimas, leidas,
                   porInsertar, hechas, candidatas, ajeno, intentos, percances>>

TomarParaQuitar ==
    /\ Fase("quitar", "quitando") /\ Toma("plataforma", Drenador)
    /\ UNCHANGED <<base, tipo, turno, archivos, tabla, contadas, victimas, leidas, porInsertar,
                   hechas, candidatas, ajeno, intentos, percances>>

\* Mutant of Quitables: everything the cycle read.
QuitarLoLeido == leidas

\* quitar: what is in the table no longer has to be on disk.
Quitables == hechas

Quitar ==
    /\ Fase("quitando", "mover") /\ Suelta("plataforma")
    /\ \/ dir' = dir \ Quitables /\ SinFalla
       \/ \E g \in Quitables : dir' = dir \ (Quitables \ {g}) /\ Falla
    /\ UNCHANGED <<base, tipo, turno, fecha, corruptos, rechazadas, tabla, contadas, victimas, leidas,
                   porInsertar, hechas, candidatas, ajeno, intentos>>

\* A cycle with the shape of an outage sets nothing aside.
FormaDeCaida == ajeno /\ hechas = {}

\* _rechazar, without the lock: the file is moved, unless it is gone or the disk fails.
Mover(f) ==
    /\ drenaje = "mover" /\ ~FormaDeCaida /\ f \in candidatas
    /\ candidatas' = candidatas \ {f}
    /\ \/ /\ f \in dir /\ dir' = dir \ {f} /\ rechazadas' = rechazadas \union {f} /\ SinFalla
          /\ intentos' = [intentos EXCEPT ![f] = 0]
       \* moved, and its reason could not be written
       \/ /\ f \in dir /\ dir' = dir \ {f} /\ rechazadas' = rechazadas \union {f} /\ Falla
          /\ UNCHANGED intentos
       \/ f \notin dir /\ SinFalla /\ UNCHANGED <<dir, rechazadas, intentos>>
       \/ f \in dir /\ Falla /\ UNCHANGED <<dir, rechazadas, intentos>>
    /\ UNCHANGED <<base, tipo, turno, fecha, corruptos, tabla, contadas, candado, victimas, drenaje,
                   leidas, porInsertar, hechas, ajeno>>

Dormir ==
    /\ Fase("mover", "dormido") /\ CicloNuevo
    /\ \/ FormaDeCaida /\ SinIntentos
       \/ ~FormaDeCaida /\ candidatas = {} /\ Podar(leidas)
    /\ UNCHANGED <<base, tipo, turno, archivos, tabla, contadas, candado, victimas, percances>>

-----------------------------------------------------------------------------
\* The database goes down or comes back.
CambiarBase ==
    /\ base' = ~base /\ Falla
    /\ UNCHANGED <<tipo, turno, archivos, tabla, contadas, candado, victimas, ciclo>>

\* The platform dies: its calls, its lock, its cycle and its counts go with it.
Caida ==
    /\ Falla
    /\ turno' = [f \in Filas |-> IF f \in Propias /\ turno[f] \in EnVuelo THEN "fin" ELSE turno[f]]
    /\ candado' = [candado EXCEPT !["plataforma"] = Libre]
    /\ victimas' = [victimas EXCEPT !["plataforma"] = {}]
    /\ drenaje' = "dormido" /\ CicloNuevo /\ SinIntentos
    /\ UNCHANGED <<base, tipo, archivos, tabla, contadas>>

Llamada(f) ==
    Medir(f) \/ Listar(f) \/ Descartar(f) \/ Escribir(f)

Drenar ==
    \/ Despertar \/ Leer \/ FallarLectura \/ \E f \in Filas : Insertar(f)
    \/ FallarCiclo \/ Confirmar \/ TomarParaQuitar \/ Quitar
    \/ \E f \in Filas : Mover(f)
    \/ Dormir

Next ==
    \/ \E f \in Filas : Registrar(f) \/ Ajena(f) \/ Llamada(f)
    \/ Drenar \/ CambiarBase \/ Caida

Spec == Init /\ [][Next]_vars

\* A call that started and the loop of the drain go on; nothing else is owed.
Justicia == WF_vars(Drenar) /\ \A f \in Filas : WF_vars(Llamada(f))

FairSpec == Spec /\ Justicia

-----------------------------------------------------------------------------
\* What became of a row, read off the table and the disk.
Estado(f) ==
    IF f \in directas \intersect recuperadas THEN "doble"
    ELSE IF f \in directas \union recuperadas THEN "cobrada"
    ELSE IF f \in dir THEN "pendiente"
    ELSE IF f \in rechazadas THEN "rechazada"
    ELSE IF f \in corruptos THEN "ilegible"
    ELSE IF f \in perdidas \union desborde THEN "perdida"
    ELSE "nada"

Libro == INSTANCE UsageLedger WITH estado <- [f \in Filas |-> Estado(f)]

\* The spool keeps the promise of the ledger: a consumption that it accepted is
\* never gone without a charge, a file kept aside or a counted loss; it is kept aside
\* as refused only if the table refuses it, and as unreadable only if it is not a row
\* or a mishap kept it from being read in that very step; and only the platform's own
\* rows can be charged twice -- whatever the disk, the database and the other process
\* do, and wherever the platform dies.
CumpleElLibro == Libro!Spec

\* Once the database stays up, no row waits for ever, neither behind a row that
\* the table refuses nor behind a file that cannot be read.
LaColaSeVacia == <>[]base => \A f \in Filas : f \in dir ~> f \notin dir
=============================================================================
