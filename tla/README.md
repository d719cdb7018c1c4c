# Verification of the JAX platform

TLA+ models of the parts of the platform where the order of events decides
whether a document, a setting, a key, a brake, a bill, an attachment, an
invitation or a synchronisation is right, the TLC instances that check them and the TLAPS proofs about
them.

`src/backend` is one FastAPI process (one uvicorn worker, one asyncio event
loop) over MariaDB and the local disk. It talks to LAS MANOS (extraction jobs),
JACOBS (pipelines), Ollama and other model providers, and shares files and tables
with them and with a REPL. Its hard behaviour comes from five places, and the
models follow them:

* **await points.** Between two awaits nothing else of the loop runs, so an
  action of a model is one stretch of code between awaits and interleaves with
  every other task exactly there.
* **autocommit.** The pool of `db/connection.py` is `autocommit=True`. Where the
  code does not open `transaccion(...)`, each statement is a step of its own.
* **files and rows are not one transaction.** Copies, originals, spool rows,
  attachments, the brake and the seal are files; what is recorded about them are rows.
* **threads cannot be cancelled.** A request that leaves while its thread writes a
  file, takes a lock or kills a pool leaves the thread running.
* **more than one process.** The same caches, files, locks and tables are used by LAS
  MANOS, the REPL, the workers, the migrations and the command-line tools.

Names of variables, steps and operators are those of the code where TLA+ allows.

---

## 1. Inventory

### Modelled

| Part | State | Operations | Meets | Hard | Right means |
|---|---|---|---|---|---|
| **Document pipeline** `proyectos_documentos/{despachador,repositorio,original,almacen}.py`, `api/proyectos_documentos.py` | rows of `project_documents`, copies in `entrada/`, originals in `fuente/`, `_en_incertidumbre`, `GET_LOCK` | upload, duplicate, re-queue, reprocess, hide, restore; dispatcher cycle: synchronise, apply, delete, send, bind | LAS MANOS by HTTP; the disk; the life cycle of projects | two tasks and any number of requests over the same rows and files; an answer that never arrives; a lock connection that drops; a crash between any two awaits; a job forgotten | no document loses its last original; no attempt is sent twice; a final state is final; a bound row gets closed |
| **Settings cache** `ajustes.py`, `api/admin/config_admin.py` | cached rows, expiry, generation, lock | `filas`, `invalidar`, PUT | every request reads it | load in flight while the PUT invalidates; expiry under load | no answer older than an invalidation; one load per expiry; bounded age |
| **Facet and key resolution** `facet_resolver.py`, `credential_resolver.py` | two caches per process, the seal file | `resolve_facet`, `resolve_credential`, `_tocar_sello`, rotations, revocations | three processes share the seal; MariaDB may fail | query in flight while the seal is touched; equal time stamps; stale answers on error; clocks | nobody is answered a binding replaced before it asked; bounded age of bindings and of revoked keys |
| **Key administration and engine activation** `api/admin/credentials.py`, `virtual_office/engine_activation_cli.py` | `credential`, `credential_audit`, the engine's pinned key | rotate, revoke all, revoke one, activate | fills the table the resolver reads | statements of autocommit requests against a transaction of another process; cuts | bounded overlap; the engine pins the newest key; the audit does not lie |
| **Kill switch** `kill_switch.py`, `interruptor.py`, `api/admin/kill_switch.py` | the brake file, the legacy file, what the tabs were told | activate, release, emergency restore | everything that writes asks for it; tabs listen | each of file, audit row, event and look at the file can fail, after its effect too; crashes; two faults in one call | in doubt, braked; answers and tabs tell the truth of a file that can be looked at |
| **Usage spool** `uso/cola.py`, `uso/reintento.py`, `api/admin/usage.py` | files of rows, quarantine, counts of refusals, `axioma_usage` | `record_usage`, `encolar`, `_hacer_lugar`, `drenar`, `quitar`, `rechazar` | three writers of one directory, one drainer; the database | a full directory measured by one call and filled by others; a crash between INSERT and unlink; an outage that looks like a refusal; a lost answer | a consumption is charged once, waiting, kept aside for a reason or counted as lost; every row leaves |
| **Executor missions** `ejecutor/misiones.py`, `pausa.py` | mission and turn rows, pause file, the task and subprocess of a turn | create, continue, the task, the close with its event, reconcile at start, put and lift the pause | the contracts of JAX put the same pause; a runner process | pause against a launch; a close that fails or whose answer is lost; a restart with a turn running | one turn at a time; closed once, with its event; nothing but the launch in flight gets past the pause |
| **Attachments** `adjuntos/almacen.py`, `cuota.py`, `api/upload.py` | temporaries, data, sidecars, reservations per user | reserve, copy, classify, commit, deadline, undo, the cleaner | a lock per user; threads; the cleaner is another task | a writer that hangs past its deadline; cancellation at any await; the cleaner over files half written | the quota holds; what was handed out can be read; nothing stays on disk |
| **Office invitations** `virtual_office/invitations.py`, worker, procedures and triggers | invitation, outbox row with its encrypted bearer, evidence, memberships | issue, revoke, expire, preflight, accept; sweep, settle stale claims, claim, mail, settle | an SMTP relay; a timer that starts the worker | two runs; a run that dies between mailing and recording; an acceptance while the mail is on its way | a bearer is mailed at most once and erased with its invitation; the outbox is true of the relay; one member; everything resolves |
| **Priority lanes** `ejecutor/prioridad.py` | two `flock` files | the four `carril_*`, `_Toma` | the Mesa and the executor are two processes | cancelled while the thread takes the lock; a Mesa between two looks | whoever is in holds its lock, no lock is leaked, the Mesa first |
| **PDF pool** `adjuntos/pdf_pool.py` | the pool, its turns, the lock of the recycling | extract, recycle, watch, create, close | worker processes | a hung worker can only be killed with its pool; a cancelled request whose work goes on; two that suspect the same pool | no work waits inside the pool; no pool is left behind |
| **Catalogue synchronisation** `catalogo_sync_registro.py`, `sync_all` of `model_catalog.py` | the row of each run, the gate and the lock of the work (`GET_LOCK`) | reserve, run, close inside the lock, the safety nets, mark orphans | the endpoint and the timer are two processes; providers | a look and an INSERT that are no transaction; a lock that goes with its connection; a death anywhere; a run given for dead that ends late | one run at a time; a row says what its run gave; a closed row stays so; no row is open for ever |
| **Governance context** `governance_context.py` | one cached value under its stamp, the reload in flight, the marks of cancelled turns | `validation_context`, `_reload`, `_done`, `_wait_for_inflight` | the seal of the facets, three files, the catalogue | reloads of two stamps in flight that end in any order; a turn cancelled before or after the reload raises | no turn is served what was replaced before it began; one ERROR for each reload that fails unheard |

### Not modelled

| Part | Hard | Why not |
|---|---|---|
| The window half of `despachador.py` | rows stuck at low ids; local against global errors | `DocumentPipeline` sends any chunk of the window, so its safety covers every order; the cursor, `_trozos_trabados` and the count of uncertain sends over several windows are left to the code's tests |
| Upload and reprocess quotas (`cupo*.py`) | release in `finally` | a counter taken and released without an await between the look and the count |
| Account invitations, the legacy `deliver_one` path | as the project invitations | an outbox of their own with other tables; two of their differences are in section 5 |
| What a synchronisation writes, its cadence and its proposals | — | a copy of an external catalogue row by row; the runs are in `CatalogSync` |
| Sessions, passwords, rate limit; Office MFA | reuse of a code or a token | each is one transaction that locks the rows of the user, with a version or a unique row that is checked inside it |
| Web chat output | leases | an outbox in transactions with row locks; its consumer is another program |
| Conversations, memory, pipeline notices | — | one conditional UPDATE or one INSERT IGNORE under a key |
| Office authority (grants, people, projects, barrier) | project life cycle against the pipeline | rules over rows, one transaction each; `CambiarProyecto` of `DocumentPipeline` stands for the life cycle |
| Events, state, web sockets | slow subscribers | in-memory fan-out on one loop, rebuilt at each connection |
| Users, SMTP, configuration | — | one transaction per request with its audit row |
| Migrations, seeds, schema | — | run before anything is served; the triggers and procedures the delivery rests on are in `InvitationDelivery` |
| Module ledger, release evidence | — | verification of static documents |
| Chat and pipeline proxying, providers, health | — | I/O and response shaping; what they keep is in JACOBS |
| Front end, ops, CI, load tests | — | outside the program |

`PROJECT.json` lists every part with its sources and status, and 40 hazards with the line
where each one bites and the properties that watch it.

---

## 2. Plan

Done, in this order: `DocumentPipeline`, `AjustesCache`, `FacetResolver`,
`CredentialAdmin`, `KillSwitch`; then `UsageSpool` with `UsageLedger`, which it
implements, `ExecutorMissions`, `InvitationDelivery`, `AttachmentStore`,
`PriorityLanes`, `PdfPool`, `CatalogSync` and `GovernanceContext`.

Every safety invariant and action property of the runs has a theorem (section 6); what
is left to TLC is liveness. Left for later: `AttachmentStore` with the removal of a user,
account invitations, and the parts `PROJECT.json` lists as not modelled.

---

## 3. Modules

### `DocumentPipeline`

One project. A document is a content (its sha256); with
`UNIQUE (project_id, sha256)` it is its row too. Columns are functions
(`estado`, `jobId`, `ruta`, `carpeta`, `oculto`, `dueno`, `actualizado`); disk is
`presente` / `contenido` for `entrada/` and `fuente` for the originals. `vuelta` is
history: which attempt this is.

* *Requests* (`PasoDePeticion`). `Subir` is `escribir_streaming`; then the INSERT:
  committed (`InsertarAceptado`), lost without a trace (`ResultadoIncierto`; lost
  after committing is `InsertarAceptado`), duplicate (`InsertarDuplicado`, then
  `ReencolarAtascado` or `DuplicadoComun`), refused (`Rechazar`). Who deletes which
  copy is the variable `pCopia`, and a deletion may fail. `Reprocesar` and
  `CambiarVisibilidad` are their UPDATEs.
* *The dispatcher* (`Sincronizar`, `Despachar`): `TomarCandado`; a GET per open
  job whose answer is a **snapshot** (`foto`) applied in later steps; one UPDATE
  per row; the deletion of the copy in a step of its own; then the window
  (`leidas`), the POST of a chunk with its six outcomes, and `marcar_despachadas`
  (`Ligar`) after it. `PerderCandado` lets a second task in while the first goes on.
* *LAS MANOS* is external: a known key answers its job, a file is read at its path,
  the folder of the project is reported only with the original already in
  `fuente/`, jobs end with or without all their results and may be forgotten.
* *A crash* (`Caida`) empties memory and the lock, and keeps rows and disk.

Abstracted: which rows share a chunk (any subset with one owner; classes and ids
order are data), the text of errors, quotas, `parcial` folded into `listo`. With the
instances below the brake of uncertain sends is reached only when its threshold of
`2 * RutasPorTrabajo` documents fits in them, which none of the runs needs; the
proofs cover it.

### `AjustesCache`

`CacheDeAjustes`: `_filas`, `_vence`, `_generacion`, the lock. `filas()` is four
steps: `Empezar` (valid rows are returned with no await), `TomarCandado` (look
again), `LeerBase` (the server's SELECT), `Volver` (keep if the generation did not
move, answer in any case). The PUT is its transaction (`CerrarTransaccion`) and the
`invalidar` of its `finally`. `EditarPorFuera` edits without telling anyone. A
version number stands for the whole set of rows.

### `FacetResolver`

One facet, one provider, any processes. `resolve_facet` and `resolve_credential`
as steps between awaits, both SELECTs and their failures, both stale paths, the
seal with its writers (commit, read the clock, `utime`). `mono` measures TTLs and
`pared` dates entries and seal. `entorno`, fixed in each behaviour, says what it may
meet: a managed key, an unreadable seal, a wall clock set back, a failing
database. `bindingHasta` and `llaveHasta` are history: when a binding or a key
stopped being good.

### `CredentialAdmin`

Every statement of `rotate_credential`, `revoke_credential` and
`revoke_credential_by_id` is a step because the connection is autocommit and they
open no transaction; a `FOR UPDATE` of theirs holds nothing afterwards. The
activation has a real transaction: from `ActivarTomar` to its commit or rollback
the statements on those rows wait (`candado`). `Cortar` cuts a request between
statements.

### `KillSwitch`

`activar` and `reanudar` under the process lock. Each file operation may fail before its
effect, or after it (the `fsync` of the directory comes after the link or the
unlink); a commit may fail having reached the server or not; a rollback may fail
too; the process may die. A look at a file may fail too (`mirar`), and then answers that
the file is there: `Miradas` is `pausa_presente`, at each of the places that call it.
`fallas` says which of these a behaviour may meet. `deuda` and `dicho` are history: the
file is away by an unlink that no committed row records; the log says that it is away
(the ERROR of lines 299-300, or that of `_reponer_de_emergencia`). ENOENT races with a hand
that removes the platform's own file, and cancellation, are not modelled: the code's rule
is that nobody else writes that file.

### `UsageLedger` and `UsageSpool`

`UsageLedger` is the promise: each consumption is `nada`, `pendiente`, `cobrada`,
`doble`, `ilegible`, `rechazada` or `perdida`, and `Sigue` says which may follow which, and
why: `rechazada` only for what the table refuses, `ilegible` only for a file that is no row
or in a step in which something failed.
`UsageSpool` is the code. A call is `Registrar` (the direct INSERT: it commits, or
fails, or commits and its answer is lost), then `encolar`: `Encolar` takes `_lock`
without waiting or skips the measurement, `Medir` counts, `Listar` and `Descartar`
are `_hacer_lugar` with its unlink apart from its list, `Escribir` is the
temporary, the replace and the `fsync`, each of which may fail. A cycle of the drain is
`Leer` (a batch, setting aside what cannot be read: files that are no row, and any row
whose read raises, `rotos`, whatever it holds) or `FallarLectura` (the directory cannot be
listed), `Insertar` row by row (entered,
refused, or entered with its answer lost), `Confirmar` or `FallarCiclo`, `Quitar` under
`_lock`, `Mover` for the rows refused too often, `Podar`. `Ajena` writes a row of
another process with its own lock. `Caida` is a restart.
`CumpleElLibro` is `Libro!Spec`, with the state of a row read off the table and the
directories: the refinement mapping is the operator `Estado`.

### `ExecutorMissions`

Launches are `_barreras_de_lanzamiento` (look at the pause, look at the open turn)
and the INSERT, with the lock of the process and the look inside it; a task runs
the subprocess and closes its turn in the transaction that writes the terminal
event; `reconciliar_al_arrancar` closes what a dead process left. Each statement
may fail, or commit and lose its answer (`fallasEM`). `freno` is the file of the
pause: put and lifted by the platform with its audit, put by a contract of JAX at
any time. `trasPausa` is history: turns opened since the pause was put.

### `InvitationDelivery`

Every transaction locks the invitation and then its outbox row, so each is one
step; what is read before that lock is another: the discovery of stale claims, the
preflight of a guest, the choice of what to claim. The routines
(`office_invitation_*_v1`) and the triggers are translated with the Python that
calls them: `CancelMail`, part of `End`, is the trigger that erases and cancels the
mail of an invitation that ends. `Settle` may be applied or fenced; its replay is left
out, because no caller settles the same result twice. `Die` stops a
run anywhere, so a mail may have left with nobody to say so; `sent` counts what the
relay took.

### `AttachmentStore`

The uploads of one user. `Tamano` is one size for the reservation and for the sidecar: the
body was received before the first look, so what is reserved (`recibido`) is what is copied.
Quantities are counted byte by byte (`Bytes`, `Suma`), which lets the prover reason about them
with the cardinality of finite sets. `Reservar`, the copy in a thread, the classification, then
`Comprometer` under the lock of the user with what is on disk measured, the write
in a thread (`GuardarDato`, `GuardarSidecar`, `Asentar`, or `Deshacer`), and
`Acabar` or `Plazo`. Cancellation and failures leave through `Dejar`; the temporary
is deleted in the handler's `finally`. The cleaner lists a folder, looks at one
entry and deletes it in separate steps. `Envejece` and `Vence` are the ages the
cleaner compares; `Muere` is the death of the process. `tarde` marks commits past
their deadline, which the code lets go.

### `PriorityLanes`

A request has a task and a thread. The thread tries `flock(LOCK_NB)` again and again
and hands the locked file to the task through `_Toma` (`Entregar`), whose guard
makes it one step with `Abandonar`. To look for a Mesa is to take `mesa.lock` and let
it go, in two steps, so a look can itself be seen as a Mesa. `anteriores` is
history: the Mesa that was already in when an executor took its lock.

### `PdfPool`

An extraction takes a turn, finds, creates or recycles a pool, sends its work and
waits. `Fallar` is its timeout or a `BrokenProcessPool`; the recycling is the lock
(`TomarCandado`), the thread that kills (`Matar`) and what follows (`Reponer`).
`TrasCancelar` leaves a watch that keeps the turn. `sobrevive` marks a pool whose
killing was cancelled before its thread began (section 5).

### `CatalogSync`

A run reserves itself under the gate (`TomarGate`, `MarcarAntes`, `MirarCorriendo`,
`Alta`, `SoltarGate`; each statement may fail, the INSERT after its effect too), and then
takes the lock of the work on a connection of its own, runs, closes its row from
`on_terminar` with the lock held (`Terminar`), lets go (`LiberarTrabajo`) and passes through
the safety net (`Red`). `MarcarHuerfanas` is `IS_FREE_LOCK` and the UPDATE, done before each
reservation and by `SyncEstado`. `Morir` and `PerderConexion` take a process or the
connection with the lock. What `sync_all` does to the catalogue is its outcome only.
`sanas` is history: runs that took the lock with their row open and lost nothing since.

### `GovernanceContext`

A turn is `ServirContexto`, `Compartir` (the reload in flight has its stamp) or `Lanzar` (a
task of its own), then `Relevar` and `Volver`, or `Cancelar` and `Cancelada`. A task is
`LeerCatalogo`, `LeerFicheros`, `Guardar`, any of which may raise (`FallarRecarga`, its
limit of time too), and `Hecha`, its first callback. `AvisarTrasCancelar` is the callback a
cancelled turn adds. The three files are one, each change with a time of its own; `legible`
says whether it can be read. `sellado` is history: the catalogue at the last touch of the seal,
which is what a turn may count on.

### Instances and proofs

`MC*` give the constants their sets. `MCPipelineEscenarios` bounds a run as a union of
*scenarios*, each limiting how many actors of a kind are at work at once and how
much of each bound may be spent, and is the `CONSTRAINT` of the run: it restricts
which states are explored, never what a step does. `MCFacetResolver!Dentro` does the
same by `entorno`, and `MCSellos!DentroDelContexto` by what goes wrong. `*Proofs` hold the theorems.

Parts that share no state and ask the same kind of question are checked in one run:
`MCFrenos` (what must not happen whatever fails), `MCPlazos` (what must end: documents,
invitations, synchronisations), `MCSellos` (what the seal of the facets invalidates: the
facets and keys, the context of governance), `MCCerrojos` (what the process keeps under a
lock), `MCFicheros` (what lives in files), `MCProcesos` (what threads and processes do at
once). A behaviour is of
one part, which the variable `parte` fixes in the first state; the others stay as they
began. So each property is checked over the whole of its own part, and fairness is
stated part by part.

---

## 4. Runs

| Run | Shows | Instance |
|---|---|---|
| `pipeline_originals` | `OriginalNuncaSePierde`, `FinalSoloPorReencolar` | one document, two copies. *archivos*: two requests, one task, every kind of result, a forgotten job. *candado*: two tasks, the lock lost once, one kind of result. *cierres*: the same with one copy, two kinds of result (so reprocesses), a forgotten job and an uncertain send |
| `pipeline_attempts` | `ResultadoDelIntento`, `UnTrabajoPorTrozo`, `TrabajoDeUnDueno` | *caida*: two copies, a crash, a forgotten job, an uncertain send. *cambios*: two changes of the document's visibility or the project's, an uncertain send. *intentos*: three attempts and three jobs of one document with a crash. *tardio*: the same with two tasks and the lock lost, so that a late result meets the path of its attempt under another job. *duenos*: two documents of two users, two paths per job |
| `pipeline_liveness` (`MCPlazos`) | `NoQuedaAbierta`, `Resolved`, `NadieCorreParaSiempre`, under fairness; `UnaCorriendo`, `CierreVeraz`, `CerradaSeQueda` | a document: two attempts, a crash, a forgotten job. Invitations: two, one with a mail that cannot be decrypted, that nobody accepts; a run of the worker that dies. Synchronisations: two, with two failures, deaths or lost connections in all |
| `pipeline_late_dispatcher` | `DuplicadoSeIgnora` is **false** | two tasks, the lock lost once |
| `ajustes_cache` (`MCCerrojos`) | `FrescoTrasInvalidar`, `UnaRecarga`, `EdadAcotada`; `CuotaRespetada`, `LoEntregadoSeLee` | settings: two calls, a PUT, edits by hand, TTL 2 of 3 ticks. Attachments: two uploads of which one fits, one of them an image, a crash |
| `facet_resolver` (`MCSellos`) | `FrescoTrasSello`, `EdadDeLoServido`; `VeSuMarca`, `UnaSenal` | facets: two calls, two writers, three versions (one with no active binding), TTL 1 and ceiling 2 of 4 ticks; three environments (`Dentro` says what each may spend). Governance: two turns that call again, two reloads, one touch of the seal, one change of the catalogue or of the file, which may stop being readable |
| `credential_revoked` | `RevocacionEnTTL` is **false** | one call, one key, database up |
| `credential_admin` (`MCProcesos`) | `CotaDeActivas`, `AuditoriaVeraz`, `MotorConLaMasNueva`; `CarrilConDueno`, `MesaPrimero`; `SinColaEnElPool`, `NingunPoolFantasma` | keys: two requests, two activations, four keys, cuts. Lanes: two requests of each. Pool: three extractions for two workers, three pools, a worker that dies, the shutdown |
| `credential_engine` | `MotorConservaSuLlave` is **false** | one request, one activation |
| `kill_switch` (`MCFrenos`) | `SueltoConAuditoria`, `AvisoAlDia`, `RespuestaVeraz`; `UnTurnoALaVez`, `PausaFrena`, `UnSoloCierre`; `AtMostOneMail`, `RelayTruth`, `BearerErased`, `OneMember` | the brake: two calls, all sixteen combinations of faults. The executor: two requests for a turn, a change of the pause and the contracts of JAX, all combinations of faults. Invitations: two of one subject, two runs of the worker, two guests, a run that dies |
| `kill_switch_double_fault` | `SiempreSeRepone` is **false** | disk and database fail |
| `usage_spool` (`MCFicheros`) | `CumpleElLibro` (the refinement), `LaColaSeVacia`; `TodoSeRecoge`; the last two under fairness | usage: two rows of the platform and one of another process, a spool of one, batches of two, two refusals, four calls and mishaps in all, beginning in an outage. Attachments: an upload of a text and a crash |

**Bounds and why they are enough.** The counters that only grow (times a row is queued,
visibility changes, crashes, forgotten jobs, lost locks, versions, invalidations,
ticks, keys, calls and mishaps of the spool, deaths of a run, pools, failures of a
synchronisation, reloads and touches of the seal) are capped by guards named `Max...`.

* *Documents.* A violation of the file property needs a copy left behind and a second
  one registered, hence two copies and two attempts. To reuse a key wrongly takes a second
  attempt with the same path, which only a reprocess of a reprocess gives: three
  attempts; and so does a result applied to the wrong job, which takes a lost lock as
  well. A mixed job takes two owners.
* *Caches.* One call whose load overlaps a write and a second call that asks afterwards;
  the clocks run past TTL and ceiling. One process is enough for the seal in the
  instance, since `Tocar` may or may not drop the entry of its own process and not
  dropping it is what the others see; the theorem is about any processes.
* *Keys.* Two requests are what the overlap of autocommit statements takes.
* *Spool.* With room for one row the second call already has to drop one; a row of
  another process shares the directory and not the lock; a batch of two has a row that
  enters beside one that is refused.
* *Executor.* Two launches race; the second one may be of the mission of the first.
* *Invitations.* Two runs of the worker meet on one claim; two guests meet on one
  invitation, and two invitations of one subject follow each other. `Pocos` keeps the
  two runs to the states in which none has died and no guest has come: a dead run
  is the same as one that stays where it is for ever, and a guest meets the mail, not the
  run. For liveness one run is used, because the unit is a one-shot that its timer starts
  again when it has ended.
* *Attachments.* Two uploads meet in the quota. `Solas` lets the cleaner run and files
  grow old only while one upload has come, because the files of two attachments never meet
  (each has an identifier of its own).
* *Lanes.* Two of each: one holds, one waits.
* *Pool.* One more extraction than workers; two recyclings need three pools.
* *Synchronisations.* Two meet at the gate, at the lock or in each other's row; a failure
  may lose the lock of one, and a second failure the close that follows.
* *Governance.* Two turns of different stamps have a reload each, in flight at once, and
  either may end last. A file changed under one of them is compared with the catalogue
  changed under the other in different behaviours, since the stamp treats them alike.

Where safety is proved the bounds do not matter.

**Symmetry** is over names the specification never distinguishes, in safety runs
only. Deadlock is not checked where every bound may be spent or the requests end. In
`kill_switch` and `usage_spool` it is: there only the parts whose requests end may stop
(`Acaba`).

**Fairness.** It is stated only in `pipeline_liveness` and `usage_spool`, for what a loop
or a timer of the code repeats.

* *Documents.* `NoQuedaAbierta` is about rows bound to a job (pendiente or procesando). A row
  that stays en_cola, because its file is skipped, its chunk always fails or the brake of
  uncertain sends is on, is not covered. `start_despachador` is a loop that catches everything but cancellation
  and sleeps between cycles: weak fairness of a dispatcher's next step. An answer of LAS
  MANOS, the read of the open rows and the UPDATE of a row may each fail any number of
  times, but not for ever while retried every cycle: strong fairness of
  `Consultar`/`TrabajoPerdido`, `LeerFilas` and `AplicaDoc`. LAS MANOS ends or forgets
  its jobs: weak fairness. Nothing is assumed of requests, of the sending half, of
  crashes or of the lock's connection, and the run has no lock loss: an open row is
  closed by whoever cycles next.
* *Invitations.* The timer starts the unit and each of its steps is taken (`Run`); dates come
  and claims grow stale. Nothing is assumed of the relay: a mail may always fail.
* *Spool.* `start_reintento_de_uso` is a loop that catches everything (`Drenar`), and a
  call that began goes on (`Llamada`). `LaColaSeVacia` assumes that the database stays up
  from some moment on; no row has to come or be accepted.
* *Attachments.* Time passes and the cleaner's loop goes on (`PasaTiempo`, `Barre`).
  Nothing is assumed of uploads, which may stop anywhere.
* *Synchronisations.* A run that began goes on, the margin of an open row passes and somebody
  looks at the state. Each changes something a bounded number of times, so that weak
  fairness of their disjunction (`AlgoSigue`) is enough. The screen asks while it is open, and each
  reservation marks orphans too; without either, a row whose process died stays open until
  the next one. Deaths and failures are not fair.

**Refinement.** `CumpleElLibro` says that `UsageSpool` implements `UsageLedger` under the
mapping that reads the state of a row off the table and the disk. It is checked in
`usage_spool` and proved in general.

Every property has a mutant in `PROJECT.json`: a definition with the bug a tired hand
would write (`>` for `>=` on the seal, `updated_at` moved by a hide, a result
applied whatever the state, a turn released with its work running), under which TLC finds it
violated. The mutated forms are beside the definitions, marked *Fault* or *Mutant*. The
types of every module are theorems (`UsageLedger` aside, whose state is one function), and
no run repeats them.

---

## 5. Where the code and its texts disagree

Found while modelling and kept as runs that fail:

1. **`pipeline_late_dispatcher`** (`repositorio.py:441`). `marcar_despachadas` does not
   compare `updated_at`, so a dispatcher that lost its lock after its POST binds a
   row re-queued meanwhile to the job of the earlier attempt, and that job closes
   it. `despachador.py:51-53` says that the duplicate's result is ignored. No
   original is lost.
2. **`credential_revoked`** (`credential_resolver.py:115`). The `except` that serves a
   stale key also catches "no active key": with the database up a revoked key is
   answered up to the ceiling, not the TTL of lines 31-32.
3. **`credential_engine`** (`credentials.py:163`). Look and UPDATE are two autocommit
   statements; an activation between them pins a key that is then revoked, against
   `credentials.py:141-142`.
4. **`kill_switch_double_fault`** (`kill_switch.py:292`). The exception of a failing
   rollback hides that of the file: `quitado` is still False and the restore is skipped,
   against `:281-285` ("el estado del freno igual queda correcto (se repone acá abajo)"). The
   log does say that the brake is off (lines 299-300), which is the exception that line 108
   makes; `RespuestaVeraz` and `SueltoConAuditoria` hold because of it.

Noticed, and covered by the bound that does hold:

* `ajustes.py:311` dates the rows at the end of their load, so an edit by hand stays hidden for
  the TTL plus the rest of the load, not the TTL of lines 18-19: `EdadAcotada`.
* `facet_resolver.py:347` dates a key by its facet entry, so the facet's ceiling adds to
  the one `credential_resolver.py:33-34` states: `EdadDeLoServido`.
* `facet_resolver.py:175`: a writer in another process (`migrations.py:3909`) may set
  the seal back, against line 218. `FrescoTrasSello` is stated and proved for
  writers of one event loop; `EdadDeLoServido` bounds the rest.
* `credentials.py:112`: concurrent rotations pass the same count, so more than
  `_MAX_ACTIVE_PER_PROVIDER` (line 38) may be active: `CotaDeActivas`, one more
  per request in flight. `revoke_credential` may likewise revoke a key it
  does not audit (line 183); `AuditoriaVeraz` is the direction that holds.
* `kill_switch.py:257` unlinks before the commit: a crash in between leaves the brake
  off with no row, against lines 11-13. `SueltoConAuditoria` excludes crashes.
* `interruptor.py:63-64`: who cannot look at the file takes it as put. So a write that failed
  and that nobody can check is answered as `cambio`, on purpose (`kill_switch.py:225-232`),
  although there may be no file; a 503 of a release may come with the file removed, and the
  log may say that the brake is put when it is not. Everybody who asks in the meantime reads
  it as put. `RespuestaVeraz`, `AvisoAlDia` and `SueltoConAuditoria` are for behaviours in
  which the file can be looked at (`SeMira`); `AvisoCompleto` needs no such condition.
* `uso/cola.py:424`: a row whose read raises `OSError` is moved to `corruptos/` like one that is
  not a row. If the disk failed only for a moment, a healthy consumption is set aside with a
  warning and a count, and nothing reads that directory again: only a person charges it.
  `UsageLedger` allows it (`ilegible` with a mishap), and `LaColaSeVacia` counts it as gone.
* `uso/cola.py`: `_rechazar` moves files without `_lock`, and other processes write with
  locks of their own, between the list of `_hacer_lugar` and its unlinks; so it may drop a row
  too many, and the overshoot may pass "calls in flight minus one". The direct INSERT
  of `record_usage` has no `spool_id`: a lost answer charges twice (`doble`). A row dropped
  for room while it is being inserted is counted as lost and charged, and a `fsync` that
  fails after the replace counts as lost a row that is waiting. `UsageLedger` allows exactly
  these: `perdida` may still be `cobrada`, and only a row of the platform may be `doble`.
* `ejecutor/misiones.py:624`: an exception in the task closes its turn without killing
  the runner, so that a second runner may start beside it, against lines 22-23
  ("Un turno a la vez en toda la plataforma"); the second half of `UnTurnoALaVez` is for a
  database that does not fail. An INSERT whose answer is lost leaves an open turn with no
  task, and every launch answers 409 until the next start.
* `virtual_office/invitations.py`: a second invitation for a subject with one pending hits a
  unique key outside the `try` that translates errors, so the answer is a 500; one
  that expired and was not swept blocks too. The account invitations, which are not modelled,
  keep the bearer of a mail that is claimed when the invitation ends; the project ones erase it
  (`BearerErased`).
* `adjuntos/cuota.py:305`: a commit that went past its deadline may come on top of the
  quota, and a slow one may be swept of its data and leave a sidecar; both are accepted in the
  comments, and `CuotaRespetada` and `LoEntregadoSeLee` exclude such commits (`tarde`). A
  removal of the user, which is not modelled, may do the same to a commit in progress.
* `ejecutor/prioridad.py:62`: `hay_mesa_esperando` also answers yes while another executor
  looks, and it sees a Mesa that holds the lock, not one that waits for it. A request of the
  Mesa may meet the look of an executor, against line 53 ("Bloquea sólo contra otra
  petición de Mesa"). `MesaPrimero` is about a Mesa that was in.
* `adjuntos/pdf_pool.py:365`: a request cancelled while it awaits the kill, before the thread has
  begun, takes the kill with it: the pool lives on with the hung work and the turn is
  released, although the docstring speaks of "el pool ya matado". `SinColaEnElPool` excludes
  such pools (`sobrevive`). The look at `_cerrado` in `_reciclar` (line 378) is never true:
  the shutdown leaves no pool to recycle.
* `governance_context.py:145` says that a file that cannot be read enters the stamp as
  `None` and so invalidates. A reload launched for that stamp may find the file readable
  again and be kept under `None`; the next time the file cannot be read, that value is
  served and nothing raises. `VeSuMarca` then speaks of the catalogue alone.

---

## 6. Proofs

All theorems hold for every value of the constants that meets the named `ASSUME`s
(any sets, any bounds). Each is `Init => I`, `I /\ [Next]_vars => I'`, `I => P`, and PTL.

* **`DocumentPipelineProofs`.** `TiposCorrectos`, `Invariante`, `NingunOriginalSePierde`,
  `FinalSeRespeta`. `OriginalNuncaSePierde` is not inductive: a deletion is decided in one
  step and done in another. `IInv` adds who owns each copy: an unfinished request
  owns a written copy no row points at and no other request owns
  (`CopiaDePeticion`); one it may still register is nobody's to delete
  (`CopiaPorRegistrar`); a row's copy holds its document (`RutaDeFila`); what the
  dispatcher is about to delete belongs to no open row (`CopiaPorBorrar`); a
  carpeta of the project is reported or snapshotted only once the original is in
  `fuente/`, which only grows (`PropiaEnFuente`); jobs named anywhere exist
  (`TrabajoConocido`). Steps that touch no file are dealt with once (`Marco`). The
  proof includes lost locks and crashes. `FinalSeRespeta` needs that a queued row
  has no job.
  Of the attempts, on top of `Invariante`: `Intento`, and from it
  `CadaResultadoEsDeSuIntento`, `NingunTrozoRepiteTrabajo`, `CadaTrabajoEsDeUnDueno`. An
  attempt is a row and one of its turns in the queue. `InvDeIntentos` says that whatever was
  read of a row, by a dispatcher or by LAS MANOS, is what the row said in that turn
  (`DelPasado`), so two readings of one turn are equal (`IntentosIdentifican`) and equal keys
  are equal chunks (`ClaveDelTrozo`): a POST that finds no job under its key asks for rows no
  job was asked for (`PedidosDistintos`). The chunk about to be bound is what its job was
  asked for (`TrozoEnCurso`), which gives every bound row its owner (`FilasConDueno`). These hold
  with lost locks. While none is lost, only its holder works (`UnoTrabaja`) and what it read
  still waits in the same turn (`VentanaAlDia`), which is what `ResultadoDelIntento` rests on.
  Steps that read, bind and re-queue nothing are dealt with once (`SinTocarIntentos`).
  The other half of `ResultadoDelIntento`, `DiceLoReportado`, rests on `InvDeResultados`: what was
  looked up of a job is what the job reported (`FotoVeraz`), reports are not taken back, and the
  UPDATE of `aplicar_resultado` asks for the job that was looked up.
* **`CerrojosProofs`.** Of the settings: `InvarianteDelCache`, `NadieLeeLoInvalidado`,
  `SeRecargaUnaVez`, `LaEdadSeAcota`. The invariant dates the one load under the lock by its
  generation: if that is the current one, what it read is at least what was announced.
  Of the attachments: `TiposDelAlmacen`, `ElAdjuntoSeEncuentra`. `LoEntregadoSeLee` is not
  inductive: the cleaner looks in one step and deletes in another. `AlmacenEnOrden` adds which
  files there are at each point of the thread that writes (`DiscoEnOrden`), and that a datum
  the cleaner is about to delete is of an upload that is past writing and left no sidecar
  (`BarreEnOrden`). `LaCuotaSeRespeta` adds that a reservation is held exactly from the first look
  to the end of the commit, with the size of the upload (`ReservaEnCurso`): so the sidecar of a
  commit in time is of an upload that already counted, and only the first look adds to what
  counts (`SoloReservarCuenta`). It assumes finitely many uploads. The second look, under the
  commit, is not used: of the properties here none needs it, and it refuses where a commit past
  its deadline, which the theorem leaves out, has filled the folder.
* **`SellosProofs`.** Of the facets: `TiposCorrectos`, `ElSelloSeVe`. A writer commits before it
  reads the hour it will write; so whatever is dated after that hour read its
  binding. `Fechado(v, r)` says what a binding read by something dated `r` is at
  least as new as, for entries and for calls in flight. Assumptions, in the
  theorem or the property: one event loop for all writers, a readable seal, a wall
  clock that is not set back. Each is needed: without it TLC finds the old binding.
  `LaEdadTieneTecho` needs none of them. `InvDeEdad` dates everything by the monotonic clock: an
  entry by the instant its call began, a call by the instant it looked. What it holds was
  current then (`EntradaConEdad`, `LlaveConEdad`, `VueloConEdad`), and what stops being current
  does so at an instant no earlier than any date; the key of a facet entry may be older by the
  ceiling of the other cache, which is where the sum of the two ceilings comes from.
  Of the governance context: `TiposDelContexto`, `NadieVeLoAnterior`, `UnErrorPorRecarga`.
  `MarcasEnOrden` says that whatever was read under the stamp of now, in flight or kept, is no
  older than what is sealed, and that a turn waits for a task no older than itself, whichever
  reload ends last. `SenalesEnOrden` counts a line of the log for each task that was signalled,
  and keeps, for a mark on a task that has ended, the callback that will see it.
* **`CredentialAdminProofs`.** `TiposCorrectos`, `ElMotorPinchaLaMasNueva` (the key chosen
  stays the newest active one while the locks are held), `ElSolapamientoTieneCota`
  (active keys plus requests about to insert never pass the bound; finite-set
  cardinalities), `LaAuditoriaNoMiente`.
* **`FrenosProofs`.** Of the brake: `TiposCorrectos` (with mutual exclusion), `Invariante`,
  `LaRespuestaEsVeraz`, `LasPestanasNoQuedanAtras`, `ElAvisoEsCompleto` (the tabs are told
  that the brake is off only with both files away), `SoloSeSueltaConAuditoria`: what each
  step of the request that holds the lock knows of the file, of the audit debt, of the log
  and of the tabs. All but `TiposCorrectos`, `Invariante` and `ElAvisoEsCompleto` assume that
  the file can be looked at, and the last one that the process does not die; no combination of
  the other faults is left out.
  Of the executor: `TiposDeMisiones`, `UnSoloTurno`, `LaPausaFrena`,
  `CierreUnico`. `EMInv` adds to the types that there is one open row (`UnaFila`), that who is
  about to insert saw none (`Espera`), that a process that is down runs nothing (`Abajo`),
  that without failures of the database every task and runner is of an open row (`ConFila`), that
  a terminal event that was read is in the log (`Anotado`), and that nobody has followed
  who is past the pause (`TrasLaPausa`). The second half of `UnTurnoALaVez` follows from
  `ConFila` and `UnaFila`.
* **`UsageSpoolProofs`.** `TiposCorrectos` carries the mutual exclusion of `_lock`: in the
  sections that count, drop, read or remove there is one call or cycle of each process.
  `CadaFilaEnSuSitio` is the inductive invariant: what a cycle is about to remove is
  in the table, what it is about to move as refused is refused by it, a row set aside is
  neither waiting nor about to be inserted, and a row whose call runs is in no directory yet. `ImplementaElLibro` then takes each action and shows, row by row
  (`PasoDeFila`), that the abstract state stays or moves along `Sigue`.
* **`InvitationDeliveryProofs`.** `WellTyped` includes the CHECKs of the outbox
  (`RowShape`). `MailedOnce` and `TruthOfTheRelay` need each other, and share `DInv`: a run holds
  only claims that carry its name, a claim not yet sent has sent nothing, and no final state goes
  back to the queue. `ErasedBearer` and `OneMemberEach` are inductive with the types.

* **`ExclusionProofs`.** Of the synchronisations: `TiposDeCorridas`, `UnaSolaCorrida` (who is
  at the gate holds it, and who is about to insert saw no open row: `UnGate`),
  `ElCierreEsVeraz` (`CierreSano`: a healthy run holds the lock until its row is closed, so
  nobody marks it), `LoCerradoSeQueda`. Of the lanes: `TiposDeCarriles`,
  `CadaCarrilConSuDueno`, `LaMesaVaPrimero` (`CarrilesEnOrden`: what each point of a request and
  its thread holds). Of the pool: `TiposDelPool`, `NadaQuedaAtras`, `CadaTrabajoConSuTurno`.
  `PoolEnOrden` says that who holds the lock of the recycling kills the pool in use
  (`UnSoloReciclado`) and that work runs only with its turn or in a pool that is being
  killed (`Colocada`); `TurnosContados` bounds the turns by the workers, with finite
  cardinalities.

**Only model-checked:** `NoQuedaAbierta`, `Resolved`, `LaColaSeVacia`, `TodoSeRecoge` and
`NadieCorreParaSiempre`: liveness under fairness is out of the prover's reach.

---

## 7. Running

    tlc -workers 2 -config pipeline_originals.cfg MCPipelineEscenarios.tla
    tlc -workers 2 -config kill_switch.cfg MCFrenos.tla
    tlapm DocumentPipelineProofs.tla

The module of each configuration is in `PROJECT.json`. The longest runs take about three
minutes on two cores; the proofs a few minutes each.
