---------------------------- MODULE AttachmentStore ----------------------------
(***************************************************************************)
(* backend/adjuntos/almacen.py and cuota.py under api/upload.py, for the   *)
(* folder of one user: an upload reserves quota, is copied to a temporary  *)
(* file, and is committed by a thread that writes the data and then its    *)
(* sidecar.  A sweeper deletes what expired and what died half way.        *)
(*                                                                         *)
(* An attachment is named by the upload that makes it.  Each atomic write  *)
(* (temporary file, fsync, replace) is a step; the rmdir of an empty       *)
(* folder, which an upload undoes when it opens its file, and the removal  *)
(* of a user, who loses every file and has no session, are left out.       *)
(***************************************************************************)
EXTENDS Naturals, FiniteSets

CONSTANTS
    Subidas,     \* uploads of the user
    Imagenes,    \* those of an image: the copy is renamed; of a text it is read
    Tamano,      \* bytes of each
    Cuota,       \* JAX_ADJUNTOS_CUOTA_BYTES_USUARIO
    Ninguna,       \* nobody: a lock that is free, a cleaner with nothing to delete
    MaxMuertes   \* the process dies at most this often

\* The entries of the folder.
Entradas == {"temporal", "dato", "sidecar"} \X Subidas

ASSUME AdjuntosSupuestos ==
    /\ IsFiniteSet(Subidas) /\ Imagenes \subseteq Subidas
    /\ Tamano \in [Subidas -> Nat \ {0}] /\ Ninguna \notin Subidas \union Entradas
    /\ Cuota \in Nat /\ MaxMuertes \in Nat

VARIABLES
    donde,       \* where the handler of each upload is
    hilo,        \* what its thread is doing; a thread outlives its handler
    cerrojo,     \* the upload that holds the lock of the user
    reserva,     \* the bytes it has reserved
    tarde,       \* uploads whose commit went past its deadline
    entregada,   \* uploads answered with the id of the attachment
    temporal,    \* the temporary file: none, or its age
    dato,        \* the data file: none, or its age
    sidecar,     \* is the sidecar there?
    vencidas,    \* uploads whose attachment has expired
    barre,       \* the sweep of the cleaner
    muertes      \* times the process died

handler == <<donde, cerrojo, reserva, tarde, entregada>>
ficheros == <<temporal, dato, sidecar>>
resto == <<vencidas, muertes>>
ASvars == <<handler, hilo, ficheros, barre, resto>>

\* A file is old when ORFANO_MAX_SEGUNDOS have passed since its mtime.
Edades == {"no", "nuevo", "viejo"}

\* A sweep: the names it listed, those it has not looked at, and the one it is
\* about to unlink.
Barrido == [foto : SUBSET Entradas, quedan : SUBSET Entradas, borra : Entradas \union {Ninguna}]
SinBarrer == [foto |-> {}, quedan |-> {}, borra |-> Ninguna]

Escribiendo == {"dato", "sidecar", "sincroniza", "deshace", "suelta"}

ASTypeOK ==
    /\ donde \in [Subidas -> {"fuera", "copia", "cola", "commit", "escribe", "limpieza", "fin"}]
    /\ hilo \in [Subidas -> {"no", "copia", "hecho", "falla"} \union Escribiendo]
    /\ cerrojo \in Subidas \union {Ninguna} /\ reserva \in [Subidas -> Nat]
    /\ tarde \subseteq Subidas /\ entregada \subseteq Subidas /\ vencidas \subseteq Subidas
    /\ temporal \in [Subidas -> Edades] /\ dato \in [Subidas -> Edades]
    /\ sidecar \in [Subidas -> BOOLEAN]
    /\ barre \in Barrido /\ muertes \in 0 .. MaxMuertes
    /\ \A s \in Subidas : donde[s] = "escribe" <=> cerrojo = s

ASInit ==
    /\ donde = [s \in Subidas |-> "fuera"] /\ hilo = [s \in Subidas |-> "no"]
    /\ cerrojo = Ninguna /\ reserva = [s \in Subidas |-> 0]
    /\ tarde = {} /\ entregada = {} /\ vencidas = {}
    /\ temporal = [s \in Subidas |-> "no"] /\ dato = [s \in Subidas |-> "no"]
    /\ sidecar = [s \in Subidas |-> FALSE]
    /\ barre = SinBarrer /\ muertes = 0

-----------------------------------------------------------------------------
(* The quota *)

\* The bytes of the uploads of S when de[s] are those of s, and how many they are.
Bytes(de, S) == UNION {{s} \X (1 .. de[s]) : s \in S}
Suma(de, S) == Cardinality(Bytes(de, S))

Visibles == {s \in Subidas : sidecar[s] /\ s \notin vencidas}

\* uso_de_usuario: read from the disk every time.
Usado == Suma(Tamano, Visibles)

Reservado == Suma(reserva, Subidas)

\* Mutant of CabeEnCuota: what is on the disk is not counted.
CabeSoloReservado(s) == (Reservado - reserva[s]) + Tamano[s] <= Cuota

CabeEnCuota(s) == Usado + (Reservado - reserva[s]) + Tamano[s] <= Cuota

-----------------------------------------------------------------------------
(* The handler of an upload *)

\* The handler goes on, with what it has reserved.
Anda(s, desde, hacia, bytes) ==
    /\ donde[s] = desde /\ donde' = [donde EXCEPT ![s] = hacia]
    /\ reserva' = [reserva EXCEPT ![s] = bytes]

\* Under the lock: the first look at the quota.  It is reserved and the thread of
\* the copy starts, or the upload is refused (413, or 503 of a reading that does not
\* end, or 507 of a full disk).
Reservar(s) ==
    /\ cerrojo = Ninguna
    /\ \/ CabeEnCuota(s) /\ Anda(s, "fuera", "copia", Tamano[s]) /\ hilo' = [hilo EXCEPT ![s] = "copia"]
       \/ Anda(s, "fuera", "limpieza", 0) /\ UNCHANGED hilo
    /\ UNCHANGED <<cerrojo, tarde, entregada, ficheros, barre, resto>>

\* The copy ended.
Copiada(s) ==
    /\ hilo[s] = "no" /\ temporal[s] # "no" /\ Anda(s, "copia", "cola", reserva[s])
    /\ UNCHANGED <<hilo, cerrojo, tarde, entregada, ficheros, barre, resto>>

\* Its turn came, its bytes were read and it is of a type that is kept.
Clasificada(s) ==
    /\ temporal[s] # "no" /\ Anda(s, "cola", "commit", reserva[s])
    /\ UNCHANGED <<hilo, cerrojo, tarde, entregada, ficheros, barre, resto>>

\* A refusal, an error or a cancellation before the commit: the reservation is
\* released, and the thread, if one is running, goes on.
Dejar(s) ==
    /\ \E desde \in {"copia", "cola", "commit"} : Anda(s, desde, "limpieza", 0)
    /\ UNCHANGED <<hilo, cerrojo, tarde, entregada, ficheros, barre, resto>>

\* Reserva.confirmar: the second look, and the commit starts with the lock held.
Comprometer(s) ==
    /\ cerrojo = Ninguna /\ CabeEnCuota(s) /\ cerrojo' = s
    /\ Anda(s, "commit", "escribe", reserva[s]) /\ hilo' = [hilo EXCEPT ![s] = "dato"]
    /\ UNCHANGED <<tarde, entregada, ficheros, barre, resto>>

\* The write ended: only then are the reservation and the lock released, also when
\* the handler was cancelled and nobody gets the id.
Acabar(s) ==
    /\ hilo[s] \in {"hecho", "falla"} /\ Anda(s, "escribe", "limpieza", 0) /\ cerrojo' = Ninguna
    /\ \/ hilo[s] = "hecho" /\ entregada' = entregada \union {s}
       \/ UNCHANGED entregada
    /\ hilo' = [hilo EXCEPT ![s] = "no"]
    /\ UNCHANGED <<tarde, ficheros, barre, resto>>

\* The write does not end in its deadline: the user is not left without uploads.
Plazo(s) ==
    /\ hilo[s] \in Escribiendo /\ Anda(s, "escribe", "limpieza", 0) /\ cerrojo' = Ninguna
    /\ tarde' = tarde \union {s}
    /\ UNCHANGED <<entregada, hilo, ficheros, barre, resto>>

\* The finally of upload_file.
BorrarTemporal(s) ==
    /\ Anda(s, "limpieza", "fin", 0) /\ temporal' = [temporal EXCEPT ![s] = "no"]
    /\ UNCHANGED <<hilo, cerrojo, tarde, entregada, dato, sidecar, barre, resto>>

-----------------------------------------------------------------------------
(* The threads *)

\* The thread of an upload goes on.
Hila(s, desde, hacia) ==
    /\ hilo[s] = desde /\ hilo' = [hilo EXCEPT ![s] = hacia]
    /\ UNCHANGED <<handler, barre, resto>>

\* copiar_subida: the file is there, or was too big or could not be written.
Copiar(s) ==
    /\ Hila(s, "copia", "no")
    /\ \E e \in {"no", "nuevo"} : temporal' = [temporal EXCEPT ![s] = e]
    /\ UNCHANGED <<dato, sidecar>>

\* Mutant of EdadDelDato: the data keeps the age of the copy.
EdadDeLaCopia(s) == IF s \in Imagenes THEN temporal[s] ELSE "nuevo"

\* The mtime is refreshed before the rename.
EdadDelDato(s) == "nuevo"

\* guardar_imagen renames the copy if it is still there; guardar_texto writes the text.
GuardarDato(s) ==
    /\ \/ /\ s \in Imagenes => temporal[s] # "no"
          /\ Hila(s, "dato", "sidecar") /\ dato' = [dato EXCEPT ![s] = EdadDelDato(s)]
          /\ temporal' = IF s \in Imagenes THEN [temporal EXCEPT ![s] = "no"] ELSE temporal
       \/ Hila(s, "dato", "falla") /\ UNCHANGED <<temporal, dato>>
    /\ UNCHANGED sidecar

\* The sidecar is the commit; when it, or the fsync of the folder, fails, both are undone.
GuardarSidecar(s) ==
    /\ \/ Hila(s, "sidecar", "sincroniza") /\ sidecar' = [sidecar EXCEPT ![s] = TRUE]
       \/ Hila(s, "sidecar", "deshace") /\ UNCHANGED sidecar
    /\ UNCHANGED <<temporal, dato>>

Asentar(s) ==
    /\ Hila(s, "sincroniza", "hecho") \/ Hila(s, "sincroniza", "deshace")
    /\ UNCHANGED ficheros

\* _borrar_adjunto: the sidecar first, then the data.
Deshacer(s) ==
    \/ Hila(s, "deshace", "suelta") /\ sidecar' = [sidecar EXCEPT ![s] = FALSE] /\ UNCHANGED <<temporal, dato>>
    \/ Hila(s, "suelta", "falla") /\ dato' = [dato EXCEPT ![s] = "no"] /\ UNCHANGED <<temporal, sidecar>>

-----------------------------------------------------------------------------
(* Time: both the age of an orphan and the life of an attachment are longer than *)
(* the deadline of a commit, but not than the wait of a copy for its turn.       *)

Envejece(s) ==
    /\ \/ temporal[s] = "nuevo" /\ temporal' = [temporal EXCEPT ![s] = "viejo"] /\ UNCHANGED dato
       \/ /\ dato[s] = "nuevo" /\ donde[s] # "escribe"
          /\ dato' = [dato EXCEPT ![s] = "viejo"] /\ UNCHANGED temporal
    /\ UNCHANGED <<handler, hilo, sidecar, barre, resto>>

Vence(s) ==
    /\ s \notin vencidas /\ vencidas' = vencidas \union {s} /\ donde[s] # "escribe"
    /\ sidecar[s] \/ hilo[s] = "sidecar"
    /\ UNCHANGED <<handler, hilo, ficheros, barre, muertes>>

-----------------------------------------------------------------------------
(* The sweeps *)

Existe(e) ==
    LET s == e[2]
    IN  CASE e[1] = "temporal" -> temporal[s] # "no"
          [] e[1] = "dato" -> dato[s] # "no"
          [] e[1] = "sidecar" -> sidecar[s]

\* limpiar lists the folder, again and again.
ListarCarpeta ==
    /\ barre = SinBarrer /\ \E e \in Entradas : Existe(e)
    /\ LET hay == {e \in Entradas : Existe(e)}
       IN  barre' = [foto |-> hay, quedan |-> hay, borra |-> Ninguna]
    /\ UNCHANGED <<handler, hilo, ficheros, resto>>

\* Mutant of Sobra: the orphans are left.
SobraLoVencido(e) ==
    \/ e[1] = "temporal" /\ temporal[e[2]] = "viejo"
    \/ e[1] = "sidecar" /\ sidecar[e[2]] /\ e[2] \in vencidas

\* An old temporary file, an expired sidecar, and old data whose sidecar was not
\* listed and is not there.
Sobra(e) ==
    \/ e[1] = "temporal" /\ temporal[e[2]] = "viejo"
    \/ e[1] = "sidecar" /\ sidecar[e[2]] /\ e[2] \in vencidas
    \/ e[1] = "dato" /\ dato[e[2]] = "viejo" /\ <<"sidecar", e[2]>> \notin barre.foto /\ ~sidecar[e[2]]

\* The cleaner has something to unlink, or goes on, or has seen everything.
Barriendo(quedan, borra) ==
    barre' = IF borra = Ninguna /\ quedan = {} THEN SinBarrer
             ELSE [foto |-> barre.foto, quedan |-> quedan, borra |-> borra]

\* An entry is looked at.
Mirar ==
    /\ barre.borra = Ninguna
    /\ \E e \in barre.quedan : Barriendo(barre.quedan \ {e}, IF Sobra(e) THEN e ELSE Ninguna)
    /\ UNCHANGED <<handler, hilo, ficheros, resto>>

\* The unlink, and after a sidecar that of its data.
Desenlazar ==
    /\ barre.borra # Ninguna
    /\ LET que == barre.borra[1]
           s == barre.borra[2]
       IN  /\ temporal' = IF que = "temporal" THEN [temporal EXCEPT ![s] = "no"] ELSE temporal
           /\ dato' = IF que = "dato" THEN [dato EXCEPT ![s] = "no"] ELSE dato
           /\ sidecar' = IF que = "sidecar" THEN [sidecar EXCEPT ![s] = FALSE] ELSE sidecar
           /\ Barriendo(barre.quedan, IF que = "sidecar" THEN <<"dato", s>> ELSE Ninguna)
    /\ UNCHANGED <<handler, hilo, resto>>

\* The process dies: the disk stays as it is.
Muere ==
    /\ muertes < MaxMuertes /\ muertes' = muertes + 1
    /\ donde' = [s \in Subidas |-> IF donde[s] = "fuera" THEN "fuera" ELSE "fin"]
    /\ hilo' = [s \in Subidas |-> "no"] /\ cerrojo' = Ninguna /\ reserva' = [s \in Subidas |-> 0]
    /\ barre' = SinBarrer
    /\ UNCHANGED <<tarde, entregada, ficheros, vencidas>>

DeSubida(s) ==
    \/ Reservar(s) \/ Copiada(s) \/ Clasificada(s) \/ Dejar(s) \/ Comprometer(s) \/ Acabar(s)
    \/ Plazo(s) \/ BorrarTemporal(s)

DeHilo(s) == Copiar(s) \/ GuardarDato(s) \/ GuardarSidecar(s) \/ Asentar(s) \/ Deshacer(s)

Barre == ListarCarpeta \/ Mirar \/ Desenlazar

PasaTiempo == \E s \in Subidas : Envejece(s) \/ Vence(s)

ASNext ==
    \/ \E s \in Subidas : DeSubida(s) \/ DeHilo(s)
    \/ PasaTiempo \/ Barre \/ Muere

\* Time passes, and the cleaner, a loop that no error ends, runs again.
ASFairness == WF_ASvars(PasaTiempo) /\ WF_ASvars(Barre)

ASSpec == ASInit /\ [][ASNext]_ASvars
ASFairSpec == ASSpec /\ ASFairness

-----------------------------------------------------------------------------
\* What counts against the quota.
Contados == {s \in Subidas \ tarde : s \in Visibles \/ reserva[s] > 0}

\* The attachments of the user that are live and what its uploads have reserved fit
\* in the quota, whatever is cancelled, fails or dies; only a commit past its
\* deadline, which the code lets go, may come on top.
CuotaRespetada == Suma(Tamano, Contados) <= Cuota

\* An attachment whose id was given is found until it expires, and what is found has
\* its data, unless its commit went past the deadline.
LoEntregadoSeLee ==
    \A s \in Subidas :
        /\ s \in entregada \ vencidas => sidecar[s]
        /\ sidecar[s] /\ s \notin tarde => dato[s] # "no"

\* What an upload leaves on the disk, in whatever way it ends, is deleted in the end.
TodoSeRecoge ==
    \A s \in Subidas :
        donde[s] = "fin" ~> (temporal[s] = "no" /\ dato[s] = "no" /\ ~sidecar[s])
=============================================================================
