------------------------------ MODULE FacetResolver ------------------------------
(***************************************************************************)
(* backend/facet_resolver.py and backend/credential_resolver.py: which     *)
(* model and which provider key a facet uses.  Every process keeps two     *)
(* caches, one of facets and one of keys, each with a TTL and a longer     *)
(* ceiling for serving a stale entry when the query raises.  A seal file,  *)
(* shared by the processes of the machine, is touched by every writer      *)
(* after its commit and discards the facet entries cached before it.       *)
(*                                                                         *)
(* One facet and one provider.  A call of resolve_facet answers a binding  *)
(* and a key; a call of resolve_credential (image generation, the model    *)
(* catalogue) answers a key.  The SELECTs, and the return of each to its   *)
(* event loop, are separate steps.  Two clocks: mono measures the TTLs,    *)
(* pared (the wall clock) dates the entries and the seal.                  *)
(***************************************************************************)
EXTENDS Integers

CONSTANTS
    Procesos,         \* Mesa web, LAS MANOS, REPL
    Llamadas,         \* calls in flight
    Mesa,             \* the process that serves the web
    Escritores,       \* writers of facet_binding, motors or models
    EscritoresDeMesa, \* those that run in the event loop of Mesa
    Entornos,         \* what a behaviour may meet (see Entorno)
    FTTL, FSTALE,     \* FACET_CACHE_TTL_SECONDS, FACET_STALE_MAX_SECONDS
    CTTL, CSTALE,     \* CREDENTIAL_CACHE_TTL_SECONDS, CREDENTIAL_STALE_MAX_SECONDS
    BindingsVacios,   \* versions of the facet with no active binding
    MaxBinding,       \* bound: commits on the binding
    MaxLlaves,        \* bound: keys ever inserted
    MaxReloj          \* bound: ticks

Bindings == 0 .. MaxBinding
Llaves == 1 .. MaxLlaves
Horas == 0 .. MaxReloj
Nunca == MaxReloj + 1

\* "llave": the transport of the facet uses a managed key; "sello": the seal may
\* be unreadable; "reloj": the wall clock may be set back; "base": a query may
\* fail with the database down.
Entorno == {"llave", "sello", "reloj", "base"}

ASSUME ResolverSupuestos ==
    /\ Mesa \in Procesos /\ EscritoresDeMesa \subseteq Escritores
    /\ Entornos \subseteq SUBSET Entorno
    /\ {FTTL, FSTALE, CTTL, CSTALE} \subseteq Nat \ {0}
    /\ FTTL <= FSTALE /\ CTTL <= CSTALE
    /\ MaxBinding \in Nat /\ MaxLlaves \in Nat \ {0} /\ MaxReloj \in Nat
    /\ BindingsVacios \subseteq Bindings /\ 0 \notin BindingsVacios

VARIABLES
    entorno,      \* what this behaviour may meet
    binding,      \* committed version of the facet's binding
    activas,      \* keys of the provider in state 'active'
    mono, pared,  \* the clocks
    sello,        \* st_mtime of the seal; 0 before it was ever touched
    facetas,      \* per process: _cache of facet_resolver
    llaves,       \* per process: _cache of credential_resolver
    pc, loc,      \* where each call is, and its locals
    escritor,     \* what each writer has committed and not yet sealed
    \* history
    bindingHasta, \* when a version stopped being the committed one
    llaveHasta,   \* when a key was revoked
    anunciada     \* highest version whose writer has finished

base == <<binding, activas, bindingHasta, llaveHasta>>
relojes == <<mono, pared>>
caches == <<facetas, llaves>>
llamadas == <<pc, loc>>
escritura == <<sello, escritor, anunciada>>
vars == <<entorno, base, relojes, caches, llamadas, escritura>>

\* Cache entries: a binding with the key it was resolved with and both dates;
\* a key with its date.  v = -1 and k = 0 stand for no entry.
EntradaFaceta == [v : Bindings \cup {-1}, k : Llaves \cup {0}, mono : Horas, pared : 0 .. MaxReloj + 1]
EntradaLlave == [k : Llaves \cup {0}, mono : Horas]
SinFaceta == [v |-> -1, k |-> 0, mono |-> 0, pared |-> 0]
SinLlave == [k |-> 0, mono |-> 0]

Vias == {"cache", "base", "rancia", "ninguna"}
Locales == [proceso : Procesos, ahora : Horas, reloj : 0 .. MaxReloj + 1,
            guardada : EntradaFaceta, v : Bindings \cup {-1},
            ahoraK : Horas, guardadaK : EntradaLlave, k : Llaves \cup {0},
            minimo : Bindings, via : Vias]

LocalesVacios == [proceso |-> Mesa, ahora |-> 0, reloj |-> 0,
                  guardada |-> SinFaceta, v |-> -1, ahoraK |-> 0,
                  guardadaK |-> SinLlave, k |-> 0, minimo |-> 0, via |-> "ninguna"]

UsaLlave == "llave" \in entorno
SelloFiable == "sello" \notin entorno
FallasDeBase == "base" \in entorno

Init ==
    /\ entorno \in Entornos
    /\ binding = 0 /\ activas = IF UsaLlave THEN {1} ELSE {}
    /\ mono = 0 /\ pared = 1 /\ sello = 0
    /\ facetas = [p \in Procesos |-> SinFaceta]
    /\ llaves = [p \in Procesos |-> SinLlave]
    /\ pc = [c \in Llamadas |-> "fuera"]
    /\ loc = [c \in Llamadas |-> LocalesVacios]
    /\ escritor = [w \in Escritores |-> [paso |-> "fuera", suya |-> 0, hora |-> 0]]
    /\ bindingHasta = [v \in Bindings |-> Nunca]
    /\ llaveHasta = [k \in Llaves |-> Nunca]
    /\ anunciada = 0

-----------------------------------------------------------------------------
(* Answers *)

\* The call ends; what is kept of it is its answer: binding (-1 for a call of
\* resolve_credential), key, the instant it is dated by and where it came from.
Responde(c, v, k, hora, via) ==
    /\ pc' = [pc EXCEPT ![c] = "fuera"]
    /\ loc' = [loc EXCEPT ![c] = [LocalesVacios EXCEPT
                 !.v = v, !.k = k, !.ahora = hora, !.via = via, !.minimo = loc[c].minimo]]

\* FacetUnavailableError, CredentialUnavailableError: no answer.
Lanza(c) ==
    /\ pc' = [pc EXCEPT ![c] = "fuera"]
    /\ loc' = [loc EXCEPT ![c] = LocalesVacios]

EsDeFaceta(c) == loc[c].reloj # 0

-----------------------------------------------------------------------------
(* resolve_facet *)

\* Mutant of Sellada: the tie of the two dates is read as an old seal.
SelladaSinEmpate(entrada) == sello > entrada.pared

\* _entrada_sellada: the seal is not older than the entry.
Sellada(entrada) == sello >= entrada.pared

\* _cache.get and the seal: an entry declared obsolete is dropped from the
\* cache, so that it can not be served stale either.  The seal may be
\* unreadable, which is no signal.
EntradaVigente(p) ==
    IF facetas[p] # SinFaceta /\ Sellada(facetas[p])
      THEN {SinFaceta} \cup (IF SelloFiable THEN {} ELSE {facetas[p]})
      ELSE {facetas[p]}

\* Mutant of FacetaFresca: only the seal ends the life of an entry.
FacetaSinTTL(e) == e # SinFaceta

\* The entry is younger than the TTL.
FacetaFresca(e) == e # SinFaceta /\ mono - e.mono < FTTL

\* resolve_facet up to its first await.
ResolverFaceta(c, p) ==
    /\ pc[c] = "fuera"
    /\ \E e \in EntradaVigente(p) :
         /\ facetas' = [facetas EXCEPT ![p] = e]
         /\ IF FacetaFresca(e)
              THEN /\ pc' = pc
                   /\ loc' = [loc EXCEPT ![c] = [LocalesVacios EXCEPT !.v = e.v, !.k = e.k,
                                !.ahora = mono, !.via = "cache", !.minimo = anunciada]]
              ELSE /\ pc' = [pc EXCEPT ![c] = "binding"]
                   /\ loc' = [loc EXCEPT ![c] = [LocalesVacios EXCEPT !.proceso = p,
                                !.ahora = mono, !.reloj = pared, !.guardada = e,
                                !.minimo = anunciada]]
    /\ UNCHANGED <<base, relojes, llaves, escritura>>

\* The query raised: the entry seen at the start is served below the ceiling.
FacetaRancia(c) ==
    LET e == loc[c].guardada IN
    IF e # SinFaceta /\ loc[c].ahora - e.mono < FSTALE
      THEN Responde(c, e.v, e.k, loc[c].ahora, "rancia")
      ELSE Lanza(c)

\* The server runs the SELECT of _query_facet and finds a binding.
LeerBinding(c) ==
    /\ pc[c] = "binding" /\ binding \notin BindingsVacios
    /\ pc' = [pc EXCEPT ![c] = "llave"]
    /\ loc' = [loc EXCEPT ![c].v = binding]
    /\ UNCHANGED <<base, relojes, caches, escritura>>

\* No active binding, or the database fails: both raise inside the try.
BindingFalla(c) ==
    /\ pc[c] = "binding" /\ (FallasDeBase \/ binding \in BindingsVacios)
    /\ FacetaRancia(c)
    /\ UNCHANGED <<base, relojes, caches, escritura>>

-----------------------------------------------------------------------------
(* resolve_credential *)

LlaveFresca(e) == e # SinLlave /\ mono - e.mono < CTTL

\* The key is known: resolve_credential returns it, and resolve_facet caches
\* the facet, dated when its call began.
Resuelta(c, k) ==
    IF EsDeFaceta(c)
      THEN /\ facetas' = [facetas EXCEPT ![loc[c].proceso] =
                            [v |-> loc[c].v, k |-> k, mono |-> loc[c].ahora, pared |-> loc[c].reloj]]
           /\ Responde(c, loc[c].v, k, loc[c].ahora, "base")
      ELSE /\ facetas' = facetas
           /\ Responde(c, -1, k, loc[c].ahoraK, "base")

\* resolve_credential called from _query_facet, up to its await.  A transport
\* without a managed key does not call it.
PedirLlave(c) ==
    /\ pc[c] = "llave"
    /\ LET e == llaves[loc[c].proceso] IN
       IF ~UsaLlave \/ LlaveFresca(e)
         THEN Resuelta(c, e.k)
         ELSE /\ pc' = [pc EXCEPT ![c] = "consulta"]
              /\ loc' = [loc EXCEPT ![c] = [@ EXCEPT !.ahoraK = mono, !.guardadaK = e]]
              /\ facetas' = facetas
    /\ UNCHANGED <<base, relojes, llaves, escritura>>

\* resolve_credential called on its own.
ResolverLlave(c, p) ==
    /\ pc[c] = "fuera" /\ UsaLlave
    /\ LET e == llaves[p] IN
       IF LlaveFresca(e)
         THEN /\ pc' = pc
              /\ loc' = [loc EXCEPT ![c] = [LocalesVacios EXCEPT
                           !.k = e.k, !.ahora = mono, !.via = "cache"]]
         ELSE /\ pc' = [pc EXCEPT ![c] = "consulta"]
              /\ loc' = [loc EXCEPT ![c] = [LocalesVacios EXCEPT
                           !.proceso = p, !.ahoraK = mono, !.guardadaK = e]]
    /\ UNCHANGED <<base, relojes, caches, escritura>>

\* The newest active key (ORDER BY activated_at DESC LIMIT 1).
EsLaVigente(k) == \A x \in activas : x <= k

\* The server runs the SELECT of _query_active_credential.
LeerLlave(c) ==
    /\ pc[c] = "consulta"
    /\ pc' = [pc EXCEPT ![c] = "leida"]
    /\ \E k \in activas : EsLaVigente(k) /\ loc' = [loc EXCEPT ![c].k = k]
    /\ UNCHANGED <<base, relojes, caches, escritura>>

\* A key is dated when resolve_credential began, before its query.
FechaDeLaLlave(c) == loc[c].ahoraK

\* The key is cached.
GuardarLlave(c) ==
    /\ pc[c] = "leida"
    /\ llaves' = [llaves EXCEPT ![loc[c].proceso] = [k |-> loc[c].k, mono |-> FechaDeLaLlave(c)]]
    /\ Resuelta(c, loc[c].k)
    /\ UNCHANGED <<base, relojes, escritura>>

\* The ceiling of a key served although its query raised.
LlaveServible(c) ==
    loc[c].guardadaK # SinLlave /\ loc[c].ahoraK - loc[c].guardadaK.mono < CSTALE

\* No active key, or the database fails: the same `except Exception' serves the
\* key seen at the start, or raises into the except of resolve_facet.
LlaveFalla(c) ==
    /\ pc[c] = "consulta" /\ (FallasDeBase \/ activas = {})
    /\ \/ LlaveServible(c) /\ Resuelta(c, loc[c].guardadaK.k)
       \/ ~LlaveServible(c) /\ EsDeFaceta(c) /\ FacetaRancia(c) /\ UNCHANGED facetas
       \/ ~LlaveServible(c) /\ ~EsDeFaceta(c) /\ Lanza(c) /\ UNCHANGED facetas
    /\ UNCHANGED <<base, relojes, llaves, escritura>>

-----------------------------------------------------------------------------
(* The writers *)

\* A writer commits a new binding.
Confirmar(w) ==
    /\ escritor[w].paso = "fuera" /\ binding < MaxBinding
    /\ binding' = binding + 1
    /\ bindingHasta' = [bindingHasta EXCEPT ![binding] = mono]
    /\ escritor' = [escritor EXCEPT ![w] = [paso |-> "confirmado", suya |-> binding', hora |-> 0]]
    /\ UNCHANGED <<activas, llaveHasta, relojes, caches, llamadas, sello, anunciada>>

\* No writer of the process is between its clock and its utime.
BucleLibre(p) ==
    p = Mesa => \A w \in EscritoresDeMesa : escritor[w].paso # "tocando"

\* _tocar_sello reads its clock.  In one event loop nothing runs between this
\* and the utime: the function does not await.
LeerHora(w) ==
    /\ escritor[w].paso = "confirmado"
    /\ w \in EscritoresDeMesa => BucleLibre(Mesa)
    /\ escritor' = [escritor EXCEPT ![w].paso = "tocando", ![w].hora = pared]
    /\ UNCHANGED <<base, relojes, caches, llamadas, sello, anunciada>>

\* os.utime(FACET_SEAL_PATH, (ahora, ahora)): the writer has finished.  The
\* canary's invalidate_facet_cache also drops the entry of its own process.
Tocar(w) ==
    /\ escritor[w].paso = "tocando"
    /\ sello' = escritor[w].hora
    /\ anunciada' = IF escritor[w].suya > anunciada THEN escritor[w].suya ELSE anunciada
    /\ escritor' = [escritor EXCEPT ![w] = [paso |-> "fuera", suya |-> 0, hora |-> 0]]
    /\ \/ facetas' = facetas
       \/ w \in EscritoresDeMesa /\ facetas' = [facetas EXCEPT ![Mesa] = SinFaceta]
    /\ UNCHANGED <<base, relojes, llaves, llamadas>>

\* The seal can not be written (OSError), or the process dies: the TTL is left.
TocarFalla(w) ==
    /\ escritor[w].paso \in {"confirmado", "tocando"}
    /\ escritor' = [escritor EXCEPT ![w] = [paso |-> "fuera", suya |-> 0, hora |-> 0]]
    /\ UNCHANGED <<base, relojes, caches, llamadas, sello, anunciada>>

\* POST /credentials/{provider}/rotate: a new active key beside the old one.
Rotar ==
    /\ UsaLlave
    /\ \E k \in Llaves : /\ llaveHasta[k] = Nunca /\ \A x \in activas : x < k
                         /\ activas' = activas \cup {k}
    /\ UNCHANGED <<binding, bindingHasta, llaveHasta, relojes, caches, llamadas, escritura>>

\* POST .../revoke (every active key) and .../revoke/{credential_id} (one).
Revocar ==
    /\ UsaLlave
    /\ \E S \in {activas} \cup {{k} : k \in activas} :
         /\ S # {}
         /\ activas' = activas \ S
         /\ llaveHasta' = [k \in Llaves |-> IF k \in S THEN mono ELSE llaveHasta[k]]
    /\ UNCHANGED <<binding, bindingHasta, relojes, caches, llamadas, escritura>>

Tick ==
    /\ mono < MaxReloj /\ pared < MaxReloj + 1
    /\ mono' = mono + 1 /\ pared' = pared + 1
    /\ UNCHANGED <<base, caches, llamadas, escritura>>

\* The wall clock is set back.
AtrasarReloj ==
    /\ "reloj" \in entorno /\ pared > 1
    /\ pared' = pared - 1
    /\ UNCHANGED <<base, mono, caches, llamadas, escritura>>

\* What a call does in the event loop of its process.
PasoDelBucle(c, p) ==
    \/ ResolverFaceta(c, p) \/ ResolverLlave(c, p)
    \/ loc[c].proceso = p /\ (BindingFalla(c) \/ PedirLlave(c) \/ GuardarLlave(c) \/ LlaveFalla(c))

PasoDeEscritor(w) == Confirmar(w) \/ LeerHora(w) \/ Tocar(w) \/ TocarFalla(w)

Next ==
    /\ \/ \E c \in Llamadas : LeerBinding(c) \/ LeerLlave(c)
       \/ \E c \in Llamadas, p \in Procesos : BucleLibre(p) /\ PasoDelBucle(c, p)
       \/ \E w \in Escritores : PasoDeEscritor(w)
       \/ Rotar \/ Revocar
       \/ Tick \/ AtrasarReloj
    /\ UNCHANGED entorno

Spec == Init /\ [][Next]_vars

-----------------------------------------------------------------------------
(* Properties *)

TypeOK ==
    /\ entorno \in Entornos
    /\ binding \in Bindings /\ activas \subseteq Llaves
    /\ mono \in Horas /\ pared \in 0 .. MaxReloj + 1 /\ sello \in 0 .. MaxReloj + 1
    /\ facetas \in [Procesos -> EntradaFaceta]
    /\ llaves \in [Procesos -> EntradaLlave]
    /\ pc \in [Llamadas -> {"fuera", "binding", "llave", "consulta", "leida"}]
    /\ loc \in [Llamadas -> Locales]
    /\ escritor \in [Escritores -> [paso : {"fuera", "confirmado", "tocando"},
                                    suya : Bindings, hora : 0 .. MaxReloj + 1]]
    /\ bindingHasta \in [Bindings -> 0 .. Nunca]
    /\ llaveHasta \in [Llaves -> 0 .. Nunca]
    /\ anunciada \in Bindings

Respondida(c) == pc[c] = "fuera" /\ loc[c].via # "ninguna"
RespondeFaceta(c) == Respondida(c) /\ loc[c].v # -1
RespondeLlave(c) == Respondida(c) /\ loc[c].k # 0

\* A call of resolve_facet that begins after a writer has touched the seal
\* answers with that writer's binding or a newer one, in whichever process it
\* runs: neither a fresh entry, nor a query in flight when the seal was touched,
\* nor a stale entry served on an error brings the old binding back.
FrescoTrasSello ==
    (SelloFiable /\ "reloj" \notin entorno) =>
        \A c \in Llamadas : RespondeFaceta(c) => loc[c].v >= loc[c].minimo

\* Whatever happens to the seal and to the wall clock, the TTL and the ceiling
\* bound how long ago the binding answered was still the committed one.
EdadDelBinding ==
    \A c \in Llamadas : RespondeFaceta(c) =>
        bindingHasta[loc[c].v] >
            loc[c].ahora - (IF loc[c].via = "rancia" THEN FSTALE ELSE FTTL)

\* How long a revoked key is still answered: the ceiling of the key cache, plus,
\* for a facet, the ceiling of the facet cache that was filled with it.
EdadDeLaLlave ==
    \A c \in Llamadas : RespondeLlave(c) =>
        llaveHasta[loc[c].k] >
            loc[c].ahora - CSTALE - (IF loc[c].v = -1 THEN 0 ELSE FSTALE)

\* How long what changed is still answered: the ceilings hold with every seal, clock
\* and database.
EdadDeLoServido == EdadDelBinding /\ EdadDeLaLlave

\* What credential_resolver.py says of its TTL: with the database up, a revoked
\* key is alive that long at most.
RevocacionEnTTL ==
    ~FallasDeBase =>
        \A c \in Llamadas : (RespondeLlave(c) /\ loc[c].v = -1) =>
            llaveHasta[loc[c].k] > loc[c].ahora - CTTL
=============================================================================
