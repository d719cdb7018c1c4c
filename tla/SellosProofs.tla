-------------------------------- MODULE SellosProofs ---------------------------
(***************************************************************************)
(* Proofs about the two values that are cached under the seal of the       *)
(* facets: FacetResolver, for any processes, calls, writers, TTLs and      *)
(* bounds, and GovernanceContext, for any turns and any bounds.            *)
(***************************************************************************)
EXTENDS FacetResolver, GovernanceContext, TLAPS

-----------------------------------------------------------------------------
(* Types *)

\* The constants are used only through these facts.
LEMMA Constantes ==
    /\ Mesa \in Procesos
    /\ FTTL \in Nat /\ FSTALE \in Nat /\ CTTL \in Nat /\ CSTALE \in Nat
    /\ MaxBinding \in Nat /\ MaxReloj \in Nat
    /\ 0 \in Bindings /\ 0 \in Horas
    /\ Bindings \subseteq Nat /\ Horas \subseteq Nat /\ Horas \subseteq 0 .. MaxReloj + 1
    /\ 1 \in Llaves
BY ResolverSupuestos DEF ResolverSupuestos, Bindings, Horas, Llaves

\* The empty entries and the locals of a call that ended have their types.
LEMMA VaciosTipados ==
    /\ SinFaceta \in EntradaFaceta /\ SinLlave \in EntradaLlave
    /\ LocalesVacios \in Locales
BY Constantes DEF SinFaceta, SinLlave, EntradaFaceta, EntradaLlave, LocalesVacios, Locales, Vias

\* The locals kept as an answer have their type.
LEMMA RespuestaTipada ==
    ASSUME NEW v \in Bindings \cup {-1}, NEW k \in Llaves \cup {0}, NEW h \in Horas,
           NEW via \in Vias, NEW m \in Bindings
    PROVE  [LocalesVacios EXCEPT !.v = v, !.k = k, !.ahora = h, !.via = via, !.minimo = m] \in Locales
BY VaciosTipados DEF LocalesVacios, Locales

\* The locals of a call that goes to ask for its key have their type.
LEMMA ConsultaTipada ==
    ASSUME NEW l \in Locales, NEW h \in Horas, NEW e \in EntradaLlave
    PROVE  [l EXCEPT !.ahoraK = h, !.guardadaK = e] \in Locales
BY DEF Locales

\* An answer keeps the types of the calls.
LEMMA RespondeTipada ==
    ASSUME TypeOK, NEW c \in Llamadas, NEW v \in Bindings \cup {-1},
           NEW k \in Llaves \cup {0}, NEW h \in Horas, NEW via \in Vias,
           Responde(c, v, k, h, via)
    PROVE  /\ pc' \in [Llamadas -> {"fuera", "binding", "llave", "consulta", "leida"}]
           /\ loc' \in [Llamadas -> Locales]
<1>1. loc[c].minimo \in Bindings
  BY DEF TypeOK, Locales
<1>2. [LocalesVacios EXCEPT !.v = v, !.k = k, !.ahora = h, !.via = via,
                            !.minimo = loc[c].minimo] \in Locales
  BY <1>1, RespuestaTipada
<1> QED  BY <1>2 DEF TypeOK, Responde

\* An exception keeps the types of the calls.
LEMMA LanzaTipada ==
    ASSUME TypeOK, NEW c \in Llamadas, Lanza(c)
    PROVE  /\ pc' \in [Llamadas -> {"fuera", "binding", "llave", "consulta", "leida"}]
           /\ loc' \in [Llamadas -> Locales]
BY VaciosTipados DEF TypeOK, Lanza

\* The stale path of resolve_facet keeps the types of the calls.
LEMMA RanciaTipada ==
    ASSUME TypeOK, NEW c \in Llamadas, FacetaRancia(c)
    PROVE  /\ pc' \in [Llamadas -> {"fuera", "binding", "llave", "consulta", "leida"}]
           /\ loc' \in [Llamadas -> Locales]
<1> DEFINE e == loc[c].guardada
<1>1. /\ e.v \in Bindings \cup {-1} /\ e.k \in Llaves \cup {0}
      /\ loc[c].ahora \in Horas /\ "rancia" \in Vias
  BY DEF TypeOK, Locales, EntradaFaceta, Vias
<1>2. CASE e # SinFaceta /\ loc[c].ahora - e.mono < FSTALE
  <2>1. Responde(c, e.v, e.k, loc[c].ahora, "rancia")
    BY <1>2 DEF FacetaRancia
  <2> QED  BY <2>1, <1>1, RespondeTipada
<1>3. CASE ~(e # SinFaceta /\ loc[c].ahora - e.mono < FSTALE)
  BY <1>3, LanzaTipada DEF FacetaRancia
<1> QED  BY <1>2, <1>3

\* The end of resolve_credential keeps the types of the calls and of the cache.
LEMMA ResueltaTipada ==
    ASSUME TypeOK, NEW c \in Llamadas, NEW k \in Llaves \cup {0}, Resuelta(c, k)
    PROVE  /\ pc' \in [Llamadas -> {"fuera", "binding", "llave", "consulta", "leida"}]
           /\ loc' \in [Llamadas -> Locales]
           /\ facetas' \in [Procesos -> EntradaFaceta]
<1>1. /\ loc[c].v \in Bindings \cup {-1} /\ loc[c].ahora \in Horas /\ loc[c].ahoraK \in Horas
      /\ loc[c].reloj \in 0 .. MaxReloj + 1 /\ loc[c].proceso \in Procesos
      /\ "base" \in Vias /\ -1 \in Bindings \cup {-1}
  BY DEF TypeOK, Locales, Vias
<1>2. CASE EsDeFaceta(c)
  <2>1. Responde(c, loc[c].v, k, loc[c].ahora, "base")
    BY <1>2 DEF Resuelta
  <2>2. [v |-> loc[c].v, k |-> k, mono |-> loc[c].ahora, pared |-> loc[c].reloj] \in EntradaFaceta
    BY <1>1 DEF EntradaFaceta
  <2>3. facetas' \in [Procesos -> EntradaFaceta]
    BY <1>2, <2>2 DEF Resuelta, TypeOK
  <2> QED  BY <2>1, <2>3, <1>1, RespondeTipada
<1>3. CASE ~EsDeFaceta(c)
  <2>1. Responde(c, -1, k, loc[c].ahoraK, "base") /\ facetas' = facetas
    BY <1>3 DEF Resuelta
  <2> QED  BY <2>1, <1>1, RespondeTipada DEF TypeOK
<1> QED  BY <1>2, <1>3

-----------------------------------------------------------------------------
LEMMA TiposAlInicio == Init => TypeOK
<1> SUFFICES ASSUME Init PROVE TypeOK
  OBVIOUS
<1>1. /\ entorno \in Entornos
      /\ binding \in Bindings /\ activas \subseteq Llaves /\ anunciada \in Bindings
      /\ mono \in Horas /\ pared \in 0 .. MaxReloj + 1 /\ sello \in 0 .. MaxReloj + 1
  BY Constantes DEF Init
<1>2. /\ facetas \in [Procesos -> EntradaFaceta] /\ llaves \in [Procesos -> EntradaLlave]
      /\ pc \in [Llamadas -> {"fuera", "binding", "llave", "consulta", "leida"}]
      /\ loc \in [Llamadas -> Locales]
  BY VaciosTipados DEF Init
<1>3. /\ escritor \in [Escritores -> [paso : {"fuera", "confirmado", "tocando"},
                                     suya : Bindings, hora : 0 .. MaxReloj + 1]]
      /\ bindingHasta \in [Bindings -> 0 .. Nunca] /\ llaveHasta \in [Llaves -> 0 .. Nunca]
  BY Constantes DEF Init, Nunca
<1> QED  BY <1>1, <1>2, <1>3 DEF TypeOK

LEMMA TiposDeLlamada ==
    ASSUME TypeOK, NEW c \in Llamadas, NEW p \in Procesos,
           \/ PasoDelBucle(c, p) \/ LeerBinding(c) \/ LeerLlave(c),
           entorno' = entorno
    PROVE  TypeOK'
<1> USE DEF base, relojes, caches, llamadas, escritura
<1>1. CASE ResolverFaceta(c, p)
  <2>1. PICK e \in EntradaVigente(p) : ResolverFaceta(c, p)!2!(e)
    BY <1>1 DEF ResolverFaceta
  <2>2. e \in EntradaFaceta
    BY VaciosTipados DEF TypeOK, EntradaVigente
  <2>3. facetas' \in [Procesos -> EntradaFaceta]
    BY <2>1, <2>2 DEF TypeOK
  <2>4. CASE FacetaFresca(e)
    <3>1. [LocalesVacios EXCEPT !.v = e.v, !.k = e.k, !.ahora = mono, !.via = "cache",
                                !.minimo = anunciada] \in Locales
      BY <2>2, RespuestaTipada DEF TypeOK, EntradaFaceta, Vias
    <3> QED  BY <1>1, <2>1, <2>3, <2>4, <3>1 DEF TypeOK, ResolverFaceta
  <2>5. CASE ~FacetaFresca(e)
    <3>1. [LocalesVacios EXCEPT !.proceso = p, !.ahora = mono, !.reloj = pared,
                                !.guardada = e, !.minimo = anunciada] \in Locales
      BY <2>2, VaciosTipados DEF TypeOK, LocalesVacios, Locales
    <3> QED  BY <1>1, <2>1, <2>3, <2>5, <3>1 DEF TypeOK, ResolverFaceta
  <2> QED  BY <2>4, <2>5
<1>2. CASE ResolverLlave(c, p)
  <2> DEFINE e == llaves[p]
  <2>1. e \in EntradaLlave /\ mono \in Horas
    BY DEF TypeOK
  <2>2. [LocalesVacios EXCEPT !.k = e.k, !.ahora = mono, !.via = "cache"] \in Locales
    BY <2>1, VaciosTipados DEF LocalesVacios, Locales, EntradaLlave, Vias
  <2>3. [LocalesVacios EXCEPT !.proceso = p, !.ahoraK = mono, !.guardadaK = e] \in Locales
    BY <2>1, VaciosTipados DEF LocalesVacios, Locales
  <2>4. /\ pc' \in [Llamadas -> {"fuera", "binding", "llave", "consulta", "leida"}]
        /\ loc' \in [Llamadas -> Locales]
    BY <1>2, <2>2, <2>3 DEF ResolverLlave, TypeOK
  <2> QED  BY <1>2, <2>4 DEF ResolverLlave, TypeOK
<1>3. CASE BindingFalla(c)
  BY <1>3, RanciaTipada DEF BindingFalla, TypeOK
<1>4. CASE PedirLlave(c)
  <2> DEFINE e == llaves[loc[c].proceso]
  <2>1. e \in EntradaLlave /\ mono \in Horas /\ e.k \in Llaves \cup {0}
    BY DEF TypeOK, Locales, EntradaLlave
  <2>2. CASE Resuelta(c, e.k)
    BY <1>4, <2>1, <2>2, ResueltaTipada DEF PedirLlave, TypeOK
  <2>3. CASE /\ pc' = [pc EXCEPT ![c] = "consulta"]
             /\ loc' = [loc EXCEPT ![c] = [@ EXCEPT !.ahoraK = mono, !.guardadaK = e]]
             /\ facetas' = facetas
    <3>0. [loc[c] EXCEPT !.ahoraK = mono, !.guardadaK = e] \in Locales
      BY <2>1, ConsultaTipada DEF TypeOK
    <3>1. loc' \in [Llamadas -> Locales]
      BY <2>3, <3>0 DEF TypeOK
    <3> QED  BY <1>4, <2>3, <3>1 DEF PedirLlave, TypeOK
  <2> QED  BY <1>4, <2>2, <2>3 DEF PedirLlave
<1>5. CASE GuardarLlave(c)
  <2>1. loc[c].k \in Llaves \cup {0} /\ loc[c].ahoraK \in Horas /\ Resuelta(c, loc[c].k)
    BY <1>5 DEF TypeOK, Locales, GuardarLlave
  <2>2. llaves' \in [Procesos -> EntradaLlave]
    BY <1>5, <2>1 DEF TypeOK, GuardarLlave, FechaDeLaLlave, EntradaLlave
  <2> QED  BY <1>5, <2>1, <2>2, ResueltaTipada DEF GuardarLlave, TypeOK
<1>6. CASE LlaveFalla(c)
  <2>1. loc[c].guardadaK.k \in Llaves \cup {0}
    BY DEF TypeOK, Locales, EntradaLlave
  <2>2. /\ pc' \in [Llamadas -> {"fuera", "binding", "llave", "consulta", "leida"}]
        /\ loc' \in [Llamadas -> Locales]
        /\ facetas' \in [Procesos -> EntradaFaceta]
    BY <1>6, <2>1, ResueltaTipada, RanciaTipada, LanzaTipada DEF LlaveFalla, TypeOK
  <2> QED  BY <1>6, <2>2 DEF LlaveFalla, TypeOK
<1>7. CASE LeerBinding(c)
  <2>1. loc' \in [Llamadas -> Locales]
    BY <1>7 DEF LeerBinding, TypeOK, Locales
  <2> QED  BY <1>7, <2>1 DEF LeerBinding, TypeOK
<1>8. CASE LeerLlave(c)
  <2>1. PICK k \in activas : loc' = [loc EXCEPT ![c].k = k]
    BY <1>8 DEF LeerLlave
  <2>2. [loc[c] EXCEPT !.k = k] \in Locales
    BY DEF TypeOK, Locales
  <2>3. loc' \in [Llamadas -> Locales]
    BY <2>1, <2>2 DEF TypeOK
  <2> QED  BY <1>8, <2>3 DEF LeerLlave, TypeOK
<1> QED  BY <1>1, <1>2, <1>3, <1>4, <1>5, <1>6, <1>7, <1>8 DEF PasoDelBucle

LEMMA TiposDeEscritor ==
    ASSUME TypeOK, NEW w \in Escritores, PasoDeEscritor(w), entorno' = entorno
    PROVE  TypeOK'
<1> USE DEF base, relojes, caches, llamadas, escritura
<1>1. CASE Confirmar(w)
  <2>1. binding' \in Bindings /\ mono \in 0 .. Nunca
    BY <1>1, Constantes DEF Confirmar, TypeOK, Bindings, Nunca, Horas
  <2>2. 0 \in 0 .. MaxReloj + 1
    BY Constantes
  <2> QED  BY <1>1, <2>1, <2>2 DEF Confirmar, TypeOK
<1>2. CASE LeerHora(w)
  BY <1>2 DEF LeerHora, TypeOK
<1>3. CASE Tocar(w)
  <2>1. escritor[w].hora \in 0 .. MaxReloj + 1 /\ escritor[w].suya \in Bindings
    BY DEF TypeOK
  <2>2. facetas' \in [Procesos -> EntradaFaceta]
    BY <1>3, VaciosTipados, Constantes DEF Tocar, TypeOK
  <2>3. 0 \in 0 .. MaxReloj + 1 /\ 0 \in Bindings
    BY Constantes
  <2> QED  BY <1>3, <2>1, <2>2, <2>3 DEF Tocar, TypeOK
<1>4. CASE TocarFalla(w)
  <2>3. 0 \in 0 .. MaxReloj + 1 /\ 0 \in Bindings
    BY Constantes
  <2> QED  BY <1>4, <2>3 DEF TocarFalla, TypeOK
<1> QED  BY <1>1, <1>2, <1>3, <1>4 DEF PasoDeEscritor

LEMMA TiposSeConservan == TypeOK /\ [Next]_vars => TypeOK'
<1> SUFFICES ASSUME TypeOK, [Next]_vars PROVE TypeOK'
  OBVIOUS
<1> USE DEF base, relojes, caches, llamadas, escritura
<1>0. entorno' = entorno
  BY DEF Next, vars
<1>1. ASSUME NEW c \in Llamadas, LeerBinding(c) \/ LeerLlave(c) PROVE TypeOK'
  BY <1>0, <1>1, Constantes, TiposDeLlamada
<1>2. ASSUME NEW c \in Llamadas, NEW p \in Procesos, PasoDelBucle(c, p) PROVE TypeOK'
  BY <1>0, <1>2, TiposDeLlamada
<1>3. ASSUME NEW w \in Escritores, PasoDeEscritor(w) PROVE TypeOK'
  BY <1>0, <1>3, TiposDeEscritor
<1>4. CASE Rotar
  BY <1>0, <1>4 DEF Rotar, TypeOK
<1>5. CASE Revocar
  <2>1. mono \in 0 .. Nunca
    BY Constantes DEF TypeOK, Nunca, Horas
  <2> QED  BY <1>0, <1>5, <2>1 DEF Revocar, TypeOK
<1>6. CASE Tick
  BY <1>0, <1>6, Constantes DEF Tick, TypeOK, Horas
<1>7. CASE AtrasarReloj
  BY <1>0, <1>7, Constantes DEF AtrasarReloj, TypeOK
<1>8. CASE UNCHANGED vars
  BY <1>0, <1>8 DEF vars, TypeOK
<1> QED  BY <1>0, <1>1, <1>2, <1>3, <1>4, <1>5, <1>6, <1>7, <1>8 DEF Next

\* Every reachable state is well typed.
THEOREM TiposCorrectos == Spec => []TypeOK
BY TiposAlInicio, TiposSeConservan, PTL DEF Spec

-----------------------------------------------------------------------------
(* The seal.  The argument dates everything by the wall clock: a writer     *)
(* commits before it reads the hour it will write, so whatever is dated     *)
(* after that hour read the writer's binding or a newer one.                *)

\* The installations the seal is proved for: it can be read, the wall clock is
\* not set back, and the writers share one event loop.
UnSello == SelloFiable /\ "reloj" \notin entorno /\ EscritoresDeMesa = Escritores

Tocando(w) == escritor[w].paso = "tocando"

\* A binding v read by something dated r is as new as its date promises.
Fechado(v, r) ==
    /\ r <= pared
    /\ r > sello => v >= anunciada
    /\ \A w \in Escritores : (Tocando(w) /\ r > escritor[w].hora) => v >= escritor[w].suya

SelloOrdenado ==
    /\ 1 <= pared /\ sello <= pared /\ anunciada <= binding
    /\ \A w \in Escritores : escritor[w].paso # "fuera" => escritor[w].suya <= binding
    /\ \A w \in Escritores : Tocando(w) => escritor[w].hora <= pared /\ sello <= escritor[w].hora
    /\ \A w, x \in Escritores : Tocando(w) /\ Tocando(x) => w = x

EntradasFechadas ==
    \A p \in Procesos : facetas[p] # SinFaceta => Fechado(facetas[p].v, facetas[p].pared)

VueloFechado(c) ==
    /\ pc[c] = "binding" => EsDeFaceta(c)
    /\ (pc[c] # "fuera" /\ EsDeFaceta(c)) =>
         /\ loc[c].reloj <= pared /\ loc[c].minimo <= anunciada
         /\ loc[c].guardada # SinFaceta => loc[c].guardada.v >= loc[c].minimo
         /\ pc[c] # "binding" => loc[c].v >= loc[c].minimo /\ Fechado(loc[c].v, loc[c].reloj)

RespuestaFresca(c) == RespondeFaceta(c) => loc[c].v >= loc[c].minimo

InvDelSello ==
    /\ TypeOK /\ SelloOrdenado /\ EntradasFechadas
    /\ \A c \in Llamadas : VueloFechado(c) /\ RespuestaFresca(c)

-----------------------------------------------------------------------------
LEMMA SelloAlInicio == Init => InvDelSello
<1> SUFFICES ASSUME Init PROVE InvDelSello
  OBVIOUS
<1>1. TypeOK
  BY TiposAlInicio
<1>2. SelloOrdenado
  BY DEF Init, SelloOrdenado, Tocando
<1>3. EntradasFechadas
  BY DEF Init, EntradasFechadas
<1>4. ASSUME NEW c \in Llamadas PROVE VueloFechado(c) /\ RespuestaFresca(c)
  BY DEF Init, VueloFechado, RespuestaFresca, RespondeFaceta, Respondida, LocalesVacios
<1> QED  BY <1>1, <1>2, <1>3, <1>4 DEF InvDelSello

\* A step of a call leaves the clock, the seal and the writers alone.
LEMMA LlamadaNoToca ==
    ASSUME UNCHANGED <<relojes, escritura>>
    PROVE  \A v, r : Fechado(v, r) => Fechado(v, r)'
BY DEF Fechado, Tocando, relojes, escritura

\* Nor does it move the order of the seal.
LEMMA LlamadaNoDesordena ==
    ASSUME SelloOrdenado, UNCHANGED <<binding, relojes, escritura>>
    PROVE  SelloOrdenado'
BY DEF SelloOrdenado, Tocando, relojes, escritura

\* Entries and calls that a step does not touch stay as new as their dates.
LEMMA LosDemasSiguen ==
    ASSUME InvDelSello, NEW c \in Llamadas, NEW p \in Procesos,
           UNCHANGED <<relojes, escritura>>,
           TypeOK',
           \A d \in Llamadas \ {c} : pc'[d] = pc[d] /\ loc'[d] = loc[d],
           \A q \in Procesos \ {p} : facetas'[q] = facetas[q],
           (facetas[p] # SinFaceta => Fechado(facetas[p].v, facetas[p].pared))',
           VueloFechado(c)', RespuestaFresca(c)', UNCHANGED binding
    PROVE  InvDelSello'
<1>1. SelloOrdenado'
  BY LlamadaNoDesordena DEF InvDelSello
<1>2. EntradasFechadas'
  BY LlamadaNoToca DEF InvDelSello, EntradasFechadas
<1>3. ASSUME NEW d \in Llamadas \ {c} PROVE VueloFechado(d)' /\ RespuestaFresca(d)'
  <2>1. /\ VueloFechado(d) /\ RespuestaFresca(d)
        /\ pc'[d] = pc[d] /\ loc'[d] = loc[d] /\ pared' = pared /\ anunciada' = anunciada
    BY DEF InvDelSello, relojes, escritura
  <2>2. RespuestaFresca(d)'
    BY <2>1 DEF RespuestaFresca, RespondeFaceta, Respondida
  <2>3. VueloFechado(d)'
    BY <2>1, LlamadaNoToca DEF VueloFechado, EsDeFaceta
  <2> QED  BY <2>2, <2>3
<1> QED  BY <1>1, <1>2, <1>3 DEF InvDelSello

\* The entries of a process that a call's step leaves alone.
LEMMA MismasEntradas ==
    ASSUME InvDelSello, UNCHANGED <<relojes, escritura>>, facetas' = facetas
    PROVE  /\ \A p \in Procesos : (facetas[p] # SinFaceta => Fechado(facetas[p].v, facetas[p].pared))'
           /\ \A p, q \in Procesos : facetas'[q] = facetas[q]
BY LlamadaNoToca DEF InvDelSello, EntradasFechadas

\* A call that goes on with the binding it read owes what it owed.
LEMMA SigueEnVuelo ==
    ASSUME NEW c \in Llamadas, VueloFechado(c), pc[c] \in {"llave", "consulta", "leida"},
           pc'[c] \in {"consulta", "leida"},
           loc'[c].reloj = loc[c].reloj, loc'[c].v = loc[c].v,
           loc'[c].minimo = loc[c].minimo, loc'[c].guardada = loc[c].guardada,
           UNCHANGED <<relojes, escritura>>
    PROVE  VueloFechado(c)' /\ RespuestaFresca(c)'
<1>1. pared' = pared /\ anunciada' = anunciada
  BY DEF relojes, escritura
<1>2. VueloFechado(c)'
  BY <1>1, LlamadaNoToca DEF VueloFechado, EsDeFaceta
<1> QED  BY <1>2 DEF RespuestaFresca, RespondeFaceta, Respondida

\* A call that answers v, or raises, owes nothing more than v's freshness.
LEMMA AlTerminar ==
    ASSUME TypeOK, NEW c \in Llamadas,
           \/ Lanza(c)
           \/ \E v \in Bindings \cup {-1}, k \in Llaves \cup {0}, h \in Horas, via \in Vias :
                (v # -1 => v >= loc[c].minimo) /\ Responde(c, v, k, h, via)
    PROVE  /\ VueloFechado(c)' /\ RespuestaFresca(c)'
           /\ \A d \in Llamadas \ {c} : pc'[d] = pc[d] /\ loc'[d] = loc[d]
<1>1. CASE Lanza(c)
  <2>1. pc'[c] = "fuera" /\ loc'[c].via = "ninguna"
    BY <1>1 DEF TypeOK, Lanza, LocalesVacios
  <2>2. \A d \in Llamadas \ {c} : pc'[d] = pc[d] /\ loc'[d] = loc[d]
    BY <1>1 DEF TypeOK, Lanza
  <2> QED  BY <2>1, <2>2 DEF VueloFechado, RespuestaFresca, RespondeFaceta, Respondida
<1>2. ASSUME NEW v \in Bindings \cup {-1}, NEW k \in Llaves \cup {0}, NEW h \in Horas,
             NEW via \in Vias, v # -1 => v >= loc[c].minimo, Responde(c, v, k, h, via)
      PROVE  /\ VueloFechado(c)' /\ RespuestaFresca(c)'
             /\ \A d \in Llamadas \ {c} : pc'[d] = pc[d] /\ loc'[d] = loc[d]
  <2>1. pc'[c] = "fuera" /\ loc'[c].v = v /\ loc'[c].minimo = loc[c].minimo
    BY <1>2 DEF TypeOK, Responde, LocalesVacios
  <2>2. \A d \in Llamadas \ {c} : pc'[d] = pc[d] /\ loc'[d] = loc[d]
    BY <1>2 DEF TypeOK, Responde
  <2> QED  BY <1>2, <2>1, <2>2 DEF VueloFechado, RespuestaFresca, RespondeFaceta
<1> QED  BY <1>1, <1>2

\* The stale path answers with an entry the seal had not discarded when the call
\* began: at least the binding announced then.
LEMMA RanciaFresca ==
    ASSUME TypeOK, NEW c \in Llamadas, VueloFechado(c), pc[c] # "fuera", EsDeFaceta(c),
           FacetaRancia(c)
    PROVE  /\ VueloFechado(c)' /\ RespuestaFresca(c)'
           /\ \A d \in Llamadas \ {c} : pc'[d] = pc[d] /\ loc'[d] = loc[d]
<1> DEFINE e == loc[c].guardada
<1>1. /\ e.v \in Bindings \cup {-1} /\ e.k \in Llaves \cup {0}
      /\ loc[c].ahora \in Horas /\ "rancia" \in Vias
  BY DEF TypeOK, Locales, EntradaFaceta, Vias
<1>2. e # SinFaceta => e.v >= loc[c].minimo
  BY DEF VueloFechado
<1>3. CASE e # SinFaceta /\ loc[c].ahora - e.mono < FSTALE
  <2>1. Responde(c, e.v, e.k, loc[c].ahora, "rancia")
    BY <1>3 DEF FacetaRancia
  <2> QED  BY <1>1, <1>2, <1>3, <2>1, AlTerminar
<1>4. CASE ~(e # SinFaceta /\ loc[c].ahora - e.mono < FSTALE)
  <2>1. Lanza(c)
    BY <1>4 DEF FacetaRancia
  <2> QED  BY <2>1, AlTerminar
<1> QED  BY <1>3, <1>4

\* The facet cached when the key is known is as new as the instant its call began.
LEMMA ResueltaFresca ==
    ASSUME InvDelSello, NEW c \in Llamadas, pc[c] \in {"llave", "consulta", "leida"},
           NEW k \in Llaves \cup {0}, Resuelta(c, k),
           UNCHANGED <<relojes, escritura, binding>>, TypeOK'
    PROVE  InvDelSello'
<1>1. /\ TypeOK /\ VueloFechado(c)
      /\ EntradasFechadas
  BY DEF InvDelSello
<1>2. /\ loc[c].v \in Bindings \cup {-1} /\ loc[c].ahora \in Horas /\ loc[c].ahoraK \in Horas
      /\ loc[c].proceso \in Procesos /\ "base" \in Vias /\ -1 \in Bindings \cup {-1}
  BY <1>1 DEF TypeOK, Locales, Vias
<1>3. PICK p \in Procesos : p = loc[c].proceso
  BY <1>2
<1>4. CASE EsDeFaceta(c)
  <2>1. Responde(c, loc[c].v, k, loc[c].ahora, "base")
    BY <1>4 DEF Resuelta
  <2>2. PICK v, r : v = loc[c].v /\ r = loc[c].reloj
    OBVIOUS
  <2>3. v >= loc[c].minimo /\ Fechado(v, r)
    BY <1>1, <1>4, <2>2 DEF VueloFechado
  <2>4. facetas'[p].v = v /\ facetas'[p].pared = r
    BY <1>1, <1>3, <1>4, <2>2 DEF Resuelta, TypeOK
  <2>5. (facetas[p] # SinFaceta => Fechado(facetas[p].v, facetas[p].pared))'
    BY <2>3, <2>4, LlamadaNoToca DEF Fechado
  <2>6. \A q \in Procesos \ {p} : facetas'[q] = facetas[q]
    BY <1>1, <1>3, <1>4 DEF Resuelta, TypeOK
  <2>7. /\ VueloFechado(c)' /\ RespuestaFresca(c)'
        /\ \A d \in Llamadas \ {c} : pc'[d] = pc[d] /\ loc'[d] = loc[d]
    BY <1>1, <1>2, <2>1, <2>2, <2>3, AlTerminar
  <2> QED  BY <2>5, <2>6, <2>7, LosDemasSiguen
<1>5. CASE ~EsDeFaceta(c)
  <2>1. Responde(c, -1, k, loc[c].ahoraK, "base") /\ facetas' = facetas
    BY <1>5 DEF Resuelta
  <2>2. /\ VueloFechado(c)' /\ RespuestaFresca(c)'
        /\ \A d \in Llamadas \ {c} : pc'[d] = pc[d] /\ loc'[d] = loc[d]
    BY <1>1, <1>2, <2>1, AlTerminar
  <2> QED  BY <2>1, <2>2, <1>3, MismasEntradas, LosDemasSiguen
<1> QED  BY <1>4, <1>5

\* The steps of a call.
LEMMA LlamadaFresca ==
    ASSUME InvDelSello, UnSello, TypeOK', NEW c \in Llamadas, NEW p \in Procesos,
           PasoDelBucle(c, p) \/ LeerBinding(c) \/ LeerLlave(c)
    PROVE  InvDelSello'
<1> USE DEF base, relojes, caches, llamadas, escritura
<1>0. TypeOK /\ VueloFechado(c) /\ RespuestaFresca(c) /\ SelloOrdenado
  BY DEF InvDelSello
<1>1. CASE ResolverFaceta(c, p)
  <2>1. PICK e \in EntradaVigente(p) : ResolverFaceta(c, p)!2!(e)
    BY <1>1 DEF ResolverFaceta
  <2>2. /\ UNCHANGED <<relojes, escritura, binding>>
        /\ \A q \in Procesos \ {p} : facetas'[q] = facetas[q]
        /\ facetas'[p] = e
        /\ \A d \in Llamadas \ {c} : pc'[d] = pc[d] /\ loc'[d] = loc[d]
    BY <1>1, <1>0, <2>1 DEF ResolverFaceta, TypeOK
  <2>3. e # SinFaceta => e = facetas[p] /\ Fechado(e.v, e.pared) /\ e.v >= anunciada
    <3>1. e # SinFaceta => e = facetas[p] /\ sello < e.pared
      BY <1>0 DEF EntradaVigente, Sellada, UnSello, TypeOK, EntradaFaceta
    <3> QED  BY <3>1 DEF InvDelSello, EntradasFechadas, Fechado
  <2>4. (facetas[p] # SinFaceta => Fechado(facetas[p].v, facetas[p].pared))'
    BY <2>2, <2>3, LlamadaNoToca DEF Fechado
  <2>5. CASE FacetaFresca(e)
    <3>1. pc'[c] = "fuera" /\ loc'[c].v = e.v /\ loc'[c].minimo = anunciada
      <4>1. loc'[c] = [LocalesVacios EXCEPT !.v = e.v, !.k = e.k, !.ahora = mono,
                                            !.via = "cache", !.minimo = anunciada]
        BY <1>0, <2>1, <2>5 DEF TypeOK
      <4>2. pc'[c] = "fuera"
        BY <1>1, <2>1, <2>5 DEF ResolverFaceta
      <4> QED  BY <4>1, <4>2 DEF LocalesVacios
    <3>2. VueloFechado(c)' /\ RespuestaFresca(c)'
      BY <2>3, <2>5, <3>1 DEF VueloFechado, RespuestaFresca, RespondeFaceta, FacetaFresca
    <3> QED  BY <2>2, <2>4, <3>2, LosDemasSiguen
  <2>6. CASE ~FacetaFresca(e)
    <3>1. /\ pc'[c] = "binding" /\ loc'[c].reloj = pared /\ loc'[c].minimo = anunciada
          /\ loc'[c].guardada = e
      <4>1. loc'[c] = [LocalesVacios EXCEPT !.proceso = p, !.ahora = mono, !.reloj = pared,
                                            !.guardada = e, !.minimo = anunciada]
        BY <1>0, <2>1, <2>6 DEF TypeOK
      <4>2. pc'[c] = "binding"
        BY <1>0, <2>1, <2>6 DEF TypeOK
      <4> QED  BY <4>1, <4>2 DEF LocalesVacios
    <3>2. VueloFechado(c)'
      BY <1>0, <2>2, <2>3, <3>1 DEF VueloFechado, EsDeFaceta, SelloOrdenado, TypeOK, Horas, Bindings
    <3>3. RespuestaFresca(c)'
      BY <3>1 DEF RespuestaFresca, RespondeFaceta, Respondida
    <3> QED  BY <2>2, <2>4, <3>2, <3>3, LosDemasSiguen
  <2> QED  BY <2>5, <2>6
<1>2. CASE ResolverLlave(c, p)
  <2>1. /\ UNCHANGED <<relojes, escritura, binding, facetas>>
        /\ \A d \in Llamadas \ {c} : pc'[d] = pc[d] /\ loc'[d] = loc[d]
    BY <1>0, <1>2 DEF ResolverLlave, TypeOK
  <2>2. loc'[c].v = -1 /\ loc'[c].reloj = 0 /\ pc'[c] # "binding"
    <3>1. \/ /\ pc'[c] = "fuera"
             /\ loc'[c] = [LocalesVacios EXCEPT !.k = llaves[p].k, !.ahora = mono, !.via = "cache"]
          \/ /\ pc'[c] = "consulta"
             /\ loc'[c] = [LocalesVacios EXCEPT !.proceso = p, !.ahoraK = mono,
                                                !.guardadaK = llaves[p]]
      BY <1>0, <1>2 DEF ResolverLlave, TypeOK
    <3> QED  BY <3>1 DEF LocalesVacios
  <2>3. VueloFechado(c)' /\ RespuestaFresca(c)'
    BY <2>2 DEF VueloFechado, RespuestaFresca, RespondeFaceta, EsDeFaceta
  <2> QED  BY <2>1, <2>3, MismasEntradas, LosDemasSiguen
<1>3. CASE BindingFalla(c)
  <2>1. /\ VueloFechado(c)' /\ RespuestaFresca(c)'
        /\ \A d \in Llamadas \ {c} : pc'[d] = pc[d] /\ loc'[d] = loc[d]
    BY <1>0, <1>3, RanciaFresca DEF BindingFalla, VueloFechado
  <2> QED  BY <1>3, <2>1, MismasEntradas, LosDemasSiguen DEF BindingFalla
<1>4. CASE PedirLlave(c)
  <2> DEFINE e == llaves[loc[c].proceso]
  <2>1. e.k \in Llaves \cup {0}
    BY <1>0 DEF TypeOK, Locales, EntradaLlave
  <2>2. CASE Resuelta(c, e.k)
    BY <1>4, <2>1, <2>2, ResueltaFresca DEF PedirLlave
  <2>3. CASE /\ pc' = [pc EXCEPT ![c] = "consulta"]
             /\ loc' = [loc EXCEPT ![c] = [@ EXCEPT !.ahoraK = mono, !.guardadaK = e]]
             /\ facetas' = facetas
    <3>1. /\ pc'[c] = "consulta" /\ loc'[c].reloj = loc[c].reloj /\ loc'[c].v = loc[c].v
          /\ loc'[c].minimo = loc[c].minimo /\ loc'[c].guardada = loc[c].guardada
          /\ \A d \in Llamadas \ {c} : pc'[d] = pc[d] /\ loc'[d] = loc[d]
      BY <1>0, <2>3 DEF TypeOK, Locales
    <3>2. VueloFechado(c)' /\ RespuestaFresca(c)'
      BY <1>0, <1>4, <3>1, SigueEnVuelo DEF PedirLlave
    <3> QED  BY <1>4, <2>3, <3>1, <3>2, MismasEntradas, LosDemasSiguen DEF PedirLlave
  <2> QED  BY <1>4, <2>2, <2>3 DEF PedirLlave
<1>5. CASE GuardarLlave(c)
  <2>1. loc[c].k \in Llaves \cup {0}
    BY <1>0 DEF TypeOK, Locales
  <2> QED  BY <1>5, <2>1, ResueltaFresca DEF GuardarLlave
<1>6. CASE LlaveFalla(c)
  <2>1. loc[c].guardadaK.k \in Llaves \cup {0}
    BY <1>0 DEF TypeOK, Locales, EntradaLlave
  <2>2. CASE Resuelta(c, loc[c].guardadaK.k)
    BY <1>6, <2>1, <2>2, ResueltaFresca DEF LlaveFalla
  <2>3. CASE EsDeFaceta(c) /\ FacetaRancia(c) /\ UNCHANGED facetas
    <3>1. /\ VueloFechado(c)' /\ RespuestaFresca(c)'
          /\ \A d \in Llamadas \ {c} : pc'[d] = pc[d] /\ loc'[d] = loc[d]
      BY <1>0, <1>6, <2>3, RanciaFresca DEF LlaveFalla
    <3> QED  BY <1>6, <2>3, <3>1, MismasEntradas, LosDemasSiguen DEF LlaveFalla
  <2>4. CASE Lanza(c) /\ UNCHANGED facetas
    <3>1. /\ VueloFechado(c)' /\ RespuestaFresca(c)'
          /\ \A d \in Llamadas \ {c} : pc'[d] = pc[d] /\ loc'[d] = loc[d]
      BY <1>0, <2>4, AlTerminar
    <3> QED  BY <1>6, <2>4, <3>1, MismasEntradas, LosDemasSiguen DEF LlaveFalla
  <2> QED  BY <1>6, <2>2, <2>3, <2>4 DEF LlaveFalla
<1>7. CASE LeerBinding(c)
  <2>1. /\ pc'[c] = "llave" /\ loc'[c].v = binding /\ loc'[c].reloj = loc[c].reloj
        /\ loc'[c].minimo = loc[c].minimo /\ loc'[c].guardada = loc[c].guardada
        /\ \A d \in Llamadas \ {c} : pc'[d] = pc[d] /\ loc'[d] = loc[d]
    BY <1>0, <1>7 DEF LeerBinding, TypeOK, Locales
  <2>2. /\ loc[c].reloj <= pared /\ loc[c].minimo <= anunciada
        /\ loc[c].guardada # SinFaceta => loc[c].guardada.v >= loc[c].minimo
    BY <1>0, <1>7 DEF LeerBinding, VueloFechado
  <2>3. Fechado(binding, loc[c].reloj)
    BY <1>0, <2>2 DEF Fechado, SelloOrdenado, Tocando, TypeOK, Bindings
  <2>4. (Fechado(loc[c].v, loc[c].reloj))'
    BY <1>7, <2>1, <2>3 DEF LeerBinding, Fechado, Tocando
  <2>5. VueloFechado(c)'
    BY <1>0, <1>7, <2>1, <2>2, <2>4 DEF VueloFechado, LeerBinding, SelloOrdenado, TypeOK, Bindings, Locales
  <2>6. RespuestaFresca(c)'
    BY <2>1 DEF RespuestaFresca, RespondeFaceta, Respondida
  <2> QED  BY <1>7, <2>1, <2>5, <2>6, MismasEntradas, LosDemasSiguen DEF LeerBinding
<1>8. CASE LeerLlave(c)
  <2>1. /\ pc'[c] = "leida" /\ loc'[c].reloj = loc[c].reloj /\ loc'[c].v = loc[c].v
        /\ loc'[c].minimo = loc[c].minimo /\ loc'[c].guardada = loc[c].guardada
        /\ \A d \in Llamadas \ {c} : pc'[d] = pc[d] /\ loc'[d] = loc[d]
    <3>1. PICK k \in activas : loc' = [loc EXCEPT ![c].k = k]
      BY <1>8 DEF LeerLlave
    <3> QED  BY <1>0, <1>8, <3>1 DEF LeerLlave, TypeOK, Locales
  <2>2. VueloFechado(c)' /\ RespuestaFresca(c)'
    BY <1>0, <1>8, <2>1, SigueEnVuelo DEF LeerLlave
  <2> QED  BY <1>8, <2>1, <2>2, MismasEntradas, LosDemasSiguen DEF LeerLlave
<1> QED  BY <1>1, <1>2, <1>3, <1>4, <1>5, <1>6, <1>7, <1>8 DEF PasoDelBucle

-----------------------------------------------------------------------------
\* A step that is not a call's keeps the calls, and what was new enough for its
\* date still is.
LEMMA SinLlamadas ==
    ASSUME InvDelSello, TypeOK', SelloOrdenado', UNCHANGED llamadas,
           pared <= pared', anunciada <= anunciada',
           \A v \in Bindings \cup {-1}, r \in 0 .. MaxReloj + 1 : Fechado(v, r) => Fechado(v, r)',
           \A p \in Procesos : facetas'[p] \in {facetas[p], SinFaceta}
    PROVE  InvDelSello'
<1>1. TypeOK /\ pared \in Int /\ anunciada \in Int /\ pared' \in Int /\ anunciada' \in Int
  BY Constantes DEF InvDelSello, TypeOK
<1>2. ASSUME NEW p \in Procesos
      PROVE  (facetas[p] # SinFaceta => Fechado(facetas[p].v, facetas[p].pared))'
  <2>1. facetas[p].v \in Bindings \cup {-1} /\ facetas[p].pared \in 0 .. MaxReloj + 1
    BY <1>1 DEF TypeOK, EntradaFaceta
  <2>2. facetas[p] # SinFaceta => Fechado(facetas[p].v, facetas[p].pared)
    BY DEF InvDelSello, EntradasFechadas
  <2> QED  BY <2>1, <2>2 DEF Fechado
<1>3. ASSUME NEW c \in Llamadas PROVE VueloFechado(c)' /\ RespuestaFresca(c)'
  <2>1. /\ VueloFechado(c) /\ RespuestaFresca(c) /\ pc'[c] = pc[c] /\ loc'[c] = loc[c]
        /\ loc[c].v \in Bindings \cup {-1} /\ loc[c].reloj \in 0 .. MaxReloj + 1
        /\ loc[c].minimo \in Int /\ loc[c].reloj \in Int
    <3>1. loc[c] \in Locales
      BY <1>1 DEF TypeOK
    <3>2. /\ loc[c].v \in Bindings \cup {-1} /\ loc[c].reloj \in 0 .. MaxReloj + 1
          /\ loc[c].minimo \in Bindings
      BY <3>1 DEF Locales
    <3> QED  BY <3>2, Constantes DEF InvDelSello, llamadas, Bindings
  <2>2. PICK v, r : v = loc[c].v /\ r = loc[c].reloj
    OBVIOUS
  <2>3. Fechado(v, r) => Fechado(v, r)'
    BY <2>1, <2>2
  <2>4. Fechado(loc[c].v, loc[c].reloj) => Fechado(loc[c].v, loc[c].reloj)'
    BY <2>1, <2>2, <2>3 DEF Fechado
  <2>5. VueloFechado(c)'
    BY <1>1, <2>1, <2>4 DEF VueloFechado, EsDeFaceta
  <2> QED  BY <2>1, <2>5 DEF RespuestaFresca, RespondeFaceta, Respondida
<1> QED  BY <1>1, <1>2, <1>3 DEF InvDelSello, EntradasFechadas

\* The steps of a writer.
LEMMA EscritorFresco ==
    ASSUME InvDelSello, UnSello, TypeOK', NEW w \in Escritores, PasoDeEscritor(w)
    PROVE  InvDelSello'
<1> USE DEF base, relojes, caches, llamadas, escritura
<1>0. /\ TypeOK /\ SelloOrdenado /\ EscritoresDeMesa = Escritores
      /\ binding \in Nat /\ anunciada \in Nat /\ sello \in Nat /\ pared \in Nat
      /\ \A x \in Escritores : escritor[x].suya \in Nat /\ escritor[x].hora \in Nat
  <2>1. TypeOK /\ SelloOrdenado /\ EscritoresDeMesa = Escritores
    BY DEF InvDelSello, UnSello
  <2>2. binding \in Nat /\ anunciada \in Nat /\ sello \in Nat /\ pared \in Nat
    BY <2>1, Constantes DEF TypeOK
  <2>3. ASSUME NEW x \in Escritores PROVE escritor[x].suya \in Nat /\ escritor[x].hora \in Nat
    <3>1. escritor[x].suya \in Bindings /\ escritor[x].hora \in 0 .. MaxReloj + 1
      BY <2>1 DEF TypeOK
    <3> QED  BY <3>1, Constantes DEF Bindings
  <2> QED  BY <2>1, <2>2, <2>3
<1>1. CASE Confirmar(w)
  <2>1. /\ binding' = binding + 1 /\ UNCHANGED <<pared, sello, anunciada, facetas, llamadas>>
        /\ escritor'[w].suya = binding + 1 /\ escritor'[w].paso = "confirmado"
        /\ \A x \in Escritores \ {w} : escritor'[x] = escritor[x]
    BY <1>0, <1>1 DEF Confirmar, TypeOK
  <2>2. SelloOrdenado'
    BY <1>0, <2>1 DEF SelloOrdenado, Tocando
  <2>3. \A v, r : Fechado(v, r) => Fechado(v, r)'
    BY <2>1 DEF Fechado, Tocando
  <2> QED  BY <1>0, <2>1, <2>2, <2>3, SinLlamadas
<1>2. CASE LeerHora(w)
  <2>1. /\ UNCHANGED <<binding, pared, sello, anunciada, facetas, llamadas>>
        /\ escritor[w].paso = "confirmado"
        /\ escritor'[w].suya = escritor[w].suya /\ escritor'[w].hora = pared
        /\ escritor'[w].paso = "tocando"
        /\ \A x \in Escritores \ {w} : escritor'[x] = escritor[x]
    BY <1>0, <1>2 DEF LeerHora, TypeOK
  <2>2. \A x \in Escritores : ~Tocando(x)
    BY <1>0, <1>2 DEF LeerHora, BucleLibre, Tocando
  <2>3. SelloOrdenado'
    BY <1>0, <2>1, <2>2 DEF SelloOrdenado, Tocando
  <2>4. \A v \in Int, r \in Int : Fechado(v, r) => Fechado(v, r)'
    BY <1>0, <2>1, <2>2 DEF Fechado, Tocando
  <2>5. Bindings \cup {-1} \subseteq Int /\ 0 .. MaxReloj + 1 \subseteq Int
    BY Constantes
  <2> QED  BY <1>0, <2>1, <2>3, <2>4, <2>5, SinLlamadas
<1>3. CASE Tocar(w)
  <2>1. /\ UNCHANGED <<binding, pared, llamadas>> /\ Tocando(w)
        /\ sello' = escritor[w].hora
        /\ anunciada' = IF escritor[w].suya > anunciada THEN escritor[w].suya ELSE anunciada
        /\ escritor'[w].paso = "fuera"
        /\ \A x \in Escritores \ {w} : escritor'[x] = escritor[x]
        /\ \A p \in Procesos : facetas'[p] \in {facetas[p], SinFaceta}
    BY <1>0, <1>3 DEF Tocar, TypeOK, Tocando
  <2>2. SelloOrdenado'
    BY <1>0, <2>1 DEF SelloOrdenado, Tocando
  <2>3. ASSUME NEW v \in Int, NEW r \in Int, Fechado(v, r) PROVE Fechado(v, r)'
    <3>1. escritor[w].hora >= sello
      BY <1>0, <2>1 DEF SelloOrdenado
    <3>2. r <= pared' /\ (r > sello' => v >= anunciada')
      BY <1>0, <2>1, <2>3, <3>1 DEF Fechado
    <3>3. \A x \in Escritores : ~Tocando(x)'
      BY <1>0, <2>1 DEF SelloOrdenado, Tocando
    <3> QED  BY <3>2, <3>3 DEF Fechado
  <2>4. Bindings \cup {-1} \subseteq Int /\ 0 .. MaxReloj + 1 \subseteq Int
    BY Constantes
  <2> QED  BY <1>0, <2>1, <2>2, <2>3, <2>4, SinLlamadas
<1>4. CASE TocarFalla(w)
  <2>1. /\ UNCHANGED <<binding, pared, sello, anunciada, facetas, llamadas>>
        /\ escritor'[w].paso = "fuera"
        /\ \A x \in Escritores \ {w} : escritor'[x] = escritor[x]
    BY <1>0, <1>4 DEF TocarFalla, TypeOK
  <2>2. SelloOrdenado'
    BY <1>0, <2>1 DEF SelloOrdenado, Tocando
  <2>3. \A v, r : Fechado(v, r) => Fechado(v, r)'
    BY <2>1 DEF Fechado, Tocando
  <2> QED  BY <1>0, <2>1, <2>2, <2>3, SinLlamadas
<1> QED  BY <1>1, <1>2, <1>3, <1>4 DEF PasoDeEscritor

LEMMA SelloSeConserva == InvDelSello /\ UnSello /\ [Next]_vars => InvDelSello'
<1> SUFFICES ASSUME InvDelSello, UnSello, [Next]_vars PROVE InvDelSello'
  OBVIOUS
<1> USE DEF base, relojes, caches, llamadas, escritura
<1>0. TypeOK /\ TypeOK' /\ SelloOrdenado /\ pared \in Int
  BY TiposSeConservan, Constantes DEF InvDelSello, TypeOK
<1>1. ASSUME NEW c \in Llamadas, LeerBinding(c) \/ LeerLlave(c) PROVE InvDelSello'
  BY <1>0, <1>1, Constantes, LlamadaFresca
<1>2. ASSUME NEW c \in Llamadas, NEW p \in Procesos, PasoDelBucle(c, p) PROVE InvDelSello'
  BY <1>0, <1>2, LlamadaFresca
<1>3. ASSUME NEW w \in Escritores, PasoDeEscritor(w) PROVE InvDelSello'
  BY <1>0, <1>3, EscritorFresco
<1>4. CASE Rotar \/ Revocar \/ UNCHANGED vars
  <2>1. UNCHANGED <<binding, pared, sello, anunciada, escritor, facetas, llamadas>>
    BY <1>4 DEF Rotar, Revocar, vars
  <2>2. SelloOrdenado' /\ \A v, r : Fechado(v, r) => Fechado(v, r)'
    BY <1>0, <2>1 DEF SelloOrdenado, Fechado, Tocando
  <2>3. \A p \in Procesos : facetas'[p] \in {facetas[p], SinFaceta}
    BY <2>1
  <2>4. pared \in Int /\ anunciada \in Int
    BY <1>0, Constantes DEF TypeOK
  <2>5. pared <= pared' /\ anunciada <= anunciada'
    BY <2>1, <2>4
  <2> QED  BY <1>0, <2>1, <2>2, <2>3, <2>5, SinLlamadas
<1>5. CASE Tick
  <2>1. pared' = pared + 1 /\ UNCHANGED <<binding, sello, anunciada, escritor, facetas, llamadas>>
    BY <1>5 DEF Tick
  <2>2. SelloOrdenado'
    BY <1>0, <2>1, Constantes DEF SelloOrdenado, Tocando, TypeOK
  <2>3. \A v \in Int, r \in Int : Fechado(v, r) => Fechado(v, r)'
    BY <1>0, <2>1 DEF Fechado, Tocando
  <2>4. Bindings \cup {-1} \subseteq Int /\ 0 .. MaxReloj + 1 \subseteq Int
    BY Constantes
  <2> QED  BY <1>0, <2>1, <2>2, <2>3, <2>4, SinLlamadas DEF TypeOK, Bindings
<1>6. CASE AtrasarReloj
  BY <1>6 DEF AtrasarReloj, UnSello
<1> QED  BY <1>1, <1>2, <1>3, <1>4, <1>5, <1>6 DEF Next

\* Where the writers share one event loop, the seal can be read and the wall
\* clock is not set back, no process answers with a binding older than the one
\* announced before the call began.
THEOREM ElSelloSeVe ==
    ASSUME EscritoresDeMesa = Escritores
    PROVE  Spec => []FrescoTrasSello
<1> DEFINE I == TypeOK /\ (UnSello => InvDelSello)
<1>1. Init => I
  BY TiposAlInicio, SelloAlInicio
<1>2. I /\ [Next]_vars => I'
  <2> SUFFICES ASSUME I, [Next]_vars PROVE I'
    OBVIOUS
  <2>1. TypeOK'
    BY TiposSeConservan
  <2>2. UnSello' <=> UnSello
    BY DEF UnSello, SelloFiable, Next, vars
  <2>3. UnSello => InvDelSello'
    BY SelloSeConserva
  <2> QED  BY <2>1, <2>2, <2>3
<1>3. I => FrescoTrasSello
  BY DEF UnSello, InvDelSello, RespuestaFresca, FrescoTrasSello
<1> QED  BY <1>1, <1>2, <1>3, PTL DEF Spec

-----------------------------------------------------------------------------
(* The age of what is answered.  Everything is dated by mono: an entry by   *)
(* the instant its call began, and a call by the instant it looked.  What a *)
(* date says is kept by every step, since what stops being current does so  *)
(* at an instant that is not before the date.                               *)

\* What is current has not stopped being so, and neither has what is to come.
\* The wall clock has started.
Vigentes ==
    /\ 1 <= pared
    /\ \A v \in Bindings : v >= binding => bindingHasta[v] = Nunca
    /\ \A k \in activas : llaveHasta[k] = Nunca

\* An entry was current at its date; its key had been revoked for less than the
\* ceiling of the key cache.
EntradaConEdad(e) ==
    /\ e.mono <= mono
    /\ e.v # -1 => bindingHasta[e.v] >= e.mono
    /\ e.k # 0 => e.v # -1 /\ llaveHasta[e.k] > e.mono - CSTALE

LlaveConEdad(e) ==
    /\ e.mono <= mono
    /\ e.k # 0 => llaveHasta[e.k] >= e.mono

CachesConEdad == \A p \in Procesos : EntradaConEdad(facetas[p]) /\ LlaveConEdad(llaves[p])

\* A call in flight, and the entries it saw when it began.
VueloConEdad(c) ==
    /\ loc[c].ahora <= mono /\ loc[c].ahoraK <= mono
    /\ EntradaConEdad(loc[c].guardada) /\ LlaveConEdad(loc[c].guardadaK)
    /\ pc[c] \in {"binding", "llave"} => EsDeFaceta(c)
    /\ (pc[c] \in {"llave", "consulta", "leida"} /\ EsDeFaceta(c)) => loc[c].v # -1
    /\ (pc[c] # "fuera" /\ loc[c].v # -1) => bindingHasta[loc[c].v] >= loc[c].ahora
    /\ pc[c] \in {"consulta", "leida"} => loc[c].ahora <= loc[c].ahoraK
    /\ pc[c] = "leida" => loc[c].k # 0 /\ llaveHasta[loc[c].k] >= loc[c].ahoraK

RespuestaConEdad(c) ==
    /\ RespondeFaceta(c) =>
         bindingHasta[loc[c].v] > loc[c].ahora - (IF loc[c].via = "rancia" THEN FSTALE ELSE FTTL)
    /\ RespondeLlave(c) =>
         llaveHasta[loc[c].k] > loc[c].ahora - CSTALE - (IF loc[c].v = -1 THEN 0 ELSE FSTALE)

\* Without a managed key nobody asks for one.
SinGestion ==
    ~UsaLlave => /\ \A p \in Procesos : llaves[p] = SinLlave
                 /\ \A c \in Llamadas : pc[c] \notin {"consulta", "leida"}

InvDeEdad ==
    /\ TypeOK /\ Vigentes /\ SinGestion /\ CachesConEdad
    /\ \A c \in Llamadas : VueloConEdad(c) /\ RespuestaConEdad(c)

\* The constants and the dates are numbers.
LEMMA Fechas ==
    ASSUME TypeOK
    PROVE  /\ mono \in Int /\ Nunca \in Int /\ mono < Nunca /\ 0 <= mono
           /\ FTTL \in Int /\ FSTALE \in Int /\ CTTL \in Int /\ CSTALE \in Int
           /\ 0 < FTTL /\ FTTL <= FSTALE /\ 0 < CTTL /\ CTTL <= CSTALE
           /\ binding \in Int
           /\ \A v \in Bindings : v \in Int /\ v # -1 /\ bindingHasta[v] \in Int
           /\ \A k \in Llaves : k # 0 /\ llaveHasta[k] \in Int
<1>1. \A v \in Bindings : v \in Int /\ v # -1 /\ bindingHasta[v] \in Int
  <2>1. MaxBinding \in Nat /\ MaxReloj \in Nat
    BY Constantes
  <2>2. \A v \in Bindings : bindingHasta[v] \in 0 .. Nunca
    BY DEF TypeOK
  <2> QED  BY <2>1, <2>2 DEF Bindings, Nunca
<1>2. \A k \in Llaves : k # 0 /\ llaveHasta[k] \in Int
  <2>1. MaxLlaves \in Nat /\ MaxReloj \in Nat
    BY ResolverSupuestos DEF ResolverSupuestos
  <2>2. \A k \in Llaves : llaveHasta[k] \in 0 .. Nunca
    BY DEF TypeOK
  <2> QED  BY <2>1, <2>2 DEF Llaves, Nunca
<1>3. mono \in Int /\ Nunca \in Int /\ mono < Nunca /\ 0 <= mono /\ binding \in Int
  BY Constantes DEF TypeOK, Horas, Nunca, Bindings
<1> QED  BY <1>1, <1>2, <1>3, ResolverSupuestos DEF ResolverSupuestos

\* So are those of an entry and of a call.
LEMMA FechasDeEntrada ==
    /\ \A e \in EntradaFaceta : e.mono \in Int /\ e.v \in Bindings \cup {-1} /\ e.k \in Llaves \cup {0}
    /\ \A e \in EntradaLlave : e.mono \in Int /\ 0 <= e.mono /\ e.k \in Llaves \cup {0}
    /\ \A l \in Locales : /\ l.ahora \in Int /\ l.ahoraK \in Int /\ l.guardada \in EntradaFaceta
                          /\ l.guardadaK \in EntradaLlave /\ l.proceso \in Procesos
                          /\ l.v \in Bindings \cup {-1} /\ l.k \in Llaves \cup {0}
<1>1. \A h \in Horas : h \in Int /\ 0 <= h
  BY Constantes DEF Horas
<1> QED  BY <1>1 DEF EntradaFaceta, EntradaLlave, Locales

\* An empty entry promises nothing.
LEMMA VaciosConEdad ==
    ASSUME TypeOK
    PROVE  /\ EntradaConEdad(SinFaceta) /\ LlaveConEdad(SinLlave)
           /\ SinFaceta.mono = 0 /\ SinFaceta.v = -1 /\ SinFaceta.k = 0
           /\ SinLlave.mono = 0 /\ SinLlave.k = 0
BY Fechas DEF EntradaConEdad, LlaveConEdad, SinFaceta, SinLlave

\* At the start nothing is cached and nobody has been answered.
LEMMA EdadAlInicio == Init => InvDeEdad
<1> SUFFICES ASSUME Init PROVE InvDeEdad
  OBVIOUS
<1>1. TypeOK
  BY TiposAlInicio
<1>2. Vigentes
  <2>1. activas \subseteq Llaves
    BY <1>1 DEF TypeOK
  <2> QED  BY <2>1 DEF Init, Vigentes
<1>3. SinGestion
  BY DEF Init, SinGestion
<1>4. CachesConEdad
  BY <1>1, VaciosConEdad DEF Init, CachesConEdad
<1>5. ASSUME NEW c \in Llamadas PROVE VueloConEdad(c) /\ RespuestaConEdad(c)
  <2>1. loc[c] = LocalesVacios /\ pc[c] = "fuera" /\ 0 <= mono
    BY <1>1, Fechas DEF Init
  <2>2. /\ LocalesVacios.ahora = 0 /\ LocalesVacios.ahoraK = 0 /\ LocalesVacios.via = "ninguna"
        /\ LocalesVacios.guardada = SinFaceta /\ LocalesVacios.guardadaK = SinLlave
    BY DEF LocalesVacios
  <2>3. EntradaConEdad(loc[c].guardada) /\ LlaveConEdad(loc[c].guardadaK)
    BY <1>1, <2>1, <2>2, VaciosConEdad
  <2> QED
    BY <2>1, <2>2, <2>3 DEF VueloConEdad, RespuestaConEdad, RespondeFaceta, RespondeLlave, Respondida
<1> QED  BY <1>1, <1>2, <1>3, <1>4, <1>5 DEF InvDeEdad

\* A step that is not a call's: time may pass, and what stops being current stops now.
LEMMA LaEdadSigue ==
    ASSUME InvDeEdad, TypeOK', Vigentes', UNCHANGED <<llaves, llamadas, entorno>>, mono <= mono',
           \A v \in Bindings : bindingHasta'[v] = bindingHasta[v] \/ bindingHasta'[v] = mono,
           \A k \in Llaves : llaveHasta'[k] = llaveHasta[k] \/ llaveHasta'[k] = mono,
           \A p \in Procesos : facetas'[p] \in {facetas[p], SinFaceta}
    PROVE  InvDeEdad'
<1>0. /\ TypeOK /\ pc' = pc /\ loc' = loc /\ llaves' = llaves
      /\ mono \in Int /\ mono' \in Int /\ CSTALE \in Int /\ 0 < CSTALE
      /\ \A v \in Bindings : bindingHasta[v] \in Int
      /\ \A k \in Llaves : llaveHasta[k] \in Int
  <2>1. TypeOK /\ pc' = pc /\ loc' = loc /\ llaves' = llaves
    BY DEF InvDeEdad, llamadas
  <2>2. mono' \in Int
    BY Constantes DEF TypeOK
  <2> QED  BY <2>1, <2>2, Fechas
<1>1. ASSUME NEW e \in EntradaFaceta, EntradaConEdad(e)
      PROVE  /\ e.mono <= mono'
             /\ e.v # -1 => bindingHasta'[e.v] >= e.mono
             /\ e.k # 0 => e.v # -1 /\ llaveHasta'[e.k] > e.mono - CSTALE
  <2>1. e.mono \in Int /\ (e.v # -1 => e.v \in Bindings) /\ (e.k # 0 => e.k \in Llaves)
    BY FechasDeEntrada
  <2> QED  BY <1>0, <1>1, <2>1 DEF EntradaConEdad
<1>2. ASSUME NEW e \in EntradaLlave, LlaveConEdad(e)
      PROVE  e.mono <= mono' /\ (e.k # 0 => llaveHasta'[e.k] >= e.mono)
  <2>1. e.mono \in Int /\ (e.k # 0 => e.k \in Llaves)
    BY FechasDeEntrada
  <2> QED  BY <1>0, <1>2, <2>1 DEF LlaveConEdad
<1>3. CachesConEdad'
  <2>1. ASSUME NEW p \in Procesos PROVE EntradaConEdad(facetas[p])' /\ LlaveConEdad(llaves[p])'
    <3>1. facetas[p] \in EntradaFaceta /\ llaves[p] \in EntradaLlave
      BY <1>0 DEF TypeOK
    <3>2. EntradaConEdad(facetas[p]) /\ LlaveConEdad(llaves[p])
      BY DEF InvDeEdad, CachesConEdad
    <3>3. LlaveConEdad(llaves[p])'
      BY <1>0, <1>2, <3>1, <3>2 DEF LlaveConEdad
    <3>4. CASE facetas'[p] = facetas[p]
      BY <1>1, <3>1, <3>2, <3>3, <3>4 DEF EntradaConEdad
    <3>5. CASE facetas'[p] = SinFaceta
      <4>1. 0 <= mono'
        BY <1>0, Fechas, Constantes DEF TypeOK, Horas
      <4> QED  BY <1>0, <3>3, <3>5, <4>1, VaciosConEdad DEF EntradaConEdad
    <3> QED  BY <3>4, <3>5
  <2> QED  BY <2>1 DEF CachesConEdad
<1>4. ASSUME NEW c \in Llamadas PROVE VueloConEdad(c)' /\ RespuestaConEdad(c)'
  <2> DEFINE l == loc[c]
  <2>1. /\ l \in Locales /\ l.guardada \in EntradaFaceta /\ l.guardadaK \in EntradaLlave
        /\ l.ahora \in Int /\ l.ahoraK \in Int
        /\ l.v # -1 => l.v \in Bindings /\ l.v \in Int
        /\ l.k # 0 => l.k \in Llaves
    <3>1. l \in Locales
      BY <1>0 DEF TypeOK
    <3> QED  BY <1>0, <3>1, Fechas, FechasDeEntrada
  <2>2. VueloConEdad(c) /\ RespuestaConEdad(c) /\ pc'[c] = pc[c] /\ loc'[c] = l
    BY <1>0 DEF InvDeEdad
  <2>3. EntradaConEdad(loc[c].guardada)' /\ LlaveConEdad(loc[c].guardadaK)'
    BY <1>1, <1>2, <2>1, <2>2 DEF VueloConEdad, EntradaConEdad, LlaveConEdad
  <2>4. VueloConEdad(c)'
    BY <1>0, <2>1, <2>2, <2>3 DEF VueloConEdad, EsDeFaceta
  <2>5. RespuestaConEdad(c)'
    BY <1>0, <2>1, <2>2, Fechas
       DEF VueloConEdad, RespuestaConEdad, RespondeFaceta, RespondeLlave, Respondida
  <2> QED  BY <2>4, <2>5
<1>5. SinGestion'
  BY <1>0 DEF InvDeEdad, SinGestion, UsaLlave
<1> QED  BY <1>3, <1>4, <1>5 DEF InvDeEdad

\* A call's step leaves alone what the dates of the others speak of.
LEMMA EdadDeLosDemas ==
    ASSUME InvDeEdad, TypeOK', NEW c \in Llamadas, UNCHANGED <<base, relojes, entorno>>,
           \A d \in Llamadas \ {c} : pc'[d] = pc[d] /\ loc'[d] = loc[d],
           \A p \in Procesos : EntradaConEdad(facetas'[p]) /\ LlaveConEdad(llaves'[p]),
           ~UsaLlave => llaves' = llaves /\ pc'[c] \notin {"consulta", "leida"},
           VueloConEdad(c)', RespuestaConEdad(c)'
    PROVE  InvDeEdad'
<1>1. /\ mono' = mono /\ pared' = pared /\ binding' = binding /\ activas' = activas
      /\ bindingHasta' = bindingHasta /\ llaveHasta' = llaveHasta
  BY DEF base, relojes
<1>2. Vigentes'
  BY <1>1 DEF InvDeEdad, Vigentes
<1>3. CachesConEdad'
  BY <1>1 DEF CachesConEdad, EntradaConEdad, LlaveConEdad
<1>4. ASSUME NEW d \in Llamadas \ {c} PROVE VueloConEdad(d)' /\ RespuestaConEdad(d)'
  <2>1. VueloConEdad(d) /\ RespuestaConEdad(d) /\ pc'[d] = pc[d] /\ loc'[d] = loc[d]
    BY DEF InvDeEdad
  <2>2. VueloConEdad(d)'
    BY <1>1, <2>1 DEF VueloConEdad, EntradaConEdad, LlaveConEdad, EsDeFaceta
  <2>3. RespuestaConEdad(d)'
    BY <1>1, <2>1 DEF RespuestaConEdad, RespondeFaceta, RespondeLlave, Respondida
  <2> QED  BY <2>2, <2>3
<1>5. SinGestion'
  BY DEF InvDeEdad, SinGestion, UsaLlave
<1> QED  BY <1>2, <1>3, <1>4, <1>5 DEF InvDeEdad

\* The entries that a call's step leaves alone keep their dates.
LEMMA MismasFechas ==
    ASSUME InvDeEdad
    PROVE  \A p \in Procesos : EntradaConEdad(facetas[p]) /\ LlaveConEdad(llaves[p])
BY DEF InvDeEdad, CachesConEdad

\* What an answer owes to its dates.
RespondeConEdad(v, k, h, via) ==
    /\ h <= mono
    /\ v # -1 => bindingHasta[v] > h - (IF via = "rancia" THEN FSTALE ELSE FTTL)
    /\ k # 0 => llaveHasta[k] > h - CSTALE - (IF v = -1 THEN 0 ELSE FSTALE)

\* A call that raises, or that answers within its dates, leaves an answer within
\* them.
LEMMA AlTerminarConEdad ==
    ASSUME TypeOK, NEW c \in Llamadas, UNCHANGED <<base, relojes>>,
           \/ Lanza(c)
           \/ \E v \in Bindings \cup {-1}, k \in Llaves \cup {0}, h \in Horas, via \in Vias :
                RespondeConEdad(v, k, h, via) /\ Responde(c, v, k, h, via)
    PROVE  /\ VueloConEdad(c)' /\ RespuestaConEdad(c)' /\ pc'[c] = "fuera"
           /\ \A d \in Llamadas \ {c} : pc'[d] = pc[d] /\ loc'[d] = loc[d]
<1>0. mono' = mono /\ bindingHasta' = bindingHasta /\ llaveHasta' = llaveHasta
  BY DEF base, relojes
<1>1. 0 <= mono /\ EntradaConEdad(SinFaceta) /\ LlaveConEdad(SinLlave)
  BY Fechas, VaciosConEdad
<1>2. CASE Lanza(c)
  <2>1. pc'[c] = "fuera" /\ loc'[c] = LocalesVacios
    BY <1>2 DEF TypeOK, Lanza
  <2>2. /\ loc'[c].ahora = 0 /\ loc'[c].ahoraK = 0 /\ loc'[c].via = "ninguna"
        /\ loc'[c].guardada = SinFaceta /\ loc'[c].guardadaK = SinLlave
    BY <2>1 DEF LocalesVacios
  <2>3. \A d \in Llamadas \ {c} : pc'[d] = pc[d] /\ loc'[d] = loc[d]
    BY <1>2 DEF TypeOK, Lanza
  <2>4. VueloConEdad(c)'
    BY <1>0, <1>1, <2>1, <2>2 DEF VueloConEdad, EntradaConEdad, LlaveConEdad
  <2>5. RespuestaConEdad(c)'
    BY <2>2 DEF RespuestaConEdad, RespondeFaceta, RespondeLlave, Respondida
  <2> QED  BY <2>1, <2>3, <2>4, <2>5
<1>3. ASSUME NEW v \in Bindings \cup {-1}, NEW k \in Llaves \cup {0}, NEW h \in Horas,
             NEW via \in Vias, RespondeConEdad(v, k, h, via), Responde(c, v, k, h, via)
      PROVE  /\ VueloConEdad(c)' /\ RespuestaConEdad(c)' /\ pc'[c] = "fuera"
             /\ \A d \in Llamadas \ {c} : pc'[d] = pc[d] /\ loc'[d] = loc[d]
  <2>1. /\ pc'[c] = "fuera"
        /\ loc'[c] = [LocalesVacios EXCEPT !.v = v, !.k = k, !.ahora = h, !.via = via,
                                           !.minimo = loc[c].minimo]
    BY <1>3 DEF TypeOK, Responde
  <2>2. /\ loc'[c].ahora = h /\ loc'[c].ahoraK = 0 /\ loc'[c].via = via
        /\ loc'[c].v = v /\ loc'[c].k = k
        /\ loc'[c].guardada = SinFaceta /\ loc'[c].guardadaK = SinLlave
    BY <2>1 DEF LocalesVacios
  <2>3. \A d \in Llamadas \ {c} : pc'[d] = pc[d] /\ loc'[d] = loc[d]
    BY <1>3 DEF TypeOK, Responde
  <2>4. VueloConEdad(c)'
    BY <1>0, <1>1, <1>3, <2>1, <2>2
       DEF VueloConEdad, EntradaConEdad, LlaveConEdad, RespondeConEdad
  <2>5. RespuestaConEdad(c)'
    BY <1>0, <1>3, <2>2
       DEF RespuestaConEdad, RespondeFaceta, RespondeLlave, Respondida, RespondeConEdad
  <2> QED  BY <2>1, <2>3, <2>4, <2>5
<1> QED  BY <1>2, <1>3

\* The stale path answers with what was current less than the ceiling ago.
LEMMA RanciaConEdad ==
    ASSUME TypeOK, NEW c \in Llamadas, VueloConEdad(c), FacetaRancia(c), UNCHANGED <<base, relojes>>
    PROVE  /\ VueloConEdad(c)' /\ RespuestaConEdad(c)' /\ pc'[c] = "fuera"
           /\ \A d \in Llamadas \ {c} : pc'[d] = pc[d] /\ loc'[d] = loc[d]
<1> DEFINE e == loc[c].guardada
           h == loc[c].ahora
<1>0. /\ e.v \in Bindings \cup {-1} /\ e.k \in Llaves \cup {0}
      /\ h \in Horas /\ "rancia" \in Vias /\ e.mono \in Int /\ h \in Int
  <2>1. loc[c] \in Locales
    BY DEF TypeOK
  <2>2. e \in EntradaFaceta /\ h \in Horas
    BY <2>1 DEF Locales
  <2> QED  BY <2>1, <2>2, FechasDeEntrada DEF Vias
<1>1. CASE e # SinFaceta /\ h - e.mono < FSTALE
  <2>1. Responde(c, e.v, e.k, h, "rancia")
    BY <1>1 DEF FacetaRancia
  <2>2. EntradaConEdad(e) /\ h <= mono
    BY DEF VueloConEdad
  <2>3. RespondeConEdad(e.v, e.k, h, "rancia")
    BY <1>0, <1>1, <2>2, Fechas DEF RespondeConEdad, EntradaConEdad
  <2>4. PICK v, k, g : v = e.v /\ k = e.k /\ g = h
    OBVIOUS
  <2> QED  BY <1>0, <2>1, <2>3, <2>4, AlTerminarConEdad
<1>2. CASE ~(e # SinFaceta /\ h - e.mono < FSTALE)
  <2>1. Lanza(c)
    BY <1>2 DEF FacetaRancia
  <2> QED  BY <2>1, AlTerminarConEdad
<1> QED  BY <1>1, <1>2

\* A call that knows its key answers with what its dates allow, and so does what
\* it leaves in the cache.
LEMMA ResueltaConEdad ==
    ASSUME InvDeEdad, TypeOK', NEW c \in Llamadas, pc[c] \in {"llave", "consulta", "leida"},
           NEW k \in Llaves \cup {0}, Resuelta(c, k), UNCHANGED <<base, relojes, entorno>>,
           k # 0 => /\ llaveHasta[k] > loc[c].ahora - CSTALE
                    /\ ~EsDeFaceta(c) => llaveHasta[k] > loc[c].ahoraK - CSTALE,
           \A p \in Procesos : LlaveConEdad(llaves'[p]), ~UsaLlave => llaves' = llaves
    PROVE  InvDeEdad'
<1>0. TypeOK /\ VueloConEdad(c)
  BY DEF InvDeEdad
<1>1. /\ loc[c].v \in Bindings \cup {-1} /\ loc[c].ahora \in Horas /\ loc[c].ahoraK \in Horas
      /\ loc[c].ahora \in Int /\ loc[c].ahoraK \in Int
      /\ loc[c].proceso \in Procesos /\ "base" \in Vias /\ -1 \in Bindings \cup {-1}
  <2>1. loc[c] \in Locales
    BY <1>0 DEF TypeOK
  <2> QED  BY <2>1, FechasDeEntrada DEF Locales, Vias
<1>2. loc[c].ahora <= mono /\ loc[c].ahoraK <= mono
  BY <1>0 DEF VueloConEdad
<1>3. PICK v, h, g, p : v = loc[c].v /\ h = loc[c].ahora /\ g = loc[c].ahoraK /\ p = loc[c].proceso
  OBVIOUS
<1>4. CASE EsDeFaceta(c)
  <2>1. Responde(c, v, k, h, "base")
    BY <1>3, <1>4 DEF Resuelta
  <2>2. v # -1 /\ bindingHasta[v] >= h
    BY <1>0, <1>3, <1>4 DEF VueloConEdad
  <2>3. RespondeConEdad(v, k, h, "base")
    BY <1>0, <1>1, <1>2, <1>3, <2>2, Fechas DEF RespondeConEdad
  <2>4. /\ VueloConEdad(c)' /\ RespuestaConEdad(c)' /\ pc'[c] = "fuera"
        /\ \A d \in Llamadas \ {c} : pc'[d] = pc[d] /\ loc'[d] = loc[d]
    BY <1>0, <1>1, <1>3, <2>1, <2>3, AlTerminarConEdad
  <2>5. ASSUME NEW q \in Procesos PROVE EntradaConEdad(facetas'[q])
    <3>1. CASE q = p
      <4>1. facetas'[q].v = v /\ facetas'[q].k = k /\ facetas'[q].mono = h
        BY <1>0, <1>3, <1>4, <3>1 DEF Resuelta, TypeOK
      <4> QED  BY <1>2, <1>3, <2>2, <4>1 DEF EntradaConEdad
    <3>2. CASE q # p
      <4>1. facetas'[q] = facetas[q]
        BY <1>0, <1>3, <1>4, <3>2 DEF Resuelta, TypeOK
      <4> QED  BY <4>1, MismasFechas
    <3> QED  BY <3>1, <3>2
  <2> QED  BY <2>4, <2>5, EdadDeLosDemas
<1>5. CASE ~EsDeFaceta(c)
  <2>1. Responde(c, -1, k, g, "base") /\ facetas' = facetas
    BY <1>3, <1>5 DEF Resuelta
  <2>2. RespondeConEdad(-1, k, g, "base")
    BY <1>0, <1>1, <1>2, <1>3, <1>5, Fechas DEF RespondeConEdad
  <2>3. /\ VueloConEdad(c)' /\ RespuestaConEdad(c)' /\ pc'[c] = "fuera"
        /\ \A d \in Llamadas \ {c} : pc'[d] = pc[d] /\ loc'[d] = loc[d]
    BY <1>0, <1>1, <1>3, <2>1, <2>2, AlTerminarConEdad
  <2> QED  BY <2>1, <2>3, MismasFechas, EdadDeLosDemas
<1> QED  BY <1>4, <1>5

\* resolve_facet: a fresh entry answers what was current less than the TTL ago.
LEMMA EdadAlResolver ==
    ASSUME InvDeEdad, TypeOK', NEW c \in Llamadas, NEW p \in Procesos, ResolverFaceta(c, p),
           UNCHANGED entorno
    PROVE  InvDeEdad'
<1>0. TypeOK /\ VueloConEdad(c) /\ 1 <= pared
  BY DEF InvDeEdad, Vigentes
<1>1. PICK e \in EntradaVigente(p) : ResolverFaceta(c, p)!2!(e)
  BY DEF ResolverFaceta
<1>2. /\ UNCHANGED <<base, relojes, llaves, entorno>> /\ facetas'[p] = e
      /\ \A q \in Procesos \ {p} : facetas'[q] = facetas[q]
      /\ \A d \in Llamadas \ {c} : pc'[d] = pc[d] /\ loc'[d] = loc[d]
  BY <1>0, <1>1 DEF ResolverFaceta, TypeOK
<1>3. e \in EntradaFaceta /\ EntradaConEdad(e)
  <2>1. e \in {facetas[p], SinFaceta}
    BY DEF EntradaVigente
  <2>2. facetas[p] \in EntradaFaceta
    BY <1>0 DEF TypeOK
  <2> QED  BY <1>0, <2>1, <2>2, VaciosConEdad, VaciosTipados, MismasFechas
<1>4. /\ e.mono \in Int /\ mono \in Int /\ mono \in Horas /\ e.v \in Bindings \cup {-1}
      /\ e.k \in Llaves \cup {0} /\ mono' = mono
  BY <1>0, <1>2, <1>3, FechasDeEntrada, Fechas DEF TypeOK, relojes
<1>5. \A q \in Procesos : EntradaConEdad(facetas'[q]) /\ LlaveConEdad(llaves'[q])
  BY <1>2, <1>3, MismasFechas
<1>6. bindingHasta' = bindingHasta /\ llaveHasta' = llaveHasta /\ pared' = pared
  BY <1>2 DEF base, relojes
<1>7. 0 <= mono /\ EntradaConEdad(SinFaceta) /\ LlaveConEdad(SinLlave)
  BY <1>0, Fechas, VaciosConEdad
<1>8. CASE FacetaFresca(e)
  <2>1. /\ pc'[c] = "fuera"
        /\ loc'[c] = [LocalesVacios EXCEPT !.v = e.v, !.k = e.k, !.ahora = mono,
                                           !.via = "cache", !.minimo = anunciada]
    BY <1>0, <1>1, <1>8 DEF TypeOK, ResolverFaceta
  <2>2. /\ loc'[c].ahora = mono /\ loc'[c].ahoraK = 0 /\ loc'[c].via = "cache"
        /\ loc'[c].v = e.v /\ loc'[c].k = e.k
        /\ loc'[c].guardada = SinFaceta /\ loc'[c].guardadaK = SinLlave
    BY <2>1 DEF LocalesVacios
  <2>3. VueloConEdad(c)'
    BY <1>4, <1>6, <1>7, <2>1, <2>2 DEF VueloConEdad, EntradaConEdad, LlaveConEdad
  <2>4. e.v # -1 => bindingHasta[e.v] > mono - FTTL
    BY <1>0, <1>3, <1>4, <1>8, Fechas DEF FacetaFresca, EntradaConEdad
  <2>5. e.k # 0 => e.v # -1 /\ llaveHasta[e.k] > mono - CSTALE - FSTALE
    BY <1>0, <1>3, <1>4, <1>8, Fechas DEF FacetaFresca, EntradaConEdad
  <2>6. RespuestaConEdad(c)'
    BY <1>6, <2>2, <2>4, <2>5
       DEF RespuestaConEdad, RespondeFaceta, RespondeLlave, Respondida
  <2> QED  BY <1>2, <1>5, <2>1, <2>3, <2>6, EdadDeLosDemas
<1>9. CASE ~FacetaFresca(e)
  <2>1. /\ pc'[c] = "binding"
        /\ loc'[c] = [LocalesVacios EXCEPT !.proceso = p, !.ahora = mono, !.reloj = pared,
                                           !.guardada = e, !.minimo = anunciada]
    BY <1>0, <1>1, <1>9 DEF TypeOK
  <2>2. /\ loc'[c].ahora = mono /\ loc'[c].ahoraK = 0 /\ loc'[c].v = -1 /\ loc'[c].reloj # 0
        /\ loc'[c].guardada = e /\ loc'[c].guardadaK = SinLlave
    BY <1>0, <2>1 DEF LocalesVacios
  <2>3. VueloConEdad(c)'
    BY <1>3, <1>4, <1>6, <1>7, <2>1, <2>2 DEF VueloConEdad, EntradaConEdad, LlaveConEdad, EsDeFaceta
  <2>4. RespuestaConEdad(c)'
    BY <2>1 DEF RespuestaConEdad, RespondeFaceta, RespondeLlave, Respondida
  <2> QED  BY <1>2, <1>5, <2>1, <2>3, <2>4, EdadDeLosDemas
<1> QED  BY <1>8, <1>9

\* resolve_credential on its own, or from _query_facet: a fresh key answers, any
\* other goes to ask with the entry it saw.
LEMMA EdadAlPedir ==
    ASSUME InvDeEdad, TypeOK', NEW c \in Llamadas, NEW p \in Procesos,
           ResolverLlave(c, p) \/ PedirLlave(c), UNCHANGED entorno
    PROVE  InvDeEdad'
<1>0. TypeOK /\ VueloConEdad(c) /\ UNCHANGED <<base, relojes, llaves, entorno>>
  BY DEF InvDeEdad, ResolverLlave, PedirLlave, caches
<1>1. /\ mono' = mono /\ bindingHasta' = bindingHasta /\ llaveHasta' = llaveHasta
      /\ mono \in Int /\ mono \in Horas /\ 0 <= mono
      /\ EntradaConEdad(SinFaceta) /\ LlaveConEdad(SinLlave)
  BY <1>0, Fechas, VaciosConEdad DEF base, relojes, TypeOK
<1>2. ASSUME NEW q \in Procesos
      PROVE  /\ llaves[q] \in EntradaLlave /\ LlaveConEdad(llaves[q]) /\ LlaveConEdad(llaves'[q])
             /\ llaves[q].mono \in Int /\ llaves[q].k \in Llaves \cup {0}
             /\ (LlaveFresca(llaves[q]) /\ llaves[q].k # 0) => llaveHasta[llaves[q].k] > mono - CSTALE
  <2>1. llaves[q] \in EntradaLlave /\ LlaveConEdad(llaves[q]) /\ LlaveConEdad(llaves'[q])
    BY <1>0, MismasFechas DEF TypeOK
  <2>2. llaves[q].mono \in Int /\ llaves[q].k \in Llaves \cup {0}
    BY <2>1, FechasDeEntrada
  <2>3. (LlaveFresca(llaves[q]) /\ llaves[q].k # 0) => llaveHasta[llaves[q].k] > mono - CSTALE
    BY <1>0, <1>1, <2>1, <2>2, Fechas DEF LlaveFresca, LlaveConEdad
  <2> QED  BY <2>1, <2>2, <2>3
<1>3. CASE ResolverLlave(c, p)
  <2> DEFINE e == llaves[p]
  <2>1. /\ \A d \in Llamadas \ {c} : pc'[d] = pc[d] /\ loc'[d] = loc[d]
        /\ facetas' = facetas /\ UsaLlave
    BY <1>0, <1>3 DEF ResolverLlave, TypeOK, caches
  <2>2. CASE LlaveFresca(e)
    <3>1. /\ pc'[c] = "fuera"
          /\ loc'[c] = [LocalesVacios EXCEPT !.k = e.k, !.ahora = mono, !.via = "cache"]
      BY <1>0, <1>3, <2>2 DEF ResolverLlave, TypeOK
    <3>2. /\ loc'[c].ahora = mono /\ loc'[c].ahoraK = 0 /\ loc'[c].v = -1 /\ loc'[c].k = e.k
          /\ loc'[c].guardada = SinFaceta /\ loc'[c].guardadaK = SinLlave
      BY <3>1 DEF LocalesVacios
    <3>3. VueloConEdad(c)'
      BY <1>1, <3>1, <3>2 DEF VueloConEdad, EntradaConEdad, LlaveConEdad
    <3>4. CSTALE \in Int /\ (e.k # 0 => e.k \in Llaves /\ llaveHasta[e.k] \in Int)
      BY <1>0, <1>2, Fechas
    <3>5. RespuestaConEdad(c)'
      BY <1>1, <1>2, <2>2, <3>2, <3>4
         DEF RespuestaConEdad, RespondeFaceta, RespondeLlave, Respondida
    <3> QED  BY <1>0, <1>2, <2>1, <3>3, <3>5, MismasFechas, EdadDeLosDemas
  <2>3. CASE ~LlaveFresca(e)
    <3>1. /\ pc'[c] = "consulta"
          /\ loc'[c] = [LocalesVacios EXCEPT !.proceso = p, !.ahoraK = mono, !.guardadaK = e]
      BY <1>0, <1>3, <2>3 DEF ResolverLlave, TypeOK
    <3>2. /\ loc'[c].ahora = 0 /\ loc'[c].ahoraK = mono /\ loc'[c].v = -1 /\ loc'[c].reloj = 0
          /\ loc'[c].guardada = SinFaceta /\ loc'[c].guardadaK = e
      BY <3>1 DEF LocalesVacios
    <3>3. VueloConEdad(c)'
      BY <1>1, <1>2, <3>1, <3>2 DEF VueloConEdad, EntradaConEdad, LlaveConEdad, EsDeFaceta
    <3>4. RespuestaConEdad(c)'
      BY <3>1 DEF RespuestaConEdad, RespondeFaceta, RespondeLlave, Respondida
    <3> QED  BY <1>0, <1>2, <2>1, <3>3, <3>4, MismasFechas, EdadDeLosDemas
  <2> QED  BY <2>2, <2>3
<1>4. CASE PedirLlave(c)
  <2>0. pc[c] = "llave" /\ EsDeFaceta(c)
    BY <1>0, <1>4 DEF PedirLlave, VueloConEdad
  <2>1. PICK q \in Procesos : q = loc[c].proceso
    BY <1>0 DEF TypeOK, Locales
  <2> DEFINE e == llaves[q]
  <2>2. CASE ~UsaLlave \/ LlaveFresca(e)
    <3>1. Resuelta(c, e.k)
      BY <1>4, <2>1, <2>2 DEF PedirLlave
    <3>2. e.k # 0 => LlaveFresca(e)
      BY <2>2, VaciosConEdad, <1>0 DEF InvDeEdad, SinGestion
    <3>3. loc[c].ahora <= mono /\ loc[c].ahora \in Int
      <4>1. loc[c] \in Locales
        BY <1>0 DEF TypeOK
      <4> QED  BY <1>0, <4>1, FechasDeEntrada DEF VueloConEdad
    <3>4. CSTALE \in Int /\ (e.k # 0 => e.k \in Llaves /\ llaveHasta[e.k] \in Int)
      BY <1>0, <1>2, Fechas
    <3>5. e.k # 0 => llaveHasta[e.k] > loc[c].ahora - CSTALE
      BY <1>1, <1>2, <3>2, <3>3, <3>4
    <3> QED  BY <1>0, <1>2, <2>0, <3>1, <3>5, ResueltaConEdad
  <2>3. CASE ~(~UsaLlave \/ LlaveFresca(e))
    <3>1. /\ pc' = [pc EXCEPT ![c] = "consulta"] /\ facetas' = facetas
          /\ loc' = [loc EXCEPT ![c] = [@ EXCEPT !.ahoraK = mono, !.guardadaK = e]]
      BY <1>4, <2>1, <2>3 DEF PedirLlave
    <3>2. loc[c] \in Locales
      BY <1>0 DEF TypeOK
    <3>3. /\ pc'[c] = "consulta" /\ loc'[c].ahora = loc[c].ahora /\ loc'[c].ahoraK = mono
          /\ loc'[c].guardadaK = e /\ loc'[c].guardada = loc[c].guardada
          /\ loc'[c].v = loc[c].v /\ loc'[c].reloj = loc[c].reloj
          /\ \A d \in Llamadas \ {c} : pc'[d] = pc[d] /\ loc'[d] = loc[d]
      BY <1>0, <3>1, <3>2 DEF TypeOK, Locales
    <3>4. VueloConEdad(c)'
      BY <1>0, <1>1, <1>2, <2>0, <3>3 DEF VueloConEdad, EntradaConEdad, LlaveConEdad, EsDeFaceta
    <3>5. RespuestaConEdad(c)'
      BY <3>3 DEF RespuestaConEdad, RespondeFaceta, RespondeLlave, Respondida
    <3> QED  BY <1>0, <1>2, <2>3, <3>1, <3>3, <3>4, <3>5, MismasFechas, EdadDeLosDemas
  <2> QED  BY <2>2, <2>3
<1> QED  BY <1>3, <1>4

\* The SELECTs read what is current.
LEMMA EdadAlLeer ==
    ASSUME InvDeEdad, TypeOK', NEW c \in Llamadas, LeerBinding(c) \/ LeerLlave(c),
           UNCHANGED entorno
    PROVE  InvDeEdad'
<1>0. /\ TypeOK /\ VueloConEdad(c) /\ Vigentes
      /\ UNCHANGED <<base, relojes, entorno>> /\ facetas' = facetas /\ llaves' = llaves
  BY DEF InvDeEdad, LeerBinding, LeerLlave, caches
<1>1. /\ mono' = mono /\ bindingHasta' = bindingHasta /\ llaveHasta' = llaveHasta
      /\ loc[c] \in Locales /\ loc[c].ahora \in Int /\ loc[c].ahoraK \in Int
      /\ mono < Nunca /\ mono \in Int /\ Nunca \in Int
  <2>1. loc[c] \in Locales
    BY <1>0 DEF TypeOK
  <2> QED  BY <1>0, <2>1, Fechas, FechasDeEntrada DEF base, relojes
<1>2. CASE LeerBinding(c)
  <2>1. /\ pc'[c] = "llave" /\ loc'[c].v = binding /\ loc'[c].reloj = loc[c].reloj
        /\ loc'[c].ahora = loc[c].ahora /\ loc'[c].ahoraK = loc[c].ahoraK
        /\ loc'[c].guardada = loc[c].guardada /\ loc'[c].guardadaK = loc[c].guardadaK
        /\ \A d \in Llamadas \ {c} : pc'[d] = pc[d] /\ loc'[d] = loc[d]
    BY <1>0, <1>1, <1>2 DEF LeerBinding, TypeOK, Locales
  <2>2. bindingHasta[binding] = Nunca /\ binding # -1
    BY <1>0, Fechas DEF Vigentes, TypeOK
  <2>3. VueloConEdad(c)'
    BY <1>0, <1>1, <1>2, <2>1, <2>2
       DEF VueloConEdad, EntradaConEdad, LlaveConEdad, EsDeFaceta, LeerBinding
  <2>4. RespuestaConEdad(c)'
    BY <2>1 DEF RespuestaConEdad, RespondeFaceta, RespondeLlave, Respondida
  <2> QED  BY <1>0, <2>1, <2>3, <2>4, MismasFechas, EdadDeLosDemas
<1>3. CASE LeerLlave(c)
  <2>0. PICK k \in activas : loc' = [loc EXCEPT ![c].k = k]
    BY <1>3 DEF LeerLlave
  <2>1. /\ pc'[c] = "leida" /\ loc'[c].k = k /\ loc'[c].reloj = loc[c].reloj
        /\ loc'[c].ahora = loc[c].ahora /\ loc'[c].ahoraK = loc[c].ahoraK /\ loc'[c].v = loc[c].v
        /\ loc'[c].guardada = loc[c].guardada /\ loc'[c].guardadaK = loc[c].guardadaK
        /\ \A d \in Llamadas \ {c} : pc'[d] = pc[d] /\ loc'[d] = loc[d]
    BY <1>0, <1>1, <1>3, <2>0 DEF LeerLlave, TypeOK, Locales
  <2>2. llaveHasta[k] = Nunca /\ k # 0
    BY <1>0, Fechas DEF Vigentes, TypeOK
  <2>3. VueloConEdad(c)'
    BY <1>0, <1>1, <1>3, <2>1, <2>2
       DEF VueloConEdad, EntradaConEdad, LlaveConEdad, EsDeFaceta, LeerLlave
  <2>4. RespuestaConEdad(c)'
    BY <2>1 DEF RespuestaConEdad, RespondeFaceta, RespondeLlave, Respondida
  <2>5. UsaLlave
    BY <1>3 DEF LeerLlave, InvDeEdad, SinGestion
  <2> QED  BY <1>0, <2>1, <2>3, <2>4, <2>5, MismasFechas, EdadDeLosDemas
<1> QED  BY <1>2, <1>3

\* A key that came from its query, or that is served although the query raised.
LEMMA EdadAlResponder ==
    ASSUME InvDeEdad, TypeOK', NEW c \in Llamadas,
           GuardarLlave(c) \/ LlaveFalla(c) \/ BindingFalla(c), UNCHANGED entorno
    PROVE  InvDeEdad'
<1>0. TypeOK /\ VueloConEdad(c) /\ UNCHANGED <<base, relojes, entorno>>
  BY DEF InvDeEdad, GuardarLlave, LlaveFalla, BindingFalla
<1>1. /\ loc[c] \in Locales /\ loc[c].ahora \in Int /\ loc[c].ahoraK \in Int
      /\ loc[c].k \in Llaves \cup {0} /\ loc[c].guardadaK.k \in Llaves \cup {0}
      /\ loc[c].guardadaK.mono \in Int
  <2>1. loc[c] \in Locales
    BY <1>0 DEF TypeOK
  <2> QED  BY <2>1, FechasDeEntrada
<1>2. PICK k, g, h, m : k = loc[c].k /\ g = loc[c].guardadaK.k /\ h = loc[c].ahora /\ m = loc[c].ahoraK
  OBVIOUS
<1>3. CASE GuardarLlave(c)
  <2>1. /\ pc[c] = "leida" /\ k \in Llaves /\ k # 0 /\ llaveHasta[k] >= m /\ h <= m /\ m <= mono
        /\ UsaLlave /\ Resuelta(c, k)
    BY <1>0, <1>1, <1>2, <1>3 DEF GuardarLlave, VueloConEdad, InvDeEdad, SinGestion
  <2>2. llaveHasta[k] > h - CSTALE /\ llaveHasta[k] > m - CSTALE
    BY <1>0, <1>1, <1>2, <2>1, Fechas
  <2>3. ASSUME NEW p \in Procesos PROVE LlaveConEdad(llaves'[p])
    <3>1. CASE p = loc[c].proceso
      <4>1. llaves'[p].k = k /\ llaves'[p].mono = m
        BY <1>0, <1>2, <1>3, <3>1 DEF GuardarLlave, FechaDeLaLlave, TypeOK
      <4> QED  BY <2>1, <4>1 DEF LlaveConEdad
    <3>2. CASE p # loc[c].proceso
      <4>1. llaves'[p] = llaves[p]
        BY <1>0, <1>3, <3>2 DEF GuardarLlave, TypeOK
      <4> QED  BY <4>1, MismasFechas
    <3> QED  BY <3>1, <3>2
  <2> QED  BY <1>0, <1>2, <2>1, <2>2, <2>3, ResueltaConEdad
<1>4. CASE LlaveFalla(c)
  <2>1. pc[c] = "consulta" /\ llaves' = llaves
    BY <1>4 DEF LlaveFalla
  <2>2. CASE LlaveServible(c) /\ Resuelta(c, g)
    <3>1. /\ h <= m /\ m - loc[c].guardadaK.mono < CSTALE
          /\ g # 0 => llaveHasta[g] >= loc[c].guardadaK.mono
      BY <1>0, <1>2, <2>1, <2>2 DEF VueloConEdad, LlaveServible, LlaveConEdad
    <3>2. g # 0 => llaveHasta[g] > h - CSTALE /\ llaveHasta[g] > m - CSTALE
      BY <1>0, <1>1, <1>2, <3>1, Fechas
    <3> QED  BY <1>0, <1>1, <1>2, <2>1, <2>2, <3>2, MismasFechas, ResueltaConEdad
  <2>3. CASE (FacetaRancia(c) \/ Lanza(c)) /\ UNCHANGED facetas
    <3>1. /\ VueloConEdad(c)' /\ RespuestaConEdad(c)' /\ pc'[c] = "fuera"
          /\ \A d \in Llamadas \ {c} : pc'[d] = pc[d] /\ loc'[d] = loc[d]
      BY <1>0, <2>3, RanciaConEdad, AlTerminarConEdad
    <3> QED  BY <1>0, <2>1, <2>3, <3>1, MismasFechas, EdadDeLosDemas
  <2> QED  BY <1>2, <1>4, <2>2, <2>3 DEF LlaveFalla
<1>5. CASE BindingFalla(c)
  <2>1. FacetaRancia(c) /\ facetas' = facetas /\ llaves' = llaves
    BY <1>5 DEF BindingFalla, caches
  <2>2. /\ VueloConEdad(c)' /\ RespuestaConEdad(c)' /\ pc'[c] = "fuera"
        /\ \A d \in Llamadas \ {c} : pc'[d] = pc[d] /\ loc'[d] = loc[d]
    BY <1>0, <2>1, RanciaConEdad
  <2> QED  BY <1>0, <2>1, <2>2, MismasFechas, EdadDeLosDemas
<1> QED  BY <1>3, <1>4, <1>5

\* The steps of the others: time passes, writers commit, keys come and go.
LEMMA EdadDeFuera ==
    ASSUME InvDeEdad, TypeOK', UNCHANGED entorno,
           \/ \E w \in Escritores : PasoDeEscritor(w)
           \/ Rotar \/ Revocar \/ Tick \/ AtrasarReloj \/ UNCHANGED vars
    PROVE  InvDeEdad'
<1>0. /\ TypeOK /\ Vigentes /\ binding \in Int /\ mono \in Int /\ pared \in Int
      /\ activas \subseteq Llaves
  <2>1. TypeOK /\ Vigentes
    BY DEF InvDeEdad
  <2> QED  BY <2>1, Fechas, Constantes DEF TypeOK
<1>1. ASSUME NEW w \in Escritores, PasoDeEscritor(w) PROVE InvDeEdad'
  <2>1. CASE Confirmar(w)
    <3>1. /\ binding' = binding + 1 /\ bindingHasta' = [bindingHasta EXCEPT ![binding] = mono]
          /\ UNCHANGED <<activas, llaveHasta, mono, pared, facetas, llaves, llamadas>>
      BY <2>1 DEF Confirmar, relojes, caches
    <3>2. /\ \A v \in Bindings : bindingHasta'[v] = bindingHasta[v] \/ bindingHasta'[v] = mono
          /\ \A v \in Bindings : v # binding => bindingHasta'[v] = bindingHasta[v]
      BY <1>0, <3>1 DEF TypeOK
    <3>3. Vigentes'
      BY <1>0, <3>1, <3>2, Fechas DEF Vigentes
    <3> QED  BY <1>0, <3>1, <3>2, <3>3, LaEdadSigue
  <2>2. CASE LeerHora(w) \/ Tocar(w) \/ TocarFalla(w)
    <3>1. /\ UNCHANGED <<binding, bindingHasta, activas, llaveHasta, mono, pared, llaves, llamadas>>
          /\ \A p \in Procesos : facetas'[p] \in {facetas[p], SinFaceta}
      BY <1>0, <2>2 DEF LeerHora, Tocar, TocarFalla, base, relojes, caches, TypeOK
    <3>2. Vigentes'
      BY <1>0, <3>1 DEF Vigentes
    <3> QED  BY <1>0, <3>1, <3>2, LaEdadSigue
  <2> QED  BY <1>1, <2>1, <2>2 DEF PasoDeEscritor
<1>2. CASE Rotar
  <2>1. /\ UNCHANGED <<binding, bindingHasta, llaveHasta, mono, pared, facetas, llaves, llamadas>>
        /\ \A k \in activas' : k \in Llaves /\ llaveHasta[k] = Nunca
    BY <1>0, <1>2 DEF Rotar, Vigentes, relojes, caches
  <2>2. Vigentes'
    BY <1>0, <2>1 DEF Vigentes
  <2> QED  BY <1>0, <2>1, <2>2, LaEdadSigue
<1>3. CASE Revocar
  <2>0. PICK S \in {activas} \cup {{k} : k \in activas} :
          /\ activas' = activas \ S
          /\ llaveHasta' = [k \in Llaves |-> IF k \in S THEN mono ELSE llaveHasta[k]]
    BY <1>3 DEF Revocar
  <2>1. /\ UNCHANGED <<binding, bindingHasta, mono, pared, facetas, llaves, llamadas>>
        /\ \A k \in Llaves : llaveHasta'[k] = llaveHasta[k] \/ llaveHasta'[k] = mono
        /\ \A k \in activas' : k \in activas /\ llaveHasta'[k] = llaveHasta[k]
    BY <1>0, <1>3, <2>0 DEF Revocar, relojes, caches
  <2>2. Vigentes'
    BY <1>0, <2>1 DEF Vigentes
  <2> QED  BY <1>0, <2>1, <2>2, LaEdadSigue
<1>4. CASE Tick \/ AtrasarReloj \/ UNCHANGED vars
  <2>1. /\ UNCHANGED <<binding, bindingHasta, activas, llaveHasta, facetas, llaves, llamadas>>
        /\ mono <= mono' /\ 1 <= pared'
    BY <1>0, <1>4 DEF Tick, AtrasarReloj, vars, base, relojes, caches, Vigentes
  <2>2. Vigentes'
    BY <1>0, <2>1 DEF Vigentes
  <2> QED  BY <1>0, <2>1, <2>2, LaEdadSigue
<1> QED  BY <1>1, <1>2, <1>3, <1>4

\* Every step keeps the dates.
LEMMA EdadSeConserva == InvDeEdad /\ [Next]_vars => InvDeEdad'
<1> SUFFICES ASSUME InvDeEdad, [Next]_vars PROVE InvDeEdad'
  OBVIOUS
<1>1. TypeOK' /\ UNCHANGED entorno
  BY TiposSeConservan DEF InvDeEdad, Next, vars
<1>2. ASSUME NEW c \in Llamadas, LeerBinding(c) \/ LeerLlave(c) PROVE InvDeEdad'
  BY <1>1, <1>2, EdadAlLeer
<1>3. ASSUME NEW c \in Llamadas, NEW p \in Procesos, PasoDelBucle(c, p) PROVE InvDeEdad'
  BY <1>1, <1>3, EdadAlResolver, EdadAlPedir, EdadAlResponder DEF PasoDelBucle
<1> QED  BY <1>1, <1>2, <1>3, EdadDeFuera DEF Next

\* Whatever happens to the seal, to the wall clock and to the database, the TTL and
\* the ceilings bound how long a superseded binding or a revoked key is answered.
THEOREM LaEdadTieneTecho == Spec => []EdadDeLoServido
<1>1. InvDeEdad => EdadDeLoServido
  BY DEF InvDeEdad, RespuestaConEdad, EdadDeLoServido, EdadDelBinding, EdadDeLaLlave
<1> QED  BY <1>1, EdadAlInicio, EdadSeConserva, PTL DEF Spec

-----------------------------------------------------------------------------
(* GovernanceContext: types *)

LEMMA MarcasTipadas == GCTypeOK => Marca \in Marcas /\ Vacio \in Valores
BY ContextoSupuesto DEF ContextoSupuesto, GCTypeOK, Marca, Marcas, Vacio, Valores, SinLeer

LEMMA GCTiposAlInicio == GCInit => GCTypeOK
<1> SUFFICES ASSUME GCInit PROVE GCTypeOK
  OBVIOUS
<1> USE ContextoSupuesto DEF ContextoSupuesto
<1>1. legible \in BOOLEAN
  BY Zenon DEF GCInit
<1>2. Marca \in Marcas /\ Vacio \in Valores
  BY DEF GCInit, Marca, Marcas, Vacio, Valores, SinLeer
<1>3. catalogo \in 0 .. MaxCatalogo /\ ficheros \in 0 .. MaxFicheros /\ marcado \in 0 .. MaxSellos /\ sellado \in 0 .. MaxCatalogo
  BY DEF GCInit
<1>4. contexto \in [marca : Marcas, valor : Valores] /\ enVuelo \in Recargas \union {SinRecarga}
  BY <1>2 DEF GCInit
<1> QED  BY <1>1, <1>2, <1>3, <1>4 DEF GCInit, GCTypeOK

LEMMA TiposDeFuente == GCTypeOK /\ DeFuente => GCTypeOK'
<1> SUFFICES ASSUME GCTypeOK, DeFuente PROVE GCTypeOK'
  OBVIOUS
<1> USE ContextoSupuesto DEF ContextoSupuesto
<1>1. legible' \in BOOLEAN
  BY Zenon DEF DeFuente, ConfirmarCatalogo, Sellar, CambiarFichero, PermitirFichero, GCTypeOK
<1>2. /\ catalogo' \in 0 .. MaxCatalogo /\ ficheros' \in 0 .. MaxFicheros
      /\ marcado' \in 0 .. MaxSellos /\ sellado' \in 0 .. MaxCatalogo
  BY DEF DeFuente, ConfirmarCatalogo, Sellar, CambiarFichero, PermitirFichero, GCTypeOK
<1>3. UNCHANGED <<contexto, enVuelo, tareasGC, turnosGC, senales>>
  BY DEF DeFuente, ConfirmarCatalogo, Sellar, CambiarFichero, PermitirFichero
<1> QED  BY <1>1, <1>2, <1>3 DEF GCTypeOK, tareasGC, turnosGC, senales

LEMMA TiposDeSenal ==
    ASSUME GCTypeOK, NEW r \in Recargas, Senala(r)
    PROVE  canceladas' \subseteq Recargas /\ emitidas' \subseteq Recargas /\ errores' \in [Recargas -> Nat]
BY DEF GCTypeOK, Senala

LEMMA TiposDeLaRecarga ==
    ASSUME GCTypeOK, NEW r \in Recargas, DeRecarga(r)
    PROVE  GCTypeOK'
<1> USE ContextoSupuesto DEF ContextoSupuesto, fuentes, tareasGC, turnosGC, senales
<1>1. CASE LeerCatalogo(r)
  <2>1. leido' \in [Recargas -> Valores]
    BY <1>1 DEF LeerCatalogo, GCTypeOK, Valores, SinLeer
  <2> QED  BY <1>1, <2>1 DEF LeerCatalogo, Avanza, GCTypeOK
<1>2. CASE LeerFicheros(r)
  <2>1. leido' = [leido EXCEPT ![r] = [leido[r] EXCEPT !.fic = ficheros]]
    BY <1>2 DEF LeerFicheros
  <2>2. [leido[r] EXCEPT !.fic = ficheros] \in Valores
    BY DEF GCTypeOK, Valores, SinLeer
  <2>3. leido' \in [Recargas -> Valores]
    BY <2>1, <2>2 DEF GCTypeOK
  <2> QED  BY <1>2, <2>3 DEF LeerFicheros, Avanza, GCTypeOK
<1>3. CASE Guardar(r)
  <2>1. contexto' \in [marca : Marcas, valor : Valores]
    BY <1>3 DEF Guardar, MarcaDe, GCTypeOK
  <2> QED  BY <1>3, <2>1 DEF Guardar, Avanza, GCTypeOK
<1>4. CASE FallarRecarga(r)
  <2>1. recarga' \in [Recargas -> {"libre", "consulta", "lectura", "leida", "acabada", "limpia"}]
    BY <1>4 DEF FallarRecarga, Avanza, GCTypeOK
  <2> QED  BY <1>4, <2>1 DEF FallarRecarga, GCTypeOK
<1>5. CASE Hecha(r)
  <2>1. enVuelo' \in Recargas \union {SinRecarga}
    BY <1>5 DEF Hecha, GCTypeOK
  <2> QED  BY <1>5, <2>1, TiposDeSenal DEF Hecha, Avanza, GCTypeOK
<1> QED  BY <1>1, <1>2, <1>3, <1>4, <1>5 DEF DeRecarga

LEMMA AlEmpezar ==
    ASSUME GCTypeOK, NEW t \in Turnos, NEW hacia \in {"espera", "servido"}, Empieza(t, hacia)
    PROVE  /\ turno' \in [Turnos -> {"fuera", "espera", "avisado", "cancelado", "ido", "servido", "fallido"}]
           /\ pedido' \in [Turnos -> Valores]
           /\ turno[t] \in {"fuera", "servido", "fallido"} /\ turno'[t] = hacia
           /\ pedido'[t] = [cat |-> sellado, fic |-> Marca.fic]
           /\ \A q \in Turnos : q # t => turno'[q] = turno[q] /\ pedido'[q] = pedido[q]
<1>1. [cat |-> sellado, fic |-> Marca.fic] \in Valores
  BY MarcasTipadas, ContextoSupuesto DEF GCTypeOK, Marcas, Valores, ContextoSupuesto, SinLeer
<1>2. pedido' = [pedido EXCEPT ![t] = [cat |-> sellado, fic |-> Marca.fic]]
  BY DEF Empieza, Marca
<1>3. /\ turno' \in [Turnos -> {"fuera", "espera", "avisado", "cancelado", "ido", "servido", "fallido"}]
      /\ turno[t] \in {"fuera", "servido", "fallido"} /\ turno'[t] = hacia
      /\ \A q \in Turnos : q # t => turno'[q] = turno[q]
  BY DEF Empieza, Pasa, GCTypeOK
<1> QED  BY <1>1, <1>2, <1>3 DEF GCTypeOK

\* A turn that waits, or waited until it was cancelled, did so for a task.
Esperan ==
    /\ \A t \in Turnos : turno[t] \in {"espera", "avisado", "cancelado", "ido"} => esperada[t] \in Recargas
    /\ \A t \in registrados : turno[t] = "ido"

LEMMA TiposDelTurno ==
    ASSUME GCTypeOK, Esperan, NEW t \in Turnos, DelTurno(t)
    PROVE  GCTypeOK'
<1> USE MarcasTipadas DEF fuentes, tareasGC, turnosGC, senales, SinRecarga
<1>1. CASE ServirContexto(t)
  BY <1>1, AlEmpezar DEF ServirContexto, GCTypeOK
<1>2. CASE Compartir(t)
  BY <1>2, AlEmpezar DEF Compartir, GCTypeOK
<1>3. ASSUME NEW r \in Recargas, Lanzar(t, r) PROVE GCTypeOK'
  BY <1>3, AlEmpezar DEF Lanzar, Avanza, GCTypeOK
<1>4. CASE Relevar(t) \/ Cancelar(t)
  BY <1>4 DEF Relevar, Cancelar, Pasa, GCTypeOK
<1>5. CASE Volver(t)
  <2>1. CASE Pasa(t, "avisado", "fallido") /\ UNCHANGED servido
    BY <1>5, <2>1 DEF Volver, Pasa, GCTypeOK
  <2>2. CASE Pasa(t, "avisado", "servido") /\ servido' = [servido EXCEPT ![t] = leido[esperada[t]]]
    <3>1. leido[esperada[t]] \in Valores
      BY <2>2 DEF Pasa, Esperan, GCTypeOK
    <3> QED  BY <1>5, <2>2, <3>1 DEF Volver, Pasa, GCTypeOK
  <2> QED  BY <1>5, <2>1, <2>2 DEF Volver
<1>6. CASE Cancelada(t)
  <2>1. turno[t] = "cancelado" /\ esperada[t] \in Recargas
    BY <1>6 DEF Cancelada, Pasa, Esperan
  <2>2. canceladas' \subseteq Recargas /\ registrados' \subseteq Turnos
    BY <1>6, <2>1 DEF Cancelada, Registra, GCTypeOK
  <2> QED  BY <1>6, <2>2 DEF Cancelada, Pasa, GCTypeOK
<1>7. CASE AvisarTrasCancelar(t)
  <2>1. esperada[t] \in Recargas /\ Senala(esperada[t])
    BY <1>7 DEF AvisarTrasCancelar, Esperan, GCTypeOK
  <2> QED  BY <1>7, <2>1, TiposDeSenal DEF AvisarTrasCancelar, GCTypeOK
<1> QED  BY <1>1, <1>2, <1>3, <1>4, <1>5, <1>6, <1>7 DEF DelTurno

LEMMA EsperanSigue == GCTypeOK /\ Esperan /\ [GCNext]_GCvars => Esperan'
<1> SUFFICES ASSUME GCTypeOK, Esperan, [GCNext]_GCvars PROVE Esperan'
  OBVIOUS
<1> USE DEF fuentes, tareasGC, turnosGC, senales
<1>1. CASE DeFuente \/ UNCHANGED GCvars
  BY <1>1 DEF DeFuente, ConfirmarCatalogo, Sellar, CambiarFichero, PermitirFichero, GCvars, Esperan
<1>2. ASSUME NEW r \in Recargas, DeRecarga(r) PROVE Esperan'
  BY <1>2 DEF DeRecarga, LeerCatalogo, LeerFicheros, Guardar, FallarRecarga, Hecha, Esperan
<1>3. ASSUME NEW t \in Turnos, DelTurno(t) PROVE Esperan'
  <2>1. CASE ServirContexto(t)
    BY <2>1, AlEmpezar DEF ServirContexto, Esperan, GCTypeOK
  <2>2. CASE Compartir(t)
    BY <2>2, AlEmpezar DEF Compartir, Compartible, Esperan, GCTypeOK
  <2>3. ASSUME NEW r \in Recargas, Lanzar(t, r) PROVE Esperan'
    BY <2>3, AlEmpezar DEF Lanzar, Esperan, GCTypeOK
  <2>4. CASE Relevar(t) \/ Volver(t) \/ Cancelar(t)
    BY <2>4 DEF Relevar, Volver, Cancelar, Pasa, Esperan, GCTypeOK
  <2>5. CASE Cancelada(t)
    BY <2>5 DEF Cancelada, Registra, Pasa, Esperan, GCTypeOK
  <2>6. CASE AvisarTrasCancelar(t)
    BY <2>6 DEF AvisarTrasCancelar, Esperan
  <2> QED  BY <1>3, <2>1, <2>2, <2>3, <2>4, <2>5, <2>6 DEF DelTurno
<1> QED  BY <1>1, <1>2, <1>3 DEF GCNext

LEMMA GCTipos == GCTypeOK /\ Esperan /\ [GCNext]_GCvars => GCTypeOK'
<1>1. GCTypeOK /\ UNCHANGED GCvars => GCTypeOK'
  BY DEF GCTypeOK, GCvars, fuentes, tareasGC, turnosGC, senales
<1> QED  BY <1>1, TiposDeFuente, TiposDeLaRecarga, TiposDelTurno DEF GCNext

LEMMA EsperanAlInicio == GCInit => Esperan
BY DEF GCInit, Esperan

\* For any turns and bounds: the variables of the context have their types.
THEOREM TiposDelContexto == GCSpec => []GCTypeOK
BY GCTiposAlInicio, EsperanAlInicio, GCTipos, EsperanSigue, PTL DEF GCSpec

-----------------------------------------------------------------------------
(* GovernanceContext: what is served is not older than its stamp             *)

\* The task has the catalogue, and has everything it was to read.
Leyo(r) == recarga[r] \in {"lectura", "leida"} \/ (recarga[r] \in {"acabada", "limpia"} /\ r \notin falladas)
LeyoTodo(r) == recarga[r] = "leida" \/ (recarga[r] \in {"acabada", "limpia"} /\ r \notin falladas)

\* What was read for a stamp is not older than what the stamp is of.  The catalogue of a
\* stamp is known only while its seal is the last.
SegunMarca(m, v) == (m.sello = marcado => sellado <= v.cat) /\ m.fic <= v.fic

RecargasEnOrden ==
    \A r \in Recargas :
        /\ r \in falladas => recarga[r] \in {"acabada", "limpia"}
        /\ lanzada[r].fic <= ficheros /\ lanzada[r].sello <= marcado
        /\ Leyo(r) /\ lanzada[r].sello = marcado => sellado <= leido[r].cat
        /\ LeyoTodo(r) => lanzada[r].fic <= leido[r].fic

ContextoEnOrden ==
    /\ sellado <= catalogo
    /\ contexto.marca.sello <= marcado
    /\ contexto.valor # Vacio => SegunMarca(contexto.marca, contexto.valor)
    /\ enVuelo # SinRecarga => recarga[enVuelo] \in {"consulta", "lectura", "leida", "acabada"}

\* A turn waits for a task of its stamp; what it may count on was there when it began.
TurnoEnOrden(t) ==
    /\ turno[t] \in {"espera", "avisado"} =>
          /\ recarga[esperada[t]] # "libre"
          /\ pedido[t].cat <= catalogo /\ pedido[t].fic <= lanzada[esperada[t]].fic
          /\ Leyo(esperada[t]) => pedido[t].cat <= leido[esperada[t]].cat
    /\ turno[t] = "avisado" => recarga[esperada[t]] = "limpia"
    /\ turno[t] = "servido" => servido[t].cat >= pedido[t].cat /\ servido[t].fic >= pedido[t].fic

MarcasEnOrden == RecargasEnOrden /\ ContextoEnOrden /\ \A t \in Turnos : TurnoEnOrden(t)

\* Versions are numbers.
LEMMA Versiones ==
    ASSUME GCTypeOK
    PROVE  /\ catalogo \in Int /\ ficheros \in Int /\ marcado \in Int /\ sellado \in Int
           /\ \A r \in Recargas : /\ leido[r].cat \in Int /\ leido[r].fic \in Int
                                  /\ lanzada[r].fic \in Int /\ lanzada[r].sello \in Int
           /\ \A t \in Turnos : /\ pedido[t].cat \in Int /\ pedido[t].fic \in Int
                                /\ servido[t].cat \in Int /\ servido[t].fic \in Int
           /\ contexto.marca.sello \in Int /\ contexto.marca.fic \in Int
           /\ contexto.valor.cat \in Int /\ contexto.valor.fic \in Int
           /\ Marca.fic \in Int /\ Marca.sello = marcado /\ Marca.fic <= ficheros
<1> USE ContextoSupuesto DEF ContextoSupuesto
<1>1. \A v \in Valores : v.cat \in Int /\ v.fic \in Int
  BY DEF Valores, SinLeer
<1>2. \A m \in Marcas : m.fic \in Int /\ m.sello \in Int
  BY DEF Marcas, SinLeer
<1>3. Marca.fic \in Int /\ Marca.sello = marcado /\ Marca.fic <= ficheros
  BY DEF Marca, GCTypeOK, SinLeer
<1> QED  BY <1>1, <1>2, <1>3 DEF GCTypeOK

LEMMA MarcasAlInicio == GCInit => MarcasEnOrden
<1> SUFFICES ASSUME GCInit PROVE MarcasEnOrden
  OBVIOUS
<1>1. Marca.fic = 0 /\ Marca.sello = 0
  BY DEF GCInit, Marca
<1>2. RecargasEnOrden
  BY <1>1 DEF GCInit, RecargasEnOrden, Leyo, LeyoTodo
<1>3. ContextoEnOrden
  BY <1>1 DEF GCInit, ContextoEnOrden
<1>4. \A t \in Turnos : TurnoEnOrden(t)
  BY DEF GCInit, TurnoEnOrden
<1> QED  BY <1>2, <1>3, <1>4 DEF MarcasEnOrden

LEMMA MarcasTrasFuente ==
    ASSUME GCTypeOK, GCTypeOK', Esperan, MarcasEnOrden, DeFuente
    PROVE  MarcasEnOrden'
<1> USE Versiones
<1>1. /\ UNCHANGED <<contexto, enVuelo, recarga, lanzada, leido, falladas, turno, esperada, pedido, servido>>
      /\ ficheros <= ficheros' /\ catalogo <= catalogo'
      /\ \/ marcado' = marcado /\ sellado' = sellado
         \/ marcado' = marcado + 1 /\ sellado' = catalogo /\ catalogo' = catalogo
  BY DEF DeFuente, ConfirmarCatalogo, Sellar, CambiarFichero, PermitirFichero, tareasGC, turnosGC
<1>2. \A r \in Recargas : (Leyo(r)' <=> Leyo(r)) /\ (LeyoTodo(r)' <=> LeyoTodo(r))
  BY <1>1 DEF Leyo, LeyoTodo
<1>3. RecargasEnOrden'
  <2> SUFFICES ASSUME NEW r \in Recargas
               PROVE  /\ r \in falladas' => recarga'[r] \in {"acabada", "limpia"}
                      /\ lanzada'[r].fic <= ficheros' /\ lanzada'[r].sello <= marcado'
                      /\ Leyo(r)' /\ lanzada'[r].sello = marcado' => sellado' <= leido'[r].cat
                      /\ LeyoTodo(r)' => lanzada'[r].fic <= leido'[r].fic
    BY DEF RecargasEnOrden
  <2>1. /\ r \in falladas => recarga[r] \in {"acabada", "limpia"}
        /\ lanzada[r].fic <= ficheros /\ lanzada[r].sello <= marcado
        /\ Leyo(r) /\ lanzada[r].sello = marcado => sellado <= leido[r].cat
        /\ LeyoTodo(r) => lanzada[r].fic <= leido[r].fic
    BY DEF MarcasEnOrden, RecargasEnOrden
  <2>2. /\ ficheros' \in Int /\ lanzada[r].fic \in Int /\ lanzada[r].sello \in Int
    BY DEF GCTypeOK
  <2> QED  BY <1>1, <1>2, <2>1, <2>2
<1>4. ContextoEnOrden'
  <2>1. ContextoEnOrden
    BY DEF MarcasEnOrden
  <2>2. sellado' <= catalogo' /\ contexto'.marca.sello <= marcado'
    BY <1>1, <2>1 DEF ContextoEnOrden, GCTypeOK
  <2>3. contexto'.valor # Vacio => SegunMarca(contexto.marca, contexto.valor)'
    BY <1>1, <2>1 DEF ContextoEnOrden, SegunMarca
  <2>4. enVuelo' # SinRecarga => recarga'[enVuelo'] \in {"consulta", "lectura", "leida", "acabada"}
    BY <1>1, <2>1 DEF ContextoEnOrden
  <2> QED  BY <2>2, <2>3, <2>4 DEF ContextoEnOrden, SegunMarca
<1>5. ASSUME NEW t \in Turnos PROVE TurnoEnOrden(t)'
  <2>1. TurnoEnOrden(t) /\ catalogo' \in Int
    BY DEF MarcasEnOrden, GCTypeOK
  <2>2. turno[t] \in {"espera", "avisado"} => esperada[t] \in Recargas
    BY DEF Esperan
  <2> QED  BY <1>1, <1>2, <2>1, <2>2 DEF TurnoEnOrden
<1> QED  BY <1>3, <1>4, <1>5 DEF MarcasEnOrden

LEMMA MarcasTrasRecarga ==
    ASSUME GCTypeOK, GCTypeOK', Esperan, MarcasEnOrden, NEW r \in Recargas, DeRecarga(r)
    PROVE  MarcasEnOrden'
<1> USE Versiones
<1>0. /\ UNCHANGED <<catalogo, ficheros, marcado, sellado, lanzada, turno, esperada, pedido, servido>>
      /\ falladas' \in {falladas, falladas \union {r}}
      /\ \A q \in Recargas : q # r => recarga'[q] = recarga[q] /\ leido'[q] = leido[q]
  BY DEF DeRecarga, LeerCatalogo, LeerFicheros, Guardar, FallarRecarga, Hecha, Avanza, GCTypeOK,
         fuentes, tareasGC, turnosGC
\* What r does to itself.
<1>1. /\ recarga[r] # "libre" /\ recarga'[r] # "libre"
      /\ recarga[r] # "limpia"
      /\ r \in falladas' => recarga'[r] \in {"acabada", "limpia"}
      /\ Leyo(r)' => \/ Leyo(r) /\ leido'[r].cat = leido[r].cat
                     \/ recarga[r] = "consulta" /\ leido'[r].cat = catalogo
      /\ LeyoTodo(r)' => \/ LeyoTodo(r) /\ leido'[r].fic = leido[r].fic
                         \/ leido'[r].fic = ficheros
  <2>0. r \in falladas => recarga[r] \in {"acabada", "limpia"}
    BY DEF MarcasEnOrden, RecargasEnOrden
  <2>1. CASE LeerCatalogo(r)
    BY <2>0, <2>1 DEF LeerCatalogo, Avanza, GCTypeOK, Leyo, LeyoTodo, Valores
  <2>2. CASE LeerFicheros(r)
    <3>1. leido' = [leido EXCEPT ![r] = [leido[r] EXCEPT !.fic = ficheros]] /\ recarga[r] = "lectura"
          /\ recarga' = [recarga EXCEPT ![r] = "leida"] /\ falladas' = falladas
      BY <2>2 DEF LeerFicheros, Avanza
    <3>2. leido'[r].fic = ficheros /\ leido'[r].cat = leido[r].cat /\ recarga'[r] = "leida"
      BY <3>1 DEF GCTypeOK, Valores
    <3> QED  BY <2>0, <3>1, <3>2 DEF Leyo, LeyoTodo
  <2>3. CASE Guardar(r)
    BY <2>0, <2>3 DEF Guardar, Avanza, GCTypeOK, Leyo, LeyoTodo
  <2>4. CASE FallarRecarga(r)
    BY <2>0, <2>4 DEF FallarRecarga, Avanza, GCTypeOK, Leyo, LeyoTodo
  <2>5. CASE Hecha(r)
    BY <2>0, <2>5 DEF Hecha, Avanza, GCTypeOK, Leyo, LeyoTodo
  <2> QED  BY <2>1, <2>2, <2>3, <2>4, <2>5 DEF DeRecarga
<1>2. \A q \in Recargas : q # r => (Leyo(q)' <=> Leyo(q)) /\ (LeyoTodo(q)' <=> LeyoTodo(q))
  BY <1>0 DEF Leyo, LeyoTodo
<1>3. RecargasEnOrden'
  <2>1. sellado <= catalogo
    BY DEF MarcasEnOrden, ContextoEnOrden
  <2> SUFFICES ASSUME NEW q \in Recargas
               PROVE  /\ q \in falladas' => recarga'[q] \in {"acabada", "limpia"}
                      /\ lanzada'[q].fic <= ficheros' /\ lanzada'[q].sello <= marcado'
                      /\ Leyo(q)' /\ lanzada'[q].sello = marcado' => sellado' <= leido'[q].cat
                      /\ LeyoTodo(q)' => lanzada'[q].fic <= leido'[q].fic
    BY DEF RecargasEnOrden
  <2>2. CASE q = r
    BY <1>0, <1>1, <2>1, <2>2 DEF MarcasEnOrden, RecargasEnOrden
  <2>3. CASE q # r
    BY <1>0, <1>2, <2>3 DEF MarcasEnOrden, RecargasEnOrden
  <2> QED  BY <2>2, <2>3
<1>4. ContextoEnOrden'
  <2>1. sellado' <= catalogo'
    BY <1>0 DEF MarcasEnOrden, ContextoEnOrden
  <2>2. CASE Guardar(r)
    <3>1. recarga[r] = "leida" /\ contexto'.marca = lanzada[r] /\ contexto'.valor = leido[r] /\ UNCHANGED enVuelo
          /\ recarga'[r] = "acabada"
      BY <2>2 DEF Guardar, Avanza, MarcaDe, GCTypeOK
    <3>2. SegunMarca(lanzada[r], leido[r]) /\ lanzada[r].sello <= marcado
      <4>1. Leyo(r) /\ LeyoTodo(r)
        BY <3>1 DEF Leyo, LeyoTodo
      <4> QED  BY <4>1 DEF MarcasEnOrden, RecargasEnOrden, SegunMarca
    <3>3. contexto'.valor # Vacio => SegunMarca(contexto.marca, contexto.valor)'
      BY <1>0, <3>1, <3>2 DEF SegunMarca
    <3>4. enVuelo' # SinRecarga => recarga'[enVuelo'] \in {"consulta", "lectura", "leida", "acabada"}
      BY <1>0, <3>1 DEF MarcasEnOrden, ContextoEnOrden, GCTypeOK
    <3> QED  BY <1>0, <2>1, <3>1, <3>2, <3>3, <3>4 DEF ContextoEnOrden, SegunMarca
  <2>3. CASE ~Guardar(r)
    <3>1. UNCHANGED contexto
      BY <2>3 DEF DeRecarga, LeerCatalogo, LeerFicheros, FallarRecarga, Hecha
    <3>2. \/ UNCHANGED enVuelo /\ recarga'[r] \in {"lectura", "leida", "acabada"}
          \/ enVuelo' = IF enVuelo = r THEN SinRecarga ELSE enVuelo
      BY <2>3 DEF DeRecarga, LeerCatalogo, LeerFicheros, FallarRecarga, Hecha, Avanza, GCTypeOK
    <3>3. enVuelo' # SinRecarga => recarga'[enVuelo'] \in {"consulta", "lectura", "leida", "acabada"}
      BY <1>0, <3>2 DEF MarcasEnOrden, ContextoEnOrden, GCTypeOK
    <3> QED  BY <1>0, <2>1, <3>1, <3>3 DEF MarcasEnOrden, ContextoEnOrden, SegunMarca, Vacio
  <2> QED  BY <2>2, <2>3
<1>5. ASSUME NEW t \in Turnos PROVE TurnoEnOrden(t)'
  <2>1. CASE turno[t] \in {"espera", "avisado"} /\ esperada[t] = r
    BY <1>0, <1>1, <2>1 DEF MarcasEnOrden, TurnoEnOrden
  <2>2. CASE turno[t] \in {"espera", "avisado"} /\ esperada[t] # r
    BY <1>0, <1>2, <2>2 DEF MarcasEnOrden, TurnoEnOrden, Esperan
  <2>3. CASE turno[t] \notin {"espera", "avisado"}
    BY <1>0, <2>3 DEF MarcasEnOrden, TurnoEnOrden
  <2> QED  BY <2>1, <2>2, <2>3
<1> QED  BY <1>3, <1>4, <1>5 DEF MarcasEnOrden

LEMMA MarcasTrasTurno ==
    ASSUME GCTypeOK, GCTypeOK', Esperan, MarcasEnOrden, NEW t \in Turnos, DelTurno(t)
    PROVE  MarcasEnOrden'
<1> USE Versiones
<1>0. UNCHANGED <<catalogo, ficheros, marcado, sellado, contexto, leido, falladas>>
  BY DEF DelTurno, ServirContexto, Compartir, Lanzar, Relevar, Volver, Cancelar, Cancelada, AvisarTrasCancelar,
         fuentes, tareasGC
<1>1. MarcasEnOrden /\ RecargasEnOrden /\ ContextoEnOrden /\ (\A q \in Turnos : TurnoEnOrden(q)) /\ sellado <= catalogo
  BY DEF MarcasEnOrden, ContextoEnOrden
\* All but a launch leave the tasks alone.
<1>2. ASSUME UNCHANGED <<recarga, lanzada, enVuelo>>, NEW q \in Turnos,
             UNCHANGED <<turno[q], esperada[q], pedido[q], servido[q]>>
      PROVE  TurnoEnOrden(q)'
  BY <1>0, <1>1, <1>2 DEF TurnoEnOrden, Leyo
<1>3. ASSUME UNCHANGED <<recarga, lanzada, enVuelo>>
      PROVE  RecargasEnOrden' /\ ContextoEnOrden'
  BY <1>0, <1>1, <1>3 DEF RecargasEnOrden, ContextoEnOrden, SegunMarca, Leyo, LeyoTodo
<1>4. CASE ServirContexto(t)
  <2>1. /\ turno'[t] = "servido" /\ pedido'[t].cat = sellado /\ pedido'[t].fic = Marca.fic
        /\ contexto.valor # Vacio /\ contexto.marca = Marca /\ servido'[t] = contexto.valor
        /\ \A q \in Turnos : q # t => UNCHANGED <<turno[q], esperada[q], pedido[q], servido[q]>>
        /\ UNCHANGED <<recarga, lanzada, enVuelo>>
    BY <1>4, AlEmpezar DEF ServirContexto, tareasGC, GCTypeOK
  <2>2. sellado <= contexto.valor.cat /\ Marca.fic <= contexto.valor.fic
    BY <1>1, <2>1 DEF ContextoEnOrden, SegunMarca
  <2>3. TurnoEnOrden(t)'
    BY <2>1, <2>2 DEF TurnoEnOrden
  <2> QED  BY <1>2, <1>3, <2>1, <2>3 DEF MarcasEnOrden
<1>5. CASE Compartir(t)
  <2>1. /\ turno'[t] = "espera" /\ pedido'[t].cat = sellado /\ pedido'[t].fic = Marca.fic
        /\ esperada'[t] = enVuelo /\ enVuelo # SinRecarga /\ lanzada[enVuelo] = Marca
        /\ \A q \in Turnos : q # t => UNCHANGED <<turno[q], esperada[q], pedido[q], servido[q]>>
        /\ UNCHANGED <<recarga, lanzada, enVuelo>>
    BY <1>5, AlEmpezar DEF Compartir, Compartible, tareasGC, GCTypeOK
  <2>2. enVuelo \in Recargas /\ recarga[enVuelo] # "libre"
    BY <1>1, <2>1 DEF ContextoEnOrden, GCTypeOK
  <2>3. Leyo(enVuelo) => sellado <= leido[enVuelo].cat
    BY <1>1, <2>1, <2>2 DEF RecargasEnOrden
  <2>4. Leyo(enVuelo)' <=> Leyo(enVuelo)
    BY <1>0, <2>1 DEF Leyo
  <2>5. TurnoEnOrden(t)'
    BY <1>0, <1>1, <2>1, <2>2, <2>3, <2>4 DEF TurnoEnOrden, Leyo
  <2> QED  BY <1>2, <1>3, <2>1, <2>5 DEF MarcasEnOrden
<1>6. ASSUME NEW r \in Recargas, Lanzar(t, r) PROVE MarcasEnOrden'
  <2>1. /\ turno'[t] = "espera" /\ pedido'[t].cat = sellado /\ pedido'[t].fic = Marca.fic
        /\ esperada'[t] = r /\ enVuelo' = r
        /\ \A q \in Turnos : q # t => UNCHANGED <<turno[q], esperada[q], pedido[q], servido[q]>>
    BY <1>6, AlEmpezar DEF Lanzar, GCTypeOK
  <2>2. /\ recarga[r] = "libre" /\ recarga'[r] = "consulta" /\ lanzada'[r] = Marca
        /\ \A q \in Recargas : q # r => recarga'[q] = recarga[q] /\ lanzada'[q] = lanzada[q]
    BY <1>6 DEF Lanzar, Avanza, GCTypeOK
  <2>3. r \notin falladas
    BY <1>1, <2>2 DEF RecargasEnOrden
  <2>4. ~Leyo(r)' /\ ~LeyoTodo(r)' /\ \A q \in Recargas : q # r => (Leyo(q)' <=> Leyo(q)) /\ (LeyoTodo(q)' <=> LeyoTodo(q))
    BY <1>0, <2>2 DEF Leyo, LeyoTodo
  <2>5. RecargasEnOrden'
    BY <1>0, <1>1, <2>2, <2>3, <2>4 DEF RecargasEnOrden
  <2>6. ContextoEnOrden'
    BY <1>0, <1>1, <2>1, <2>2 DEF ContextoEnOrden, SegunMarca, Vacio, SinLeer
  <2>7. TurnoEnOrden(t)'
    BY <1>0, <1>1, <2>1, <2>2, <2>4 DEF TurnoEnOrden, Leyo
  <2>8. ASSUME NEW q \in Turnos, q # t PROVE TurnoEnOrden(q)'
    <3>1. turno[q] \in {"espera", "avisado"} => esperada[q] \in Recargas /\ esperada[q] # r
      BY <1>1, <2>2 DEF TurnoEnOrden, Esperan
    <3> QED  BY <1>0, <1>1, <2>1, <2>2, <2>4, <2>8, <3>1 DEF TurnoEnOrden, Leyo
  <2> QED  BY <2>5, <2>6, <2>7, <2>8 DEF MarcasEnOrden
<1>7. CASE Relevar(t) \/ Cancelar(t)
  <2>1. /\ turno'[t] \in {"avisado", "cancelado"} /\ turno[t] \in {"espera", "avisado"}
        /\ turno'[t] = "avisado" => recarga[esperada[t]] = "limpia"
        /\ UNCHANGED <<recarga, lanzada, enVuelo, esperada, pedido, servido>>
        /\ \A q \in Turnos : q # t => turno'[q] = turno[q]
    BY <1>7 DEF Relevar, Cancelar, Pasa, tareasGC, GCTypeOK
  <2>2. TurnoEnOrden(t)'
    BY <1>0, <1>1, <2>1 DEF TurnoEnOrden, Leyo
  <2> QED  BY <1>2, <1>3, <2>1, <2>2 DEF MarcasEnOrden
<1>8. CASE Volver(t)
  <2>1. /\ turno[t] = "avisado" /\ turno'[t] \in {"servido", "fallido"}
        /\ turno'[t] = "servido" => esperada[t] \notin falladas /\ servido'[t] = leido[esperada[t]]
        /\ UNCHANGED <<recarga, lanzada, enVuelo, esperada, pedido>>
        /\ \A q \in Turnos : q # t => turno'[q] = turno[q] /\ servido'[q] = servido[q]
    BY <1>8 DEF Volver, Pasa, tareasGC, GCTypeOK
  <2>2. esperada[t] \in Recargas /\ TurnoEnOrden(t) /\ recarga[esperada[t]] = "limpia"
    BY <1>1, <2>1 DEF Esperan, TurnoEnOrden
  <2>3. esperada[t] \notin falladas => Leyo(esperada[t]) /\ LeyoTodo(esperada[t])
    BY <2>2 DEF Leyo, LeyoTodo
  <2>4. esperada[t] \notin falladas =>
          leido[esperada[t]].cat >= pedido[t].cat /\ leido[esperada[t]].fic >= pedido[t].fic
    <3>1. esperada[t] \notin falladas => lanzada[esperada[t]].fic <= leido[esperada[t]].fic
      BY <1>1, <2>2, <2>3 DEF RecargasEnOrden
    <3> QED  BY <2>1, <2>2, <2>3, <3>1 DEF TurnoEnOrden
  <2>5. TurnoEnOrden(t)'
    BY <2>1, <2>4 DEF TurnoEnOrden
  <2> QED  BY <1>2, <1>3, <2>1, <2>5 DEF MarcasEnOrden
<1>9. CASE Cancelada(t)
  <2>1. /\ turno'[t] = "ido" /\ UNCHANGED <<recarga, lanzada, enVuelo, esperada, pedido, servido>>
        /\ \A q \in Turnos : q # t => turno'[q] = turno[q]
    BY <1>9 DEF Cancelada, Pasa, tareasGC, GCTypeOK
  <2>2. TurnoEnOrden(t)'
    BY <2>1 DEF TurnoEnOrden
  <2> QED  BY <1>2, <1>3, <2>1, <2>2 DEF MarcasEnOrden
<1>10. CASE AvisarTrasCancelar(t)
  <2>1. UNCHANGED <<recarga, lanzada, enVuelo, turno, esperada, pedido, servido>>
    BY <1>10 DEF AvisarTrasCancelar, tareasGC, turnosGC
  <2> QED  BY <1>2, <1>3, <2>1 DEF MarcasEnOrden
<1> QED  BY <1>4, <1>5, <1>6, <1>7, <1>8, <1>9, <1>10 DEF DelTurno

LEMMA MarcasSigue == GCTypeOK /\ Esperan /\ MarcasEnOrden /\ [GCNext]_GCvars => MarcasEnOrden'
<1> SUFFICES ASSUME GCTypeOK, Esperan, MarcasEnOrden, [GCNext]_GCvars PROVE MarcasEnOrden'
  OBVIOUS
<1>1. GCTypeOK'
  BY GCTipos
<1>2. CASE UNCHANGED GCvars
  BY <1>2 DEF GCvars, fuentes, tareasGC, turnosGC, MarcasEnOrden, RecargasEnOrden, ContextoEnOrden, TurnoEnOrden,
              SegunMarca, Leyo, LeyoTodo
<1> QED  BY <1>1, <1>2, MarcasTrasFuente, MarcasTrasRecarga, MarcasTrasTurno DEF GCNext

\* For any turns, reloads, changes and seals, nobody is served something older than
\* the stamp of its turn, in whatever order the reloads end.
THEOREM NadieVeLoAnterior == GCSpec => []VeSuMarca
<1>1. MarcasEnOrden => VeSuMarca
  BY DEF MarcasEnOrden, TurnoEnOrden, VeSuMarca
<1> QED  BY <1>1, GCTiposAlInicio, EsperanAlInicio, MarcasAlInicio, GCTipos, EsperanSigue, MarcasSigue, PTL DEF GCSpec

-----------------------------------------------------------------------------
(* GovernanceContext: the signal of a reload that failed under a cancellation *)

\* Once a task is clean, who was cancelled on it has been accounted for, or has a
\* callback to come.
SenalesEnOrden ==
    /\ \A r \in Recargas :
          /\ errores[r] = IF r \in emitidas THEN 1 ELSE 0
          /\ r \in falladas => recarga[r] \in {"acabada", "limpia"}
          /\ r \in emitidas => r \in falladas /\ recarga[r] = "limpia"
          /\ r \in canceladas \union emitidas => \E t \in Turnos : turno[t] = "ido" /\ esperada[t] = r
          /\ r \in canceladas /\ recarga[r] = "limpia" => \E t \in registrados : esperada[t] = r
    /\ \A t \in Turnos : turno[t] = "ido" =>
          \/ esperada[t] \in emitidas \union canceladas
          \/ recarga[esperada[t]] = "limpia" /\ esperada[t] \notin falladas

LEMMA SenalesAlInicio == GCInit => SenalesEnOrden
BY DEF GCInit, SenalesEnOrden

\* Steps that neither cancel a turn nor end a task.
LEMMA SenalesQuietas ==
    ASSUME GCTypeOK, Esperan, SenalesEnOrden, UNCHANGED senales,
           \A t \in Turnos : /\ turno'[t] = "ido" <=> turno[t] = "ido"
                             /\ turno[t] = "ido" => esperada'[t] = esperada[t],
           \A q \in Recargas : /\ recarga'[q] = "limpia" <=> recarga[q] = "limpia"
                               /\ recarga[q] = "limpia" => (q \in falladas' <=> q \in falladas)
                               /\ q \in falladas => q \in falladas'
                               /\ q \in falladas' => recarga'[q] \in {"acabada", "limpia"}
    PROVE  SenalesEnOrden'
<1> USE DEF senales
<1>1. \A t \in registrados : t \in Turnos /\ turno[t] = "ido" /\ esperada'[t] = esperada[t]
  BY DEF Esperan, GCTypeOK
<1>2. ASSUME NEW t \in Turnos, turno'[t] = "ido"
      PROVE  \/ esperada'[t] \in emitidas' \union canceladas'
             \/ recarga'[esperada'[t]] = "limpia" /\ esperada'[t] \notin falladas'
  <2>1. turno[t] = "ido" /\ esperada'[t] = esperada[t] /\ esperada[t] \in Recargas
    BY <1>2 DEF Esperan
  <2> QED  BY <2>1 DEF SenalesEnOrden
<1>3. ASSUME NEW r \in Recargas
      PROVE  /\ errores'[r] = IF r \in emitidas' THEN 1 ELSE 0
             /\ r \in falladas' => recarga'[r] \in {"acabada", "limpia"}
             /\ r \in emitidas' => r \in falladas' /\ recarga'[r] = "limpia"
             /\ r \in canceladas' \union emitidas' => \E t \in Turnos : turno'[t] = "ido" /\ esperada'[t] = r
             /\ r \in canceladas' /\ recarga'[r] = "limpia" => \E t \in registrados' : esperada'[t] = r
  BY <1>1 DEF SenalesEnOrden
<1> QED  BY <1>2, <1>3 DEF SenalesEnOrden

\* The signal of a task that is clean, or is about to be.
LEMMA SenalesAlSenalar ==
    ASSUME GCTypeOK, Esperan, SenalesEnOrden, NEW r \in Recargas, Senala(r),
           UNCHANGED <<falladas, turno, esperada>>, recarga[r] \in {"acabada", "limpia"}, recarga'[r] = "limpia",
           \A q \in Recargas : q # r => recarga'[q] = recarga[q],
           registrados' \subseteq registrados, \A t \in registrados : esperada[t] # r => t \in registrados'
    PROVE  SenalesEnOrden'
<1>1. r \in emitidas' <=> r \in emitidas \/ (r \in canceladas /\ r \in falladas)
  BY DEF Senala
<1>2. r \notin canceladas' /\ (errores'[r] = IF r \in emitidas' THEN 1 ELSE 0)
  BY DEF Senala, SenalesEnOrden, GCTypeOK
<1>3. \A q \in Recargas : q # r => /\ q \in emitidas' <=> q \in emitidas
                                   /\ q \in canceladas' <=> q \in canceladas
                                   /\ errores'[q] = errores[q]
  BY DEF Senala, GCTypeOK
<1>4. ASSUME NEW q \in Recargas
      PROVE  /\ errores'[q] = IF q \in emitidas' THEN 1 ELSE 0
             /\ q \in falladas' => recarga'[q] \in {"acabada", "limpia"}
             /\ q \in emitidas' => q \in falladas' /\ recarga'[q] = "limpia"
             /\ q \in canceladas' \union emitidas' => \E t \in Turnos : turno'[t] = "ido" /\ esperada'[t] = q
             /\ q \in canceladas' /\ recarga'[q] = "limpia" => \E t \in registrados' : esperada'[t] = q
  <2>1. CASE q = r
    BY <1>1, <1>2, <2>1 DEF SenalesEnOrden
  <2>2. CASE q # r
    BY <1>3, <2>2 DEF SenalesEnOrden
  <2> QED  BY <2>1, <2>2
<1>5. ASSUME NEW t \in Turnos, turno'[t] = "ido"
      PROVE  \/ esperada'[t] \in emitidas' \union canceladas'
             \/ recarga'[esperada'[t]] = "limpia" /\ esperada'[t] \notin falladas'
  <2>1. esperada[t] \in Recargas /\ \/ esperada[t] \in emitidas \union canceladas
                                    \/ recarga[esperada[t]] = "limpia" /\ esperada[t] \notin falladas
    BY <1>5 DEF Esperan, SenalesEnOrden
  <2>2. CASE esperada[t] = r
    BY <1>1, <2>1, <2>2
  <2>3. CASE esperada[t] # r
    BY <1>3, <2>1, <2>3
  <2> QED  BY <2>2, <2>3
<1> QED  BY <1>4, <1>5 DEF SenalesEnOrden

LEMMA SenalesAlCancelar ==
    ASSUME GCTypeOK, Esperan, SenalesEnOrden, NEW t \in Turnos, Cancelada(t)
    PROVE  SenalesEnOrden'
<1>1. /\ turno[t] = "cancelado" /\ turno'[t] = "ido" /\ esperada[t] \in Recargas
      /\ \A q \in Turnos : q # t => turno'[q] = turno[q]
      /\ UNCHANGED <<recarga, falladas, esperada, emitidas, errores>>
  BY DEF Cancelada, Pasa, Esperan, GCTypeOK, tareasGC
<1>2. \/ esperada[t] \in emitidas /\ canceladas' = canceladas /\ registrados' = registrados
      \/ canceladas' = canceladas \union {esperada[t]} /\ registrados' = registrados \union {t}
  BY DEF Cancelada, Registra
<1>3. ASSUME NEW r \in Recargas
      PROVE  /\ errores'[r] = IF r \in emitidas' THEN 1 ELSE 0
             /\ r \in falladas' => recarga'[r] \in {"acabada", "limpia"}
             /\ r \in emitidas' => r \in falladas' /\ recarga'[r] = "limpia"
             /\ r \in canceladas' \union emitidas' => \E q \in Turnos : turno'[q] = "ido" /\ esperada'[q] = r
             /\ r \in canceladas' /\ recarga'[r] = "limpia" => \E q \in registrados' : esperada'[q] = r
  BY <1>1, <1>2 DEF SenalesEnOrden
<1>4. ASSUME NEW q \in Turnos, turno'[q] = "ido"
      PROVE  \/ esperada'[q] \in emitidas' \union canceladas'
             \/ recarga'[esperada'[q]] = "limpia" /\ esperada'[q] \notin falladas'
  BY <1>1, <1>2, <1>4 DEF SenalesEnOrden
<1> QED  BY <1>3, <1>4 DEF SenalesEnOrden

LEMMA SenalesSigue == GCTypeOK /\ Esperan /\ SenalesEnOrden /\ [GCNext]_GCvars => SenalesEnOrden'
<1> SUFFICES ASSUME GCTypeOK, Esperan, SenalesEnOrden, [GCNext]_GCvars PROVE SenalesEnOrden'
  OBVIOUS
<1>0. \A q \in Recargas : q \in falladas => recarga[q] \in {"acabada", "limpia"}
  BY DEF SenalesEnOrden
<1>1. CASE DeFuente \/ UNCHANGED GCvars
  <2>1. UNCHANGED <<tareasGC, turnosGC, senales>>
    BY <1>1 DEF DeFuente, ConfirmarCatalogo, Sellar, CambiarFichero, PermitirFichero, GCvars
  <2>2. UNCHANGED <<recarga, falladas, turno, esperada, senales>>
    BY <2>1 DEF tareasGC, turnosGC
  <2> QED  BY <1>0, <2>2, SenalesQuietas
<1>2. ASSUME NEW r \in Recargas, DeRecarga(r) PROVE SenalesEnOrden'
  <2>1. CASE LeerCatalogo(r) \/ LeerFicheros(r) \/ Guardar(r) \/ FallarRecarga(r)
    <3>1. /\ UNCHANGED <<turno, esperada, senales>>
          /\ recarga[r] \in {"consulta", "lectura", "leida"} /\ recarga'[r] \in {"lectura", "leida", "acabada"}
          /\ \A q \in Recargas : q # r => recarga'[q] = recarga[q]
          /\ falladas' = falladas \/ (falladas' = falladas \union {r} /\ recarga'[r] = "acabada")
      BY <2>1 DEF LeerCatalogo, LeerFicheros, Guardar, FallarRecarga, Avanza, GCTypeOK, turnosGC
    <3> QED  BY <1>0, <3>1, SenalesQuietas
  <2>2. CASE Hecha(r)
    <3>1. /\ UNCHANGED <<falladas, turno, esperada, registrados>> /\ Senala(r)
          /\ recarga[r] = "acabada" /\ recarga'[r] = "limpia"
          /\ \A q \in Recargas : q # r => recarga'[q] = recarga[q]
      BY <2>2 DEF Hecha, Avanza, GCTypeOK, turnosGC
    <3> QED  BY <3>1, SenalesAlSenalar
  <2> QED  BY <1>2, <2>1, <2>2 DEF DeRecarga
<1>3. ASSUME NEW t \in Turnos, DelTurno(t) PROVE SenalesEnOrden'
  <2>1. CASE ServirContexto(t) \/ Compartir(t)
    <3>1. /\ turno[t] # "ido" /\ turno'[t] # "ido" /\ UNCHANGED <<recarga, falladas, senales>>
          /\ \A q \in Turnos : q # t => turno'[q] = turno[q] /\ esperada'[q] = esperada[q]
      BY <2>1, AlEmpezar DEF ServirContexto, Compartir, GCTypeOK, tareasGC
    <3> QED  BY <1>0, <3>1, SenalesQuietas
  <2>2. ASSUME NEW r \in Recargas, Lanzar(t, r) PROVE SenalesEnOrden'
    <3>1. /\ turno[t] # "ido" /\ turno'[t] # "ido" /\ UNCHANGED <<falladas, senales>>
          /\ \A q \in Turnos : q # t => turno'[q] = turno[q] /\ esperada'[q] = esperada[q]
      BY <2>2, AlEmpezar DEF Lanzar, GCTypeOK
    <3>2. /\ recarga[r] = "libre" /\ recarga'[r] = "consulta"
          /\ \A q \in Recargas : q # r => recarga'[q] = recarga[q]
      BY <2>2 DEF Lanzar, Avanza, GCTypeOK
    <3> QED  BY <1>0, <3>1, <3>2, SenalesQuietas
  <2>3. CASE Relevar(t) \/ Volver(t) \/ Cancelar(t)
    <3>1. /\ turno[t] # "ido" /\ turno'[t] # "ido" /\ UNCHANGED <<recarga, falladas, esperada, senales>>
          /\ \A q \in Turnos : q # t => turno'[q] = turno[q]
      BY <2>3 DEF Relevar, Volver, Cancelar, Pasa, GCTypeOK, tareasGC
    <3> QED  BY <1>0, <3>1, SenalesQuietas
  <2>4. CASE Cancelada(t)
    BY <2>4, SenalesAlCancelar
  <2>5. CASE AvisarTrasCancelar(t)
    <3>1. /\ UNCHANGED <<recarga, falladas, turno, esperada>> /\ Senala(esperada[t]) /\ esperada[t] \in Recargas
          /\ recarga[esperada[t]] = "limpia" /\ registrados' = registrados \ {t}
      BY <2>5 DEF AvisarTrasCancelar, tareasGC, turnosGC, Esperan, GCTypeOK
    <3> QED  BY <3>1, SenalesAlSenalar
  <2> QED  BY <1>3, <2>1, <2>2, <2>3, <2>4, <2>5 DEF DelTurno
<1> QED  BY <1>1, <1>2, <1>3 DEF GCNext

\* For any turns and reloads, one ERROR and no more for a reload that failed with a turn
\* cancelled, whenever it was cancelled.
THEOREM UnErrorPorRecarga == GCSpec => []UnaSenal
<1>1. GCTypeOK /\ Esperan /\ SenalesEnOrden => UnaSenal
  <2> SUFFICES ASSUME GCTypeOK, Esperan, SenalesEnOrden, NEW r \in Recargas, EnReposo(r)
               PROVE  /\ errores[r] = IF r \in falladas /\ \E t \in Turnos : esperada[t] = r /\ turno[t] = "ido"
                                      THEN 1 ELSE 0
                      /\ r \notin canceladas
    BY DEF UnaSenal
  <2>1. recarga[r] = "limpia" /\ \A t \in registrados : esperada[t] # r
    BY DEF EnReposo, Esperan, GCTypeOK
  <2>2. r \notin canceladas
    BY <2>1 DEF SenalesEnOrden
  <2>3. r \in emitidas <=> r \in falladas /\ \E t \in Turnos : esperada[t] = r /\ turno[t] = "ido"
    BY <2>2 DEF SenalesEnOrden
  <2> QED  BY <2>2, <2>3 DEF SenalesEnOrden
<1> QED  BY <1>1, GCTiposAlInicio, EsperanAlInicio, SenalesAlInicio, GCTipos, EsperanSigue, SenalesSigue, PTL DEF GCSpec
=============================================================================
