------------------------- MODULE CredentialAdminProofs -------------------------
(***************************************************************************)
(* Proofs about CredentialAdmin, for any requests, activations, limit and  *)
(* number of keys.                                                         *)
(***************************************************************************)
EXTENDS CredentialAdmin, FiniteSetTheorems, TLAPS

-----------------------------------------------------------------------------
(* Types *)

LEMMA TiposAlInicio == Init => TypeOK
<1>1. 1 \in Llaves
  BY CredencialesSupuestos DEF CredencialesSupuestos, Llaves
<1> QED  BY <1>1 DEF Init, TypeOK, Pasos

\* Va keeps the types of the requests.
LEMMA VaTipada ==
    ASSUME TypeOK, NEW r \in Peticiones, NEW paso \in Pasos, NEW ks \in SUBSET Llaves,
           Va(r, paso, ks)
    PROVE  pc' \in [Peticiones -> Pasos] /\ suyas' \in [Peticiones -> SUBSET Llaves]
BY DEF TypeOK, Va

LEMMA TiposDePeticion ==
    ASSUME TypeOK, NEW r \in Peticiones, PasoDePeticion(r)
    PROVE  TypeOK'
<1>0. suyas[r] \in SUBSET Llaves /\ Activas \in SUBSET Llaves /\ pc[r] \in Pasos
  BY DEF TypeOK, Activas
<1>1. CASE RotarContar(r)
  BY <1>1, VaTipada DEF RotarContar, TypeOK, Pasos
<1>2. CASE RotarInsertar(r)
  <2>1. PICK k \in Llaves : estado' = [estado EXCEPT ![k] = "active"] /\ Va(r, "auditar_rotar", {k})
    BY <1>2 DEF RotarInsertar
  <2> QED  BY <1>2, <2>1, VaTipada DEF RotarInsertar, TypeOK, Pasos
<1>3. CASE Auditar(r)
  <2>1. PICK k \in suyas[r] : /\ auditadas' = auditadas \cup {<<k, pc[r]>>}
                              /\ Va(r, IF suyas[r] = {k} THEN "fuera" ELSE pc[r], suyas[r] \ {k})
    BY <1>3 DEF Auditar
  <2>2. pc' \in [Peticiones -> Pasos] /\ suyas' \in [Peticiones -> SUBSET Llaves]
    BY <1>0, <2>1, VaTipada DEF Pasos
  <2> QED  BY <1>0, <1>3, <2>1, <2>2 DEF Auditar, TypeOK
<1>4. CASE RevocarUnaMirar(r)
  <2>1. PICK k \in Activas : Va(r, "mirar_motor", {k})
    BY <1>4 DEF RevocarUnaMirar
  <2> QED  BY <1>0, <1>4, <2>1, VaTipada DEF RevocarUnaMirar, TypeOK, Pasos
<1>5. CASE MirarMotor(r)
  BY <1>0, <1>5, VaTipada DEF MirarMotor, Sigue, TypeOK, Pasos
<1>6. CASE RevocarTodasLeer(r)
  BY <1>0, <1>6, VaTipada DEF RevocarTodasLeer, TypeOK, Pasos
<1>7. CASE Revocar(r)
  <2>1. pc' \in [Peticiones -> Pasos] /\ suyas' \in [Peticiones -> SUBSET Llaves]
    BY <1>0, <1>7, VaTipada DEF Revocar, Sigue, Pasos
  <2> QED  BY <1>7, <2>1 DEF Revocar, TypeOK
<1>8. CASE Cortar(r)
  BY <1>8, VaTipada DEF Cortar, TypeOK, Pasos
<1> QED  BY <1>1, <1>2, <1>3, <1>4, <1>5, <1>6, <1>7, <1>8 DEF PasoDePeticion

LEMMA TiposSeConservan == TypeOK /\ [Next]_vars => TypeOK'
<1> SUFFICES ASSUME TypeOK, [Next]_vars PROVE TypeOK'
  OBVIOUS
<1>1. ASSUME NEW r \in Peticiones, PasoDePeticion(r) PROVE TypeOK'
  BY <1>1, TiposDePeticion
<1>2. ASSUME NEW a \in Activaciones, PasoDeActivacion(a) PROVE TypeOK'
  BY <1>2 DEF PasoDeActivacion, ActivarTomar, ActivarConfirmar, ActivarDeshacer, Pinchar,
              Suelta, TypeOK, Activas
<1>3. CASE UNCHANGED vars
  BY <1>3 DEF vars, TypeOK
<1> QED  BY <1>1, <1>2, <1>3 DEF Next

\* Every reachable state is well typed: in particular the state 'rotating' the
\* column admits is never used.
THEOREM TiposCorrectos == Spec => []TypeOK
BY TiposAlInicio, TiposSeConservan, PTL DEF Spec

-----------------------------------------------------------------------------
(* What an activation pins *)

\* The holder of the locks chose the newest active key, and nothing changed since.
Elegida == \A a \in Activaciones : candado = a => EsLaMasNueva(elegida[a])

LEMMA ElegidaSigue == TypeOK /\ Elegida /\ [Next]_vars => Elegida'
<1> SUFFICES ASSUME TypeOK, Elegida, [Next]_vars PROVE Elegida'
  OBVIOUS
<1>1. ASSUME NEW r \in Peticiones, PasoDePeticion(r) PROVE Elegida'
  <2>1. UNCHANGED <<candado, elegida>> /\ (candado = Nadie \/ estado' = estado)
    BY <1>1 DEF PasoDePeticion, RotarContar, RotarInsertar, Auditar, RevocarUnaMirar,
                MirarMotor, RevocarTodasLeer, Revocar, Cortar
  <2>2. \A a \in Activaciones : a # Nadie
    BY CredencialesSupuestos DEF CredencialesSupuestos
  <2> QED  BY <2>1, <2>2 DEF Elegida, EsLaMasNueva, Activas
<1>2. ASSUME NEW a \in Activaciones, PasoDeActivacion(a) PROVE Elegida'
  <2>1. estado' = estado /\ \A b \in Activaciones : b # Nadie
    BY <1>2, CredencialesSupuestos
       DEF PasoDeActivacion, ActivarTomar, ActivarConfirmar, ActivarDeshacer, CredencialesSupuestos
  <2>2. CASE ActivarTomar(a)
    <3>1. PICK k \in Activas : EsLaMasNueva(k) /\ elegida' = [elegida EXCEPT ![a] = k]
      BY <2>2 DEF ActivarTomar
    <3>2. candado' = a /\ elegida'[a] = k
      BY <2>2, <3>1 DEF ActivarTomar, TypeOK
    <3> QED  BY <2>1, <3>1, <3>2 DEF Elegida, EsLaMasNueva, Activas
  <2>3. CASE ActivarConfirmar(a) \/ ActivarDeshacer(a)
    BY <2>1, <2>3 DEF ActivarConfirmar, ActivarDeshacer, Suelta, Elegida
  <2> QED  BY <1>2, <2>2, <2>3 DEF PasoDeActivacion
<1>3. CASE UNCHANGED vars
  BY <1>3 DEF vars, Elegida, EsLaMasNueva, Activas
<1> QED  BY <1>1, <1>2, <1>3 DEF Next

\* The engine is only ever pinned to a key that is active and the newest.
THEOREM ElMotorPinchaLaMasNueva == Spec => MotorConLaMasNueva
<1> DEFINE Paso == \A k \in Llaves : (motor' = k /\ motor # k) => EsLaMasNueva(k)
<1>1. Init => Elegida
  BY CredencialesSupuestos DEF Init, Elegida, CredencialesSupuestos
<1>2. TypeOK /\ Elegida /\ [Next]_vars => [Paso]_vars
  <2> SUFFICES ASSUME TypeOK, Elegida, Next PROVE Paso
    OBVIOUS
  <2>1. ASSUME NEW r \in Peticiones, PasoDePeticion(r) PROVE motor' = motor
    BY <2>1 DEF PasoDePeticion, RotarContar, RotarInsertar, Auditar, RevocarUnaMirar,
                MirarMotor, RevocarTodasLeer, Revocar, Cortar
  <2>2. ASSUME NEW a \in Activaciones, PasoDeActivacion(a)
        PROVE  motor' = motor \/ EsLaMasNueva(motor')
    BY <2>2 DEF PasoDeActivacion, ActivarTomar, ActivarConfirmar, ActivarDeshacer, Pinchar, Elegida
  <2> QED  BY <2>1, <2>2 DEF Next
<1> QED  BY <1>1, <1>2, ElegidaSigue, TiposAlInicio, TiposSeConservan, PTL
            DEF Spec, MotorConLaMasNueva

-----------------------------------------------------------------------------
(* The overlap.  A rotation that has counted and not inserted is a promise;  *)
(* active keys and promises together are bounded, since a promise is made    *)
(* with at most MAX_ACTIVE - 1 keys and there is one per request at most.    *)

Insertando == {r \in Peticiones : pc[r] = "insertar"}

Cota == Cardinality(Activas) + Cardinality(Insertando) <= MAX_ACTIVE - 1 + Cardinality(Peticiones)

LEMMA Cuentas ==
    /\ IsFiniteSet(Activas) /\ IsFiniteSet(Insertando) /\ IsFiniteSet(Peticiones)
    /\ Cardinality(Activas) \in Nat /\ Cardinality(Insertando) \in Nat
    /\ Cardinality(Peticiones) \in Nat /\ MAX_ACTIVE \in Nat
    /\ Cardinality(Insertando) <= Cardinality(Peticiones)
<1>1. IsFiniteSet(Llaves) /\ IsFiniteSet(Peticiones) /\ MAX_ACTIVE \in Nat
  BY CredencialesSupuestos, FS_Interval DEF CredencialesSupuestos, Llaves
<1>2. Activas \subseteq Llaves /\ Insertando \subseteq Peticiones
  BY DEF Activas, Insertando
<1> QED  BY <1>1, <1>2, FS_Subset, FS_CardinalityType

\* Fewer active keys and fewer promises keep the bound.
LEMMA CotaBaja ==
    ASSUME Cota, Activas' \subseteq Activas, Insertando' \subseteq Insertando
    PROVE  Cota'
<1>1. /\ Cardinality(Activas') <= Cardinality(Activas)
      /\ Cardinality(Insertando') <= Cardinality(Insertando)
      /\ Cardinality(Activas') \in Nat /\ Cardinality(Insertando') \in Nat
  BY Cuentas, FS_Subset, FS_CardinalityType
<1> QED  BY <1>1, Cuentas DEF Cota

LEMMA CotaAlInicio == Init => Cota
<1> SUFFICES ASSUME Init PROVE Cota
  OBVIOUS
<1>1. Activas = {1} /\ Insertando = {}
  BY CredencialesSupuestos DEF Init, Activas, Insertando, Llaves, CredencialesSupuestos
<1>2. Cardinality(Activas) = 1 /\ Cardinality(Insertando) = 0
  BY <1>1, FS_Singleton, FS_EmptySet
<1>3. Cardinality(Peticiones) >= 1
  BY Cuentas, FS_EmptySet, CredencialesSupuestos DEF CredencialesSupuestos
<1> QED  BY <1>2, <1>3, Cuentas, CredencialesSupuestos DEF Cota, CredencialesSupuestos

LEMMA CotaSigue == TypeOK /\ Cota /\ [Next]_vars => Cota'
<1> SUFFICES ASSUME TypeOK, Cota, [Next]_vars PROVE Cota'
  OBVIOUS
<1>1. ASSUME NEW r \in Peticiones, PasoDePeticion(r) PROVE Cota'
  <2>1. CASE RotarContar(r)
    <3>1. Activas' = Activas /\ Cardinality(Activas) <= MAX_ACTIVE - 1
      BY <2>1, Cuentas DEF RotarContar, Activas, HayLugar
    <3>2. /\ IsFiniteSet(Peticiones) /\ Insertando' \subseteq Peticiones
      BY Cuentas DEF Insertando
    <3>3. Cardinality(Insertando') <= Cardinality(Peticiones) /\ Cardinality(Insertando') \in Nat
      BY <3>2, FS_Subset, FS_CardinalityType
    <3> QED  BY <3>1, <3>3, Cuentas DEF Cota
  <2>2. CASE RotarInsertar(r)
    <3>1. PICK k \in Llaves : estado' = [estado EXCEPT ![k] = "active"] /\ Va(r, "auditar_rotar", {k})
      BY <2>2 DEF RotarInsertar
    <3>2. Activas' = Activas \cup {k}
      BY <3>1 DEF Activas, TypeOK
    <3>3. r \in Insertando /\ Insertando' = Insertando \ {r}
      BY <2>2, <3>1 DEF RotarInsertar, Insertando, Va, TypeOK
    <3>4. Cardinality(Activas') <= Cardinality(Activas) + 1 /\ Cardinality(Activas') \in Nat
      <4>1. IsFiniteSet(Activas) /\ Cardinality(Activas) \in Nat
        BY Cuentas
      <4>2. Cardinality(Activas \cup {k}) \in {Cardinality(Activas), Cardinality(Activas) + 1}
        BY <4>1, FS_AddElement
      <4> QED  BY <3>2, <4>1, <4>2
    <3>5. Cardinality(Insertando') = Cardinality(Insertando) - 1
      BY <3>3, Cuentas, FS_RemoveElement
    <3> QED  BY <3>4, <3>5, Cuentas DEF Cota
  <2>3. CASE Auditar(r) \/ RevocarUnaMirar(r) \/ MirarMotor(r) \/ RevocarTodasLeer(r)
             \/ Revocar(r) \/ Cortar(r)
    <3>1. Activas' \subseteq Activas
      BY <2>3 DEF Auditar, RevocarUnaMirar, MirarMotor, RevocarTodasLeer, Revocar, Cortar, Activas
    <3>2. pc'[r] # "insertar" /\ \A x \in Peticiones \ {r} : pc'[x] = pc[x]
      BY <2>3 DEF Auditar, RevocarUnaMirar, MirarMotor, RevocarTodasLeer, Revocar, Cortar,
                  Va, Sigue, TypeOK
    <3>3. Insertando' \subseteq Insertando
      BY <3>2 DEF Insertando
    <3> QED  BY <3>1, <3>3, CotaBaja
  <2> QED  BY <1>1, <2>1, <2>2, <2>3 DEF PasoDePeticion
<1>2. ASSUME NEW a \in Activaciones, PasoDeActivacion(a) PROVE Cota'
  <2>1. UNCHANGED <<estado, pc>>
    BY <1>2 DEF PasoDeActivacion, ActivarTomar, ActivarConfirmar, ActivarDeshacer
  <2> QED  BY <2>1, CotaBaja DEF Activas, Insertando
<1>3. CASE UNCHANGED vars
  BY <1>3, CotaBaja DEF vars, Activas, Insertando
<1> QED  BY <1>1, <1>2, <1>3 DEF Next

\* The real bound of the overlap, for any number of concurrent requests.
THEOREM ElSolapamientoTieneCota == Spec => []CotaDeActivas
<1>1. Cota => CotaDeActivas
  BY Cuentas DEF Cota, CotaDeActivas
<1> QED  BY <1>1, CotaAlInicio, CotaSigue, TiposAlInicio, TiposSeConservan, PTL DEF Spec

-----------------------------------------------------------------------------
(* The audit *)

\* What a request is about to audit has happened, and the keys it works on were
\* inserted.
PorAuditar(r) ==
    \A k \in suyas[r] :
        /\ pc[r] # "fuera" /\ pc[r] # "insertar" => estado[k] # "nueva"
        /\ pc[r] = "auditar_revocar" => estado[k] = "revoked"

InvDeAuditoria == TypeOK /\ AuditoriaVeraz /\ \A r \in Peticiones : PorAuditar(r)

\* Keys only go from nueva to active to revoked.
Avanza ==
    \A k \in Llaves : /\ estado[k] # "nueva" => estado'[k] # "nueva"
                      /\ estado[k] = "revoked" => estado'[k] = "revoked"

LEMMA AuditoriaSigue ==
    ASSUME InvDeAuditoria, TypeOK', Avanza, NEW r \in Peticiones, PorAuditar(r)',
           \A x \in Peticiones \ {r} : pc'[x] = pc[x] /\ suyas'[x] = suyas[x],
           \/ auditadas' = auditadas
           \/ \E k \in suyas[r] : /\ pc[r] \in {"auditar_rotar", "auditar_revocar"}
                                  /\ auditadas' = auditadas \cup {<<k, pc[r]>>}
    PROVE  InvDeAuditoria'
<1>1. ASSUME NEW x \in Peticiones PROVE PorAuditar(x)'
  <2>1. suyas[x] \subseteq Llaves /\ PorAuditar(x)
    BY DEF InvDeAuditoria, TypeOK
  <2> QED  BY <2>1 DEF PorAuditar, Avanza
<1>2. AuditoriaVeraz'
  <2>1. AuditoriaVeraz /\ PorAuditar(r)
    BY DEF InvDeAuditoria
  <2>2. CASE auditadas' = auditadas
    BY <2>1, <2>2 DEF AuditoriaVeraz, Avanza
  <2>3. ASSUME NEW k \in suyas[r], pc[r] \in {"auditar_rotar", "auditar_revocar"},
               auditadas' = auditadas \cup {<<k, pc[r]>>}
        PROVE  AuditoriaVeraz'
    <3>1. /\ estado[k] # "nueva" /\ (pc[r] = "auditar_revocar" => estado[k] = "revoked")
          /\ k \in Llaves
      BY <2>1, <2>3 DEF PorAuditar, InvDeAuditoria, TypeOK
    <3>2. ASSUME NEW x \in Llaves
          PROVE  /\ <<x, "auditar_revocar">> \in auditadas' => estado'[x] = "revoked"
                 /\ <<x, "auditar_rotar">> \in auditadas' => estado'[x] # "nueva"
      BY <2>1, <2>3, <3>1 DEF AuditoriaVeraz, Avanza
    <3> QED  BY <3>2 DEF AuditoriaVeraz
  <2> QED  BY <2>2, <2>3
<1> QED  BY <1>1, <1>2 DEF InvDeAuditoria

LEMMA AuditoriaInductiva == InvDeAuditoria /\ [Next]_vars => InvDeAuditoria'
<1> SUFFICES ASSUME InvDeAuditoria, [Next]_vars PROVE InvDeAuditoria'
  OBVIOUS
<1>0. TypeOK /\ TypeOK' /\ \A r \in Peticiones : PorAuditar(r) /\ suyas[r] \subseteq Llaves
  BY TiposSeConservan DEF InvDeAuditoria, TypeOK
<1>1. ASSUME NEW r \in Peticiones, PasoDePeticion(r) PROVE InvDeAuditoria'
  <2>0. \A x \in Peticiones \ {r} : pc'[x] = pc[x] /\ suyas'[x] = suyas[x]
    BY <1>0, <1>1 DEF PasoDePeticion, RotarContar, RotarInsertar, Auditar, RevocarUnaMirar,
                      MirarMotor, RevocarTodasLeer, Revocar, Cortar, Va, Sigue, TypeOK
  <2>1. CASE RotarContar(r) \/ Cortar(r)
    <3>1. suyas'[r] = {} /\ UNCHANGED <<estado, auditadas>>
      BY <1>0, <2>1 DEF RotarContar, Cortar, Va, TypeOK
    <3> QED  BY <1>0, <2>0, <3>1, AuditoriaSigue DEF PorAuditar, Avanza
  <2>2. CASE RotarInsertar(r)
    <3>1. PICK k \in Llaves : /\ \A x \in Llaves : estado[x] = "nueva" <=> x >= k
                              /\ estado' = [estado EXCEPT ![k] = "active"]
                              /\ Va(r, "auditar_rotar", {k})
      BY <2>2 DEF RotarInsertar
    <3>2. estado[k] = "nueva"
      BY <3>1 DEF Llaves
    <3>3. Avanza
      BY <1>0, <3>1, <3>2 DEF Avanza, TypeOK
    <3>4. PorAuditar(r)'
      BY <1>0, <3>1 DEF PorAuditar, Va, TypeOK
    <3> QED  BY <1>0, <2>0, <2>2, <3>3, <3>4, AuditoriaSigue DEF RotarInsertar
  <2>3. CASE Auditar(r)
    <3>1. PICK k \in suyas[r] : /\ auditadas' = auditadas \cup {<<k, pc[r]>>}
                                /\ Va(r, IF suyas[r] = {k} THEN "fuera" ELSE pc[r], suyas[r] \ {k})
      BY <2>3 DEF Auditar
    <3>2. UNCHANGED estado /\ pc[r] \in {"auditar_rotar", "auditar_revocar"}
      BY <2>3 DEF Auditar
    <3>3. suyas'[r] \subseteq suyas[r] /\ pc'[r] \in {"fuera", pc[r]}
      BY <1>0, <3>1 DEF Va, TypeOK
    <3>4. PorAuditar(r)'
      BY <1>0, <3>2, <3>3 DEF PorAuditar
    <3> QED  BY <1>0, <2>0, <3>1, <3>2, <3>4, AuditoriaSigue DEF Avanza
  <2>4. CASE RevocarUnaMirar(r) \/ RevocarTodasLeer(r)
    <3>1. suyas'[r] \subseteq Activas /\ pc'[r] \in {"mirar_motor", "revocar_todas"}
          /\ UNCHANGED <<estado, auditadas>>
      BY <1>0, <2>4 DEF RevocarUnaMirar, RevocarTodasLeer, Va, TypeOK
    <3>2. PorAuditar(r)'
      BY <3>1 DEF PorAuditar, Activas
    <3> QED  BY <1>0, <2>0, <3>1, <3>2, AuditoriaSigue DEF Avanza
  <2>5. CASE MirarMotor(r)
    <3>1. suyas'[r] \subseteq suyas[r] /\ pc'[r] \in {"fuera", "revocar"}
          /\ pc[r] = "mirar_motor" /\ UNCHANGED <<estado, auditadas>>
      BY <1>0, <2>5 DEF MirarMotor, Va, Sigue, TypeOK
    <3>2. PorAuditar(r)'
      BY <1>0, <3>1 DEF PorAuditar
    <3> QED  BY <1>0, <2>0, <3>1, <3>2, AuditoriaSigue DEF Avanza
  <2>6. CASE Revocar(r)
    <3>1. /\ suyas'[r] = suyas[r] /\ pc'[r] = "auditar_revocar" /\ auditadas' = auditadas
          /\ pc[r] \in {"revocar", "revocar_todas"}
      BY <1>0, <2>6 DEF Revocar, Va, Sigue, TypeOK
    <3>2. Avanza
      BY <1>0, <2>6 DEF Revocar, Avanza, TypeOK, Activas
    <3>3. \A k \in suyas[r] : estado[k] # "nueva"
      BY <1>0, <3>1 DEF PorAuditar
    <3>4. \A k \in suyas[r] : estado'[k] = "revoked"
      BY <1>0, <2>6, <3>1, <3>3 DEF Revocar, TypeOK, Activas
    <3>5. PorAuditar(r)'
      BY <3>1, <3>4 DEF PorAuditar
    <3> QED  BY <1>0, <2>0, <3>1, <3>2, <3>5, AuditoriaSigue
  <2> QED  BY <1>1, <2>1, <2>2, <2>3, <2>4, <2>5, <2>6 DEF PasoDePeticion
<1>2. CASE UNCHANGED <<estado, auditadas, pc, suyas>>
  BY <1>0, <1>2 DEF InvDeAuditoria, AuditoriaVeraz, PorAuditar
<1>3. ASSUME NEW a \in Activaciones, PasoDeActivacion(a) PROVE InvDeAuditoria'
  BY <1>2, <1>3 DEF PasoDeActivacion, ActivarTomar, ActivarConfirmar, ActivarDeshacer
<1> QED  BY <1>1, <1>2, <1>3 DEF Next, vars

\* What the audit says happened did happen, wherever requests are cut.
THEOREM LaAuditoriaNoMiente == Spec => []AuditoriaVeraz
<1>1. Init => InvDeAuditoria
  BY TiposAlInicio DEF Init, InvDeAuditoria, AuditoriaVeraz, PorAuditar
<1>2. InvDeAuditoria => AuditoriaVeraz
  BY DEF InvDeAuditoria
<1> QED  BY <1>1, <1>2, AuditoriaInductiva, PTL DEF Spec
=============================================================================
