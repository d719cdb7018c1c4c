----------------------------- MODULE CredentialAdmin -----------------------------
(***************************************************************************)
(* The provider's keys: rotation and revocation of                         *)
(* backend/api/admin/credentials.py, and the activation of an Office       *)
(* engine, backend/virtual_office/engine_activation_cli.py, which pins one *)
(* of them.                                                                *)
(*                                                                         *)
(* The endpoints take a connection of the pool, which is autocommit, and   *)
(* do not open a transaction: each statement commits by itself, a FOR      *)
(* UPDATE holds its lock for that statement only, and conn.commit() has    *)
(* nothing to commit.  Each statement is therefore a step.  The activation *)
(* has a connection of its own, without autocommit: its locks on the       *)
(* provider, the active keys and the engine last until its commit, and the *)
(* statements of the endpoints on those rows wait for it.                  *)
(***************************************************************************)
EXTENDS Integers, FiniteSets

CONSTANTS
    Peticiones,     \* requests in flight
    Activaciones,   \* runs of the activation command
    Nadie,          \* no activation holds the locks
    MAX_ACTIVE,     \* _MAX_ACTIVE_PER_PROVIDER
    MaxLlaves,      \* bound: keys ever inserted
    HayCortes       \* may a request be cut between two statements?

Llaves == 1 .. MaxLlaves

ASSUME CredencialesSupuestos ==
    /\ MAX_ACTIVE \in Nat \ {0} /\ MaxLlaves \in Nat \ {0}
    /\ Nadie \notin Activaciones /\ HayCortes \in BOOLEAN
    /\ IsFiniteSet(Peticiones) /\ Peticiones # {}

VARIABLES
    estado,      \* credential.state of each key; "nueva" is not inserted yet
    motor,       \* the key pinned by the enabled engine; 0 when there is none
    auditadas,   \* rows of credential_audit: <<key, action>>
    candado,     \* the activation that holds the locks
    elegida,     \* the key each activation chose
    pc, suyas    \* where each request is, and the keys it works on

vars == <<estado, motor, auditadas, candado, elegida, pc, suyas>>

Activas == {k \in Llaves : estado[k] = "active"}
EsLaMasNueva(k) == k \in Activas /\ \A x \in Activas : x <= k

Init ==
    /\ estado = [k \in Llaves |-> IF k = 1 THEN "active" ELSE "nueva"]
    /\ motor = 0 /\ auditadas = {}
    /\ candado = Nadie /\ elegida = [a \in Activaciones |-> 0]
    /\ pc = [r \in Peticiones |-> "fuera"] /\ suyas = [r \in Peticiones |-> {}]

\* The request goes to its next statement, or ends.
Va(r, paso, ks) ==
    /\ pc' = [pc EXCEPT ![r] = paso]
    /\ suyas' = [suyas EXCEPT ![r] = ks]

Sigue(r, paso) == Va(r, paso, suyas[r])

-----------------------------------------------------------------------------
(* rotate_credential *)

\* Mutant of HayLugar: the count and its limit are compared with `>'.
HayLugarDeMas == Cardinality(Activas) <= MAX_ACTIVE

HayLugar == Cardinality(Activas) < MAX_ACTIVE

\* The provider's row and the count of its active keys; no room is a 409.
RotarContar(r) ==
    /\ pc[r] = "fuera" /\ candado = Nadie
    /\ HayLugar
    /\ Va(r, "insertar", {})
    /\ UNCHANGED <<estado, motor, auditadas, candado, elegida>>

\* The INSERT.  Its foreign key reads the provider's row, which an activation
\* may have locked.
RotarInsertar(r) ==
    /\ pc[r] = "insertar" /\ candado = Nadie
    /\ \E k \in Llaves :
         /\ \A x \in Llaves : estado[x] = "nueva" <=> x >= k
         /\ estado' = [estado EXCEPT ![k] = "active"]
         /\ Va(r, "auditar_rotar", {k})
    /\ UNCHANGED <<motor, auditadas, candado, elegida>>

\* _audit; a request that revoked several keys audits them one by one.
Auditar(r) ==
    /\ pc[r] \in {"auditar_rotar", "auditar_revocar"}
    /\ \E k \in suyas[r] :
         /\ auditadas' = auditadas \cup {<<k, pc[r]>>}
         /\ Va(r, IF suyas[r] = {k} THEN "fuera" ELSE pc[r], suyas[r] \ {k})
    /\ UNCHANGED <<estado, motor, candado, elegida>>

-----------------------------------------------------------------------------
(* revoke_credential_by_id, revoke_credential *)

\* The provider's row and the key, which must be active.
RevocarUnaMirar(r) ==
    /\ pc[r] = "fuera" /\ candado = Nadie
    /\ \E k \in Activas : Va(r, "mirar_motor", {k})
    /\ UNCHANGED <<estado, motor, auditadas, candado, elegida>>

\* The engine that pins the key, if there is one, refuses the revocation (409).
MirarMotor(r) ==
    /\ pc[r] = "mirar_motor" /\ candado = Nadie
    /\ IF motor \in suyas[r] THEN Va(r, "fuera", {}) ELSE Sigue(r, "revocar")
    /\ UNCHANGED <<estado, motor, auditadas, candado, elegida>>

\* Mutant of RevocarTodasLeer: the audit rows go before the UPDATE.
AuditarAntes(r) ==
    /\ pc[r] = "fuera" /\ Activas # {}
    /\ Va(r, "auditar_revocar", Activas)
    /\ UNCHANGED <<estado, motor, auditadas, candado, elegida>>

\* The SELECT of the active keys, which are the ones to audit; it takes no lock.
RevocarTodasLeer(r) ==
    /\ pc[r] = "fuera" /\ Activas # {}
    /\ Va(r, "revocar_todas", Activas)
    /\ UNCHANGED <<estado, motor, auditadas, candado, elegida>>

\* The UPDATE of the key (by id) or of every active key, whichever they are by
\* then.
Revocar(r) ==
    /\ pc[r] \in {"revocar", "revocar_todas"} /\ candado = Nadie
    /\ LET ks == IF pc[r] = "revocar" THEN suyas[r] \cap Activas ELSE Activas
       IN  estado' = [k \in Llaves |-> IF k \in ks THEN "revoked" ELSE estado[k]]
    /\ Sigue(r, "auditar_revocar")
    /\ UNCHANGED <<motor, auditadas, candado, elegida>>

\* The connection drops or the process dies between two statements.
Cortar(r) ==
    /\ HayCortes /\ pc[r] # "fuera"
    /\ Va(r, "fuera", {})
    /\ UNCHANGED <<estado, motor, auditadas, candado, elegida>>

-----------------------------------------------------------------------------
(* activate *)

\* _catalogue_fingerprints: the locks, and the newest active key.
ActivarTomar(a) ==
    /\ candado = Nadie
    /\ \E k \in Activas : EsLaMasNueva(k) /\ elegida' = [elegida EXCEPT ![a] = k]
    /\ candado' = a
    /\ UNCHANGED <<estado, motor, auditadas, pc, suyas>>

\* The command ends and its locks with it.
Suelta(a) ==
    /\ candado' = Nadie
    /\ elegida' = [elegida EXCEPT ![a] = 0]

\* Mutant of Pinchar: the command pins the key it finds first.
PincharCualquiera(a) == \E k \in Activas \ {motor} : motor' = k

\* office_engine.credential_id.
Pinchar(a) == motor' = elegida[a]

\* The row of the engine and the commit.
ActivarConfirmar(a) ==
    /\ candado = a /\ elegida[a] # motor
    /\ Pinchar(a)
    /\ Suelta(a)
    /\ UNCHANGED <<estado, auditadas, pc, suyas>>

\* Nothing changes, or an error: rollback.
ActivarDeshacer(a) ==
    /\ candado = a
    /\ Suelta(a)
    /\ UNCHANGED <<estado, motor, auditadas, pc, suyas>>

PasoDePeticion(r) ==
    \/ RotarContar(r) \/ RotarInsertar(r) \/ Auditar(r)
    \/ RevocarUnaMirar(r) \/ MirarMotor(r) \/ RevocarTodasLeer(r) \/ Revocar(r)
    \/ Cortar(r)

PasoDeActivacion(a) == ActivarTomar(a) \/ ActivarConfirmar(a) \/ ActivarDeshacer(a)

Next ==
    \/ \E r \in Peticiones : PasoDePeticion(r)
    \/ \E a \in Activaciones : PasoDeActivacion(a)

Spec == Init /\ [][Next]_vars

-----------------------------------------------------------------------------
(* Properties *)

Pasos == {"fuera", "insertar", "auditar_rotar", "mirar_motor", "revocar", "revocar_todas", "auditar_revocar"}

TypeOK ==
    /\ estado \in [Llaves -> {"nueva", "active", "revoked"}]
    /\ motor \in Llaves \cup {0}
    /\ auditadas \subseteq Llaves \X {"auditar_rotar", "auditar_revocar"}
    /\ candado \in Activaciones \cup {Nadie}
    /\ elegida \in [Activaciones -> Llaves \cup {0}]
    /\ pc \in [Peticiones -> Pasos]
    /\ suyas \in [Peticiones -> SUBSET Llaves]

\* How far the overlap of active keys really goes: the limit of the code, plus
\* one for each further rotation that counted before another one inserted.
CotaDeActivas == Cardinality(Activas) <= MAX_ACTIVE - 1 + Cardinality(Peticiones)

\* An activation pins a key that is active, and the newest, when it commits: no
\* rotation and no revocation gets between its choice and its commit.
MotorConLaMasNueva ==
    [][\A k \in Llaves : (motor' = k /\ motor # k) => EsLaMasNueva(k)]_vars

\* The audit does not record a revocation that did not happen, nor a rotation
\* without its key, wherever the requests are cut.
AuditoriaVeraz ==
    \A k \in Llaves :
        /\ <<k, "auditar_revocar">> \in auditadas => estado[k] = "revoked"
        /\ <<k, "auditar_rotar">> \in auditadas => estado[k] # "nueva"

\* What revoke_credential_by_id says: the key of the enabled engine stays live.
MotorConservaSuLlave ==
    [][\A r \in Peticiones :
         (pc[r] = "revocar" /\ pc'[r] = "auditar_revocar") => motor \notin suyas[r]]_vars
=============================================================================
