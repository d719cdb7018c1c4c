---------------------------- MODULE UsageSpoolProofs ----------------------------
(***************************************************************************)
(* Proofs about UsageSpool, for any rows, cap, batch and number of         *)
(* refusals: the spool implements the ledger.                              *)
(***************************************************************************)
EXTENDS UsageSpool, FiniteSetTheorems, TLAPS

\* Why a row may be where it is: only what is in the table is removed, only what the
\* table refuses is moved as refused, a row that was set aside is neither waiting nor
\* about to be inserted, and a row whose call is still running is nowhere yet.
EnSuSitio ==
    /\ hechas \subseteq recuperadas /\ directas \subseteq Propias
    /\ \A f \in candidatas \union rechazadas : tipo[f] = "venenosa"
    /\ \A f \in corruptos \union rechazadas : f \notin dir \union porInsertar
    /\ porInsertar # {} => drenaje = "insertar"
    /\ \A f \in Filas : turno[f] # "fin" =>
          f \notin dir \union corruptos \union rechazadas \union perdidas \union desborde

\* The inductive invariant.
IInv == TypeOK /\ EnSuSitio

-----------------------------------------------------------------------------
(* Types *)

\* The kinds of holders of a lock are apart.
LEMMA Apartes == /\ Libre \notin Filas /\ Drenador \notin Filas /\ Libre # Drenador
                 /\ Propias \intersect Ajenas = {} /\ Filas = Propias \union Ajenas
                 /\ \A f \in Filas : De(f) \in Procesos
                 /\ Procesos = {"plataforma", "jacobs"}
BY SpoolSupuestos DEF Filas, De, Procesos

\* The initial state is well typed.
LEMMA TipoInicial == Init => TypeOK
<1> SUFFICES ASSUME Init PROVE TypeOK
  OBVIOUS
<1> USE Apartes, SpoolSupuestos DEF Init
<1>1. \A f \in Filas : turno[f] \in {"medir", "listar", "descartar"} <=> candado[De(f)] = f
  OBVIOUS
<1>2. candado["plataforma"] = Libre /\ candado["jacobs"] = Libre
  OBVIOUS
<1>3. /\ turno \in [Filas -> Turnos] /\ fecha \in [Filas -> Nat] /\ intentos \in [Filas -> Nat]
      /\ victimas \in [Procesos -> SUBSET Filas] /\ percances \in 0 .. MaxSucesos
      /\ candado \in [Procesos -> Filas \union {Libre, Drenador}]
  BY DEF Turnos
<1>4. QED
  BY <1>1, <1>2, <1>3 DEF TypeOK, Fases

\* Entering a critical section through the lock, and leaving it.
LEMMA CandadoDePaso ==
    ASSUME TypeOK, NEW f \in Filas, NEW t \in Turnos, turno' = [turno EXCEPT ![f] = t],
           drenaje' = drenaje,
           \/ /\ t \notin {"medir", "listar", "descartar"}
              /\ candado[De(f)] = f /\ candado' = [candado EXCEPT ![De(f)] = Libre]
           \/ t = "medir" /\ candado[De(f)] = Libre /\ candado' = [candado EXCEPT ![De(f)] = f]
           \/ /\ t \in {"medir", "listar", "descartar"} <=> turno[f] \in {"medir", "listar", "descartar"}
              /\ candado' = candado
    PROVE  /\ turno' \in [Filas -> Turnos] /\ candado' \in [Procesos -> Filas \union {Libre, Drenador}]
           /\ \A g \in Filas : turno'[g] \in {"medir", "listar", "descartar"} <=> candado'[De(g)] = g
           /\ drenaje' \in {"leer", "quitando"} <=> candado'["plataforma"] = Drenador
           /\ candado'["jacobs"] # Drenador
<1> USE Apartes DEF TypeOK
<1>1. /\ turno' \in [Filas -> Turnos] /\ candado' \in [Procesos -> Filas \union {Libre, Drenador}]
  OBVIOUS
<1>2. ASSUME NEW g \in Filas
      PROVE  turno'[g] \in {"medir", "listar", "descartar"} <=> candado'[De(g)] = g
  <2>1. CASE g = f
    BY <2>1
  <2>2. CASE g # f
    BY <2>2
  <2>3. QED
    BY <2>1, <2>2
<1>3. drenaje' \in {"leer", "quitando"} <=> candado'["plataforma"] = Drenador
  OBVIOUS
<1>4. candado'["jacobs"] # Drenador
  OBVIOUS
<1>5. QED
  BY <1>1, <1>2, <1>3, <1>4

\* The drain taking the lock of the platform, or giving it back.
LEMMA CandadoDeDrenaje ==
    ASSUME TypeOK, turno' = turno, drenaje' \in Fases,
           \/ /\ drenaje' \in {"leer", "quitando"} /\ candado["plataforma"] = Libre
              /\ candado' = [candado EXCEPT !["plataforma"] = Drenador]
           \/ /\ drenaje' \notin {"leer", "quitando"} /\ drenaje \in {"leer", "quitando"}
              /\ candado' = [candado EXCEPT !["plataforma"] = Libre]
           \/ /\ drenaje' \in {"leer", "quitando"} <=> drenaje \in {"leer", "quitando"}
              /\ candado' = candado
    PROVE  /\ candado' \in [Procesos -> Filas \union {Libre, Drenador}]
           /\ \A g \in Filas : turno'[g] \in {"medir", "listar", "descartar"} <=> candado'[De(g)] = g
           /\ drenaje' \in {"leer", "quitando"} <=> candado'["plataforma"] = Drenador
           /\ candado'["jacobs"] # Drenador
BY Apartes DEF TypeOK

\* Every step keeps the types.
LEMMA TipoDePaso == TypeOK /\ [Next]_vars => TypeOK'
<1> SUFFICES ASSUME TypeOK, [Next]_vars PROVE TypeOK'
  OBVIOUS
<1> USE SpoolSupuestos
<1> DEFINE Candado == /\ candado' \in [Procesos -> Filas \union {Libre, Drenador}]
                      /\ \A g \in Filas : turno'[g] \in {"medir", "listar", "descartar"} <=> candado'[De(g)] = g
                      /\ drenaje' \in {"leer", "quitando"} <=> candado'["plataforma"] = Drenador
                      /\ candado'["jacobs"] # Drenador
<1>p. ASSUME Falla \/ SinFalla PROVE percances' \in 0 .. MaxSucesos
  <2>1. \A S \in SUBSET Filas : Cardinality(S) \in Nat
    BY SpoolSupuestos, FS_CardinalityType, FS_Subset
  <2>2. Cardinality({g \in Filas : turno[g] # "nada"}) \in Nat
    BY <2>1
  <2>3. QED
    BY <1>p, <2>2 DEF Falla, SinFalla, Cabe, TypeOK
<1>1. ASSUME NEW f \in Filas, Registrar(f) PROVE TypeOK'
  <2>1. Candado /\ turno' \in [Filas -> Turnos]
    BY <1>1, CandadoDePaso, Apartes
       DEF Registrar, Encolar, Va, Toma, Turnos, EnVuelo, ciclo, TypeOK
  <2>2. QED
    BY <1>1, <1>p, <2>1 DEF Registrar, TypeOK, archivos, contadas, ciclo
<1>2. ASSUME NEW f \in Filas, Ajena(f) PROVE TypeOK'
  <2>1. Candado /\ turno' \in [Filas -> Turnos]
    BY <1>2, CandadoDePaso, Apartes
       DEF Ajena, Encolar, Va, Toma, Turnos, EnVuelo, ciclo, TypeOK
  <2>2. QED
    BY <1>2, <2>1 DEF Ajena, TypeOK, archivos, tabla, contadas, ciclo
<1>3. ASSUME NEW f \in Filas, Medir(f) PROVE TypeOK'
  <2>1. Candado /\ turno' \in [Filas -> Turnos]
    BY <1>3, CandadoDePaso, Apartes
       DEF Medir, Va, Suelta, Turnos, EnVuelo, ciclo, TypeOK
  <2>2. QED
    BY <1>3, <1>p, <2>1 DEF Medir, TypeOK, archivos, tabla, contadas, ciclo
<1>4. ASSUME NEW f \in Filas, Listar(f) PROVE TypeOK'
  <2>1. Candado /\ turno' \in [Filas -> Turnos]
    BY <1>4, CandadoDePaso, Apartes
       DEF Listar, Va, Turnos, EnVuelo, ciclo, TypeOK
  <2>2. victimas' \in [Procesos -> SUBSET Filas]
    BY <1>4, Apartes DEF Listar, MasViejas, TypeOK
  <2>3. QED
    BY <1>4, <2>1, <2>2 DEF Listar, TypeOK, archivos, tabla, contadas, ciclo
<1>5. ASSUME NEW f \in Filas, Descartar(f) PROVE TypeOK'
  <2>1. Candado /\ turno' \in [Filas -> Turnos]
    BY <1>5, CandadoDePaso, Apartes
       DEF Descartar, Va, Suelta, Turnos, EnVuelo, ciclo, TypeOK
  <2>2. victimas' \in [Procesos -> SUBSET Filas] /\ dir' \subseteq Filas /\ desborde' \subseteq Filas
    BY <1>5, Apartes DEF Descartar, TypeOK
  <2>3. QED
    BY <1>5, <1>p, <2>1, <2>2 DEF Descartar, TypeOK, tabla, ciclo
<1>6. ASSUME NEW f \in Filas, Escribir(f) PROVE TypeOK'
  <2>1. Candado /\ turno' \in [Filas -> Turnos]
    BY <1>6, CandadoDePaso, Apartes
       DEF Escribir, Va, Turnos, EnVuelo, ciclo, TypeOK
  <2>2. Cardinality({g \in Filas : fecha[g] > 0}) + 1 \in Nat
    BY SpoolSupuestos, FS_CardinalityType, FS_Subset
  <2>3. fecha' \in [Filas -> Nat] /\ dir' \subseteq Filas /\ perdidas' \subseteq Filas
    BY <1>6, <2>2 DEF Escribir, Nombra, Pierde, TypeOK
  <2>4. QED
    BY <1>6, <1>p, <2>1, <2>3 DEF Escribir, TypeOK, tabla, ciclo
<1>7. ASSUME Despertar PROVE TypeOK'
  <2>1. Candado
    BY <1>7, CandadoDeDrenaje DEF Despertar, Fase, Toma, Fases
  <2>2. QED
    BY <1>7, <2>1 DEF Despertar, Fase, Fases, TypeOK, archivos, tabla, contadas
<1>8. ASSUME Leer PROVE TypeOK'
  <2>1. drenaje = "leer" /\ drenaje' \in {"dormido", "insertar"} /\ intentos' \in [Filas -> Nat]
    BY <1>8 DEF Leer, Fase, SinIntentos, TypeOK
  <2>2. Candado
    BY <1>8, <2>1, CandadoDeDrenaje DEF Leer, Suelta, Fases
  <2>3. /\ leidas' \subseteq Filas /\ porInsertar' \subseteq Filas /\ dir' \subseteq Filas
        /\ corruptos' \subseteq Filas
    BY <1>8 DEF Leer, MasViejas, Legibles, Encontradas, TypeOK
  <2>4. QED
    BY <1>8, <1>p, <2>1, <2>2, <2>3 DEF Leer, Fases, TypeOK, tabla, contadas
<1>9. ASSUME NEW f \in Filas, Insertar(f) PROVE TypeOK'
  <2>1. intentos' \in [Filas -> Nat]
    <3>1. intentos' \in {[intentos EXCEPT ![f] = 0], [intentos EXCEPT ![f] = @ + 1]}
      BY <1>9 DEF Insertar
    <3>2. intentos[f] + 1 \in Nat /\ intentos \in [Filas -> Nat]
      BY DEF TypeOK
    <3>3. QED
      BY <3>1, <3>2
  <2>5. ajeno' \in BOOLEAN
    BY <1>9 DEF Insertar, TypeOK
  <2>2. /\ porInsertar' \subseteq Filas /\ recuperadas' \subseteq Filas
        /\ hechas' \subseteq Filas /\ candidatas' \subseteq Filas
    BY <1>9 DEF Insertar, TypeOK
  <2>3. percances' \in 0 .. MaxSucesos
    BY <1>9, <1>p DEF Insertar
  <2>4. QED
    BY <1>9, <2>1, <2>2, <2>3, <2>5 DEF Insertar, TypeOK, archivos, contadas
<1>10. ASSUME FallarCiclo PROVE TypeOK'
  <2>1. Candado
    BY <1>10, CandadoDeDrenaje DEF FallarCiclo, Fase, Fases
  <2>2. QED
    BY <1>10, <2>1 DEF FallarCiclo, CicloNuevo, SinIntentos, Fase, Fases, TypeOK, archivos, tabla, contadas
<1>11. ASSUME Confirmar PROVE TypeOK'
  <2>1. Candado
    BY <1>11, CandadoDeDrenaje DEF Confirmar, Fase, Fases
  <2>2. QED
    BY <1>11, <2>1 DEF Confirmar, Fase, Fases, TypeOK, archivos, tabla, contadas
<1>12. ASSUME TomarParaQuitar PROVE TypeOK'
  <2>1. Candado
    BY <1>12, CandadoDeDrenaje DEF TomarParaQuitar, Fase, Toma, Fases
  <2>2. QED
    BY <1>12, <2>1 DEF TomarParaQuitar, Fase, Fases, TypeOK, archivos, tabla, contadas
<1>13. ASSUME Quitar PROVE TypeOK'
  <2>1. Candado
    BY <1>13, CandadoDeDrenaje DEF Quitar, Fase, Suelta, Fases
  <2>2. QED
    BY <1>13, <1>p, <2>1 DEF Quitar, Fase, Fases, TypeOK, tabla, contadas
<1>14. ASSUME NEW f \in Filas, Mover(f) PROVE TypeOK'
  <2>1. intentos' \in [Filas -> Nat]
    BY <1>14 DEF Mover, TypeOK
  <2>2. QED
    BY <1>14, <1>p, <2>1 DEF Mover, TypeOK, tabla, contadas
<1>15. ASSUME Dormir PROVE TypeOK'
  <2>1. Candado
    BY <1>15, CandadoDeDrenaje DEF Dormir, Fase, Fases
  <2>2. intentos' \in [Filas -> Nat]
    BY <1>15 DEF Dormir, SinIntentos, Podar, TypeOK
  <2>3. QED
    BY <1>15, <2>1, <2>2 DEF Dormir, CicloNuevo, Fase, Fases, TypeOK, archivos, tabla, contadas
<1>16. ASSUME CambiarBase PROVE TypeOK'
  BY <1>16, <1>p DEF CambiarBase, TypeOK, archivos, tabla, contadas, ciclo
<1>17. ASSUME Caida PROVE TypeOK'
  <2>1. turno' \in [Filas -> Turnos]
    BY <1>17 DEF Caida, Turnos, TypeOK
  <2>2. Candado
    BY <1>17, Apartes DEF Caida, EnVuelo, De, TypeOK
  <2>3. victimas' \in [Procesos -> SUBSET Filas]
    BY <1>17 DEF Caida, Procesos, TypeOK
  <2>4. QED
    BY <1>17, <1>p, <2>1, <2>2, <2>3
       DEF Caida, CicloNuevo, SinIntentos, Fases, TypeOK, archivos, tabla, contadas
<1>18. CASE UNCHANGED vars
  BY <1>18 DEF TypeOK, vars, archivos, tabla, contadas, ciclo
<1>19. ASSUME FallarLectura PROVE TypeOK'
  <2>1. Candado
    BY <1>19, CandadoDeDrenaje DEF FallarLectura, Fase, Suelta, Fases
  <2>2. QED
    BY <1>19, <1>p, <2>1 DEF FallarLectura, SinIntentos, Fase, Fases, TypeOK, archivos, tabla, contadas
<1>20. QED
  BY <1>1, <1>2, <1>3, <1>4, <1>5, <1>6, <1>7, <1>8, <1>9, <1>10, <1>11, <1>12, <1>13, <1>14,
     <1>15, <1>16, <1>17, <1>18, <1>19 DEF Next, Llamada, Drenar

\* Every reachable state is well typed, and inside the sections that count, drop,
\* read or remove there is at most one call or cycle of each process.
THEOREM TiposCorrectos == Spec => []TypeOK
BY TipoInicial, TipoDePaso, PTL DEF Spec

-----------------------------------------------------------------------------
(* Rows are where they should be *)

\* Every step keeps the rows in their place.
LEMMA SitioDePaso == IInv /\ [Next]_vars => EnSuSitio'
<1> SUFFICES ASSUME TypeOK, EnSuSitio, [Next]_vars PROVE EnSuSitio'
  BY DEF IInv
<1> USE DEF EnSuSitio
<1>1. ASSUME NEW f \in Filas, Registrar(f) PROVE EnSuSitio'
  BY <1>1 DEF Registrar, Encolar, Va, TypeOK, archivos, contadas, ciclo
<1>2. ASSUME NEW f \in Filas, Ajena(f) PROVE EnSuSitio'
  BY <1>2 DEF Ajena, Encolar, Va, TypeOK, archivos, tabla, contadas, ciclo
<1>3. ASSUME NEW f \in Filas, Medir(f) PROVE EnSuSitio'
  BY <1>3 DEF Medir, Va, TypeOK, archivos, tabla, contadas, ciclo
<1>4. ASSUME NEW f \in Filas, Listar(f) PROVE EnSuSitio'
  BY <1>4 DEF Listar, Va, TypeOK, archivos, tabla, contadas, ciclo
<1>5. ASSUME NEW f \in Filas, Descartar(f) PROVE EnSuSitio'
  <2>1. dir' \subseteq dir /\ desborde' \subseteq desborde \union dir
    BY <1>5 DEF Descartar
  <2>2. QED
    BY <1>5, <2>1 DEF Descartar, Va, TypeOK, tabla, ciclo
<1>6. ASSUME NEW f \in Filas, Escribir(f) PROVE EnSuSitio'
  BY <1>6 DEF Escribir, Nombra, Pierde, Va, TypeOK, tabla, ciclo
<1>7. ASSUME Despertar PROVE EnSuSitio'
  BY <1>7 DEF Despertar, Fase, archivos, tabla, contadas
<1>8. ASSUME Leer PROVE EnSuSitio'
  <2>0. PICK rotos \in SUBSET dir : \E fijos \in SUBSET Encontradas(rotos) :
           /\ porInsertar' = MasViejas(Legibles(rotos), Lote)
           /\ dir' = dir \ (Encontradas(rotos) \ fijos)
           /\ corruptos' = corruptos \union (Encontradas(rotos) \ fijos)
    BY <1>8 DEF Leer
  <2>1. PICK fijos \in SUBSET Encontradas(rotos) :
           /\ porInsertar' = MasViejas(Legibles(rotos), Lote)
           /\ dir' = dir \ (Encontradas(rotos) \ fijos)
           /\ corruptos' = corruptos \union (Encontradas(rotos) \ fijos)
    BY <2>0
  <2>2. /\ Legibles(rotos) \subseteq dir /\ Encontradas(rotos) \subseteq dir
        /\ Legibles(rotos) \intersect Encontradas(rotos) = {}
        /\ MasViejas(Legibles(rotos), Lote) \subseteq Legibles(rotos)
    BY DEF Legibles, Encontradas, MasViejas
  <2>3. \A f \in corruptos' \union rechazadas' : f \notin dir' \union porInsertar'
    BY <1>8, <2>1, <2>2 DEF Leer
  <2>4. porInsertar' # {} => drenaje' = "insertar"
    BY <1>8 DEF Leer, Fase
  <2>5. QED
    BY <1>8, <2>1, <2>2, <2>3, <2>4 DEF Leer, tabla, contadas, TypeOK
<1>9. ASSUME NEW f \in Filas, Insertar(f) PROVE EnSuSitio'
  <2>1. candidatas' \subseteq candidatas \union {f} /\ (f \in candidatas' \ candidatas => tipo[f] = "venenosa")
    BY <1>9 DEF Insertar
  <2>2. hechas' \subseteq recuperadas'
    BY <1>9 DEF Insertar
  <2>3. QED
    BY <1>9, <2>1, <2>2 DEF Insertar, archivos, contadas
<1>10. ASSUME FallarCiclo PROVE EnSuSitio'
  BY <1>10 DEF FallarCiclo, CicloNuevo, archivos, tabla, contadas
<1>11. ASSUME Confirmar PROVE EnSuSitio'
  BY <1>11 DEF Confirmar, Fase, archivos, tabla, contadas
<1>12. ASSUME TomarParaQuitar PROVE EnSuSitio'
  BY <1>12 DEF TomarParaQuitar, Fase, archivos, tabla, contadas
<1>13. ASSUME Quitar PROVE EnSuSitio'
  BY <1>13 DEF Quitar, Fase, tabla, contadas
<1>14. ASSUME NEW f \in Filas, Mover(f) PROVE EnSuSitio'
  BY <1>14 DEF Mover, tabla, contadas
<1>15. ASSUME Dormir PROVE EnSuSitio'
  BY <1>15 DEF Dormir, CicloNuevo, archivos, tabla, contadas
<1>16. ASSUME CambiarBase PROVE EnSuSitio'
  BY <1>16 DEF CambiarBase, archivos, tabla, contadas, ciclo
<1>17. ASSUME Caida PROVE EnSuSitio'
  BY <1>17 DEF Caida, CicloNuevo, archivos, tabla, contadas, TypeOK
<1>18. CASE UNCHANGED vars
  BY <1>18 DEF vars, archivos, tabla, contadas, ciclo
<1>19. ASSUME FallarLectura PROVE EnSuSitio'
  BY <1>19 DEF FallarLectura, Fase, archivos, tabla, contadas
<1>20. QED
  BY <1>1, <1>2, <1>3, <1>4, <1>5, <1>6, <1>7, <1>8, <1>9, <1>10, <1>11, <1>12, <1>13, <1>14,
     <1>15, <1>16, <1>17, <1>18, <1>19 DEF Next, Llamada, Drenar

\* The inductive invariant holds.
THEOREM CadaFilaEnSuSitio == Spec => []IInv
<1>1. Init => IInv
  BY TipoInicial DEF Init, IInv, EnSuSitio
<1>2. IInv /\ [Next]_vars => IInv'
  BY TipoDePaso, SitioDePaso DEF IInv
<1>3. QED
  BY <1>1, <1>2, PTL DEF Spec

-----------------------------------------------------------------------------
(* The ledger *)

\* In the ledger a row moves from e1 to e2, or stays.
Mueve(f, e1, e2) ==
    \/ e1 = e2
    \/ <<e1, e2>> \in {"nada", "pendiente", "perdida"} \X {"cobrada"}
    \/ <<e1, e2>> \in {"nada"} \X {"pendiente", "perdida"}
    \/ <<e1, e2>> = <<"pendiente", "perdida">>
    \/ <<e1, e2>> = <<"pendiente", "rechazada">> /\ tipo[f] = "venenosa"
    \/ <<e1, e2>> = <<"pendiente", "ilegible">> /\ (tipo[f] = "ilegible" \/ percances' # percances)
    \/ <<e1, e2>> = <<"cobrada", "doble">> /\ f \in Propias

\* A step that takes the row nowhere it was not, or takes it from the spool to
\* the table, out of it or aside, is a step of the ledger.
LEMMA PasoDeFila ==
    ASSUME NEW f \in Filas, IInv, IInv',
           f \in directas => f \in directas', f \in recuperadas => f \in recuperadas',
           f \in corruptos => f \in corruptos', f \in rechazadas => f \in rechazadas',
           f \in perdidas => f \in perdidas', f \in desborde => f \in desborde',
           tipo' = tipo,
           \* how each of them may change
           f \in directas' \ directas => turno[f] = "nada",
           f \in recuperadas' \ recuperadas => f \notin corruptos \union rechazadas /\ directas' = directas,
           f \in dir' \ dir => turno[f] = "escribir",
           f \in perdidas' \ perdidas => turno[f] = "escribir",
           f \in dir \ dir' => f \in recuperadas \union corruptos' \union rechazadas' \union desborde',
           f \in rechazadas' \ rechazadas => f \in dir,
           f \in corruptos' \ corruptos => f \in dir /\ (tipo[f] = "ilegible" \/ percances' # percances),
           f \in desborde' \ desborde => f \in dir
    PROVE  Mueve(f, Estado(f), Estado(f)')
<1> DEFINE apartadas == corruptos \union rechazadas
           contada == perdidas \union desborde
<1>1. /\ f \in directas' => f \in Propias
      /\ f \in rechazadas' => tipo[f] = "venenosa"
      /\ f \in dir => f \notin apartadas
  BY DEF IInv, EnSuSitio
<1>2. turno[f] # "fin" => f \notin dir \union apartadas \union contada
  BY DEF IInv, EnSuSitio
<1>3. /\ turno[f] = "nada" => turno[f] # "fin"
      /\ turno[f] = "escribir" => turno[f] # "fin"
  OBVIOUS
<1>5. CASE f \in directas /\ f \in recuperadas
  BY <1>5 DEF Mueve, Estado
<1>6. CASE f \in directas /\ f \notin recuperadas
  BY <1>1, <1>6 DEF Mueve, Estado
<1>7. CASE f \notin directas /\ f \in recuperadas
  BY <1>1, <1>7 DEF Mueve, Estado
<1>8. CASE f \notin directas /\ f \notin recuperadas
  <2>1. CASE f \in directas' \/ f \in recuperadas'
    <3>1. Estado(f)' = "cobrada"
      BY <1>8, <2>1 DEF Estado
    <3>2. Estado(f) \in {"nada", "pendiente", "perdida"}
      BY <1>2, <1>3, <1>8, <2>1 DEF Estado
    <3>3. QED
      BY <3>1, <3>2 DEF Mueve
  <2>2. CASE f \notin directas' /\ f \notin recuperadas'
    <3>1. CASE f \in dir
      <4>1. Estado(f) = "pendiente"
        BY <1>8, <3>1 DEF Estado
      <4>2. CASE f \in dir'
        <5>1. Estado(f)' = "pendiente"
          BY <2>2, <4>2 DEF Estado
        <5>2. QED
          BY <4>1, <5>1 DEF Mueve
      <4>3. CASE f \notin dir' /\ f \in rechazadas'
        <5>1. Estado(f)' = "rechazada" /\ tipo[f] = "venenosa"
          BY <1>1, <2>2, <4>3 DEF Estado
        <5>2. QED
          BY <4>1, <5>1 DEF Mueve
      <4>4. CASE f \notin dir' /\ f \notin rechazadas' /\ f \in corruptos'
        <5>1. Estado(f)' = "ilegible"
          BY <2>2, <4>4 DEF Estado
        <5>2. tipo[f] = "ilegible" \/ percances' # percances
          BY <1>1, <3>1, <4>4
        <5>3. QED
          BY <4>1, <5>1, <5>2 DEF Mueve
      <4>5. CASE f \notin dir' /\ f \notin apartadas'
        <5>1. f \in desborde'
          <6>1. f \in corruptos' \union rechazadas' \union desborde'
            BY <1>8, <3>1, <4>5
          <6>2. QED
            BY <4>5, <6>1
        <5>2. Estado(f)' = "perdida"
          BY <2>2, <4>5, <5>1 DEF Estado
        <5>3. QED
          BY <4>1, <5>2 DEF Mueve
      <4>6. QED
        BY <4>2, <4>3, <4>4, <4>5
    <3>2. CASE f \notin dir
      <4>1. CASE f \in dir'
        <5>1. Estado(f) = "nada" /\ Estado(f)' = "pendiente"
          BY <1>2, <1>3, <1>8, <2>2, <3>2, <4>1 DEF Estado
        <5>2. QED
          BY <5>1 DEF Mueve
      <4>2. CASE f \notin dir'
        <5>1. (f \in rechazadas' <=> f \in rechazadas) /\ (f \in corruptos' <=> f \in corruptos)
          BY <3>2
        <5>2. f \in contada => f \in contada'
          OBVIOUS
        <5>3. QED
          BY <1>8, <2>2, <3>2, <4>2, <5>1, <5>2 DEF Mueve, Estado
      <4>3. QED
        BY <4>1, <4>2
    <3>3. QED
      BY <3>1, <3>2
  <2>3. QED
    BY <2>1, <2>2
<1>9. QED
  BY <1>5, <1>6, <1>7, <1>8

\* Every step moves every row as the ledger lets it.
LEMMA PasoDelLibro ==
    ASSUME IInv, IInv', [Next]_vars, NEW f \in Filas
    PROVE  Mueve(f, Estado(f), Estado(f)')
<1> USE DEF IInv, EnSuSitio, TypeOK
<1>1. CASE \E g \in Filas : Registrar(g)
  <2> PICK g \in Filas : Registrar(g)
    BY <1>1
  <2> QED
    BY PasoDeFila DEF Registrar, Encolar, Va, archivos, contadas
<1>2. CASE \E g \in Filas : Descartar(g)
  <2> PICK g \in Filas : Descartar(g)
    BY <1>2
  <2>1. /\ dir' \subseteq dir /\ desborde \subseteq desborde' /\ desborde' \subseteq desborde \union dir
        /\ dir \ dir' \subseteq desborde'
    BY DEF Descartar
  <2> QED
    BY <2>1, PasoDeFila DEF Descartar, tabla
<1>3. CASE \E g \in Filas : Escribir(g)
  <2> PICK g \in Filas : Escribir(g)
    BY <1>3
  <2> QED
    BY PasoDeFila DEF Escribir, Nombra, Pierde, Va, tabla
<1>4. CASE Leer
  <2>0. PICK rotos \in SUBSET dir : \E fijos \in SUBSET Encontradas(rotos) :
           /\ dir' = dir \ (Encontradas(rotos) \ fijos)
           /\ corruptos' = corruptos \union (Encontradas(rotos) \ fijos)
           /\ IF rotos \union fijos = {} THEN SinFalla ELSE Falla
    BY <1>4 DEF Leer
  <2>1. PICK fijos \in SUBSET Encontradas(rotos) :
           /\ dir' = dir \ (Encontradas(rotos) \ fijos)
           /\ corruptos' = corruptos \union (Encontradas(rotos) \ fijos)
           /\ IF rotos \union fijos = {} THEN SinFalla ELSE Falla
    BY <2>0
  <2>2. Encontradas(rotos) \subseteq dir
    BY DEF Encontradas
  <2>3. ASSUME f \in Encontradas(rotos), rotos = {} PROVE tipo[f] = "ilegible"
    BY <2>3 DEF Encontradas, Legibles
  <2>4. rotos # {} => percances' # percances
    BY <2>1 DEF Falla
  <2> QED
    BY <1>4, <2>1, <2>2, <2>3, <2>4, PasoDeFila DEF Leer, tabla, contadas
<1>5. CASE \E g \in Filas : Insertar(g)
  <2> PICK g \in Filas : Insertar(g)
    BY <1>5
  <2>1. /\ recuperadas \subseteq recuperadas'
        /\ f \in recuperadas' \ recuperadas => f \notin corruptos \union rechazadas
    BY DEF Insertar, MasViejas
  <2> QED
    BY <2>1, PasoDeFila DEF Insertar, archivos, contadas
<1>6. CASE Quitar
  <2>1. dir' \subseteq dir /\ dir \ dir' \subseteq recuperadas
    BY <1>6 DEF Quitar, Quitables
  <2> QED
    BY <1>6, <2>1, PasoDeFila DEF Quitar, tabla, contadas
<1>7. CASE \E g \in Filas : Mover(g)
  <2> PICK g \in Filas : Mover(g)
    BY <1>7
  <2>1. /\ dir' \subseteq dir /\ rechazadas \subseteq rechazadas' /\ dir \ dir' \subseteq rechazadas'
        /\ rechazadas' \subseteq rechazadas \union dir
    BY DEF Mover
  <2> QED
    BY <2>1, PasoDeFila DEF Mover, tabla, contadas
<1>8. CASE UNCHANGED <<archivos, tabla, contadas, tipo>>
  BY <1>8 DEF Mueve, Estado, archivos, tabla, contadas
<1>9. QED
  BY <1>1, <1>2, <1>3, <1>4, <1>5, <1>6, <1>7, <1>8
     DEF Next, Llamada, Drenar, Ajena, Medir, Listar, Despertar, FallarLectura, FallarCiclo, Confirmar, TomarParaQuitar,
         Dormir, CambiarBase, Caida, vars

\* The spool implements the ledger: whatever fails, a consumption it accepted is
\* charged, waiting, kept aside or counted as lost; and it is kept aside as refused only
\* if the table refuses it, and as unreadable only if it is not a row or a mishap kept
\* it from being read.
THEOREM ImplementaElLibro == Spec => CumpleElLibro
<1> DEFINE estados == [f \in Filas |-> Estado(f)]
<1>1. Init => Libro!Init
  BY DEF Init, Libro!Init, Estado
<1>2. IInv /\ IInv' /\ [Next]_vars => [Libro!Next]_<<tipo, percances, estados>>
  <2> SUFFICES ASSUME IInv, IInv', [Next]_vars PROVE Libro!Next \/ UNCHANGED <<tipo, percances, estados>>
    OBVIOUS
  <2>0. tipo' = tipo
    BY DEF Next, Registrar, Ajena, Llamada, Medir, Listar, Descartar, Escribir, Drenar, Despertar, Leer,
       FallarLectura, Insertar, FallarCiclo, Confirmar, TomarParaQuitar, Quitar, Mover, Dormir,
       CambiarBase, Caida, vars
  <2>1. estados' = [f \in Filas |-> Estado(f)']
    OBVIOUS
  <2>2. estados' \in [Filas -> Libro!Estados]
    <3>1. \A f \in Filas : Estado(f)' \in Libro!Estados
      BY DEF Estado, Libro!Estados
    <3>2. QED
      BY <2>1, <3>1
  <2>3. ASSUME NEW f \in Filas PROVE estados'[f] = estados[f] \/ Libro!Sigue(f)
    BY <2>1, PasoDelLibro DEF Mueve, Libro!Sigue
  <2>4. QED
    BY <2>0, <2>2, <2>3 DEF Libro!Next
<1>3. QED
  BY <1>1, <1>2, CadaFilaEnSuSitio, PTL DEF Spec, CumpleElLibro, Libro!Spec
=============================================================================
