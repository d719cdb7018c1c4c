------------------------ MODULE MCPipelineEscenarios ------------------------
(***************************************************************************)
(* Small instances of DocumentPipeline for TLC.  A run is the union of     *)
(* several scenarios: each names how many actors of every kind are at work *)
(* at once and how much of every bound it may spend, so that it can afford *)
(* the actors whose interleaving it is about.  A scenario restricts which  *)
(* states are explored and never what a step does.                         *)
(***************************************************************************)
EXTENDS MCDocumentPipeline, FiniteSetsExt

CONSTANT Escenarios   \* the names of the scenarios of a run

Limite(docs_, copias_, trabajos_, tareas_, peticiones_, usuarios_, vueltas_,
       inciertos_, cambios_, caidas_, olvidos_, perdidas_, respuestas_) ==
  [docs |-> docs_, copias |-> copias_, trabajos |-> trabajos_, tareas |-> tareas_,
   peticiones |-> peticiones_, usuarios |-> usuarios_, vueltas |-> vueltas_,
   inciertos |-> inciertos_, cambios |-> cambios_, caidas |-> caidas_,
   olvidos |-> olvidos_, perdidas |-> perdidas_, respuestas |-> respuestas_]

\* A result of one kind, where the kind is not what matters.
UnaRespuesta == {[estado |-> "error", carpeta |-> "ninguna"]}

\* A result after which the document is reprocessed.
Reprocesable == {[estado |-> "sin_extractor", carpeta |-> "propia"]}

Limites ==
  [ \* two requests and every result: who deletes which copy
    archivos |-> Limite(1, 2, 2, 1, 2, 1, 2, 0, 0, 0, 1, 0, RespuestasMC),
    \* two dispatcher tasks at once, after the first lost its lock, with uploads
    candado |-> Limite(1, 2, 2, 2, 1, 1, 2, 0, 0, 0, 0, 1, UnaRespuesta),
    \* the same with reprocesses and a job that LAS MANOS forgets
    cierres |-> Limite(1, 1, 2, 2, 1, 1, 2, 1, 0, 0, 1, 1, RespuestasMinimas),
    \* a crash and a forgotten job
    caida |-> Limite(1, 2, 2, 1, 1, 1, 2, 1, 0, 1, 1, 0, RespuestasMinimas),
    \* two changes of the document's visibility or of the project
    cambios |-> Limite(1, 1, 2, 1, 1, 1, 2, 1, 2, 0, 0, 0, RespuestasMinimas),
    \* three attempts of one document
    intentos |-> Limite(1, 1, 3, 1, 1, 1, 3, 1, 0, 1, 1, 0, RespuestasMinimas),
    \* three attempts again, two tasks and the lock lost: the third has the path of the second
    tardio |-> Limite(1, 1, 3, 2, 1, 1, 3, 0, 0, 0, 0, 1, Reprocesable),
    \* two documents of two users that may share a chunk
    duenos |-> Limite(2, 2, 2, 1, 1, 2, 1, 1, 0, 0, 0, 0, UnaRespuesta) ]

\* The document, user and request of a scenario of one of them.
UnDoc == {CHOOSE d \in Docs : TRUE}
UnUsuario == {CHOOSE u \in Usuarios : TRUE}
UnaPeticion == {CHOOSE r \in Peticiones : TRUE}

\* How much of each bound a state uses; documents, users and requests are
\* taken in order, so that one of them is always the same one.
Uso ==
  [docs |-> IF \A c \in Copias : contenido[c] \in {Nadie} \union UnDoc THEN 1 ELSE 2,
   copias |-> Cardinality({c \in Copias : contenido[c] # Nadie}),
   trabajos |-> Cardinality({j \in Trabajos : tEstado[j] # "libre"}),
   tareas |-> Cardinality({p \in Despachadores : paso[p] # "libre"}),
   peticiones |-> IF \A r \in Peticiones \ UnaPeticion : pPaso[r] = "libre" THEN 1 ELSE 2,
   usuarios |-> IF /\ \A r \in Peticiones : pUsuario[r] \in {Nadie} \union UnUsuario
                   /\ \A d \in Docs : dueno[d] \in {Nadie} \union UnUsuario THEN 1 ELSE 2,
   vueltas |-> Max({vuelta[d] : d \in Docs}),
   inciertos |-> Cardinality(incertidumbre),
   cambios |-> cambios, caidas |-> caidas, olvidos |-> olvidos, perdidas |-> perdidas]

Recibidas ==
  UNION {{resultado[j][d] : d \in Docs} : j \in Trabajos} \ {SinResultado}

\* The constraint of a run: its states are those of its scenarios together.
Dentro ==
  LET uso == Uso
      recibidas == Recibidas
  IN \E e \in Escenarios :
       /\ \A b \in DOMAIN uso : uso[b] <= Limites[e][b]
       /\ recibidas \subseteq Limites[e].respuestas

\* Names of copies, dispatcher tasks and jobs are interchangeable; those of
\* requests, which a scenario chooses from, are not.
SimetriaDeEscenarios ==
  Permutations(Copias) \union Permutations(Despachadores) \union Permutations(Trabajos)
=============================================================================
