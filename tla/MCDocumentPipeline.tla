------------------------- MODULE MCDocumentPipeline -------------------------
(***************************************************************************)
(* Small instances of DocumentPipeline for TLC.                            *)
(***************************************************************************)
EXTENDS DocumentPipeline, TLC

\* One result of each kind the code tells apart: final with and without a
\* carpeta_procesado of the project, and one of another project.
RespuestasMC ==
  {[estado |-> "listo", carpeta |-> "propia"],
   [estado |-> "listo", carpeta |-> "ajena"],
   [estado |-> "error", carpeta |-> "ninguna"],
   [estado |-> "sin_extractor", carpeta |-> "propia"]}

\* A document that can be reprocessed and one that can be uploaded again.
RespuestasMinimas ==
  {[estado |-> "error", carpeta |-> "ninguna"],
   [estado |-> "sin_extractor", carpeta |-> "propia"]}

\* Names of copies, requests, dispatcher tasks and jobs are interchangeable.
Simetria == Permutations(Copias) \union Permutations(Peticiones)
              \union Permutations(Despachadores) \union Permutations(Trabajos)
=============================================================================
