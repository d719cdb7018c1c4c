------------------------------- MODULE MCPlazos -------------------------------
(***************************************************************************)
(* What must end, for TLC: the document that waits for an answer, the mail *)
(* of an invitation and the run of a synchronisation.  They share no       *)
(* state: a behaviour is of one of them, chosen at the start.              *)
(***************************************************************************)
EXTENDS MCDocumentPipeline, InvitationDelivery, CatalogSync

CONSTANTS i1, i2, s1, s2

VARIABLE parte

TwoSubjects == (i1 :> s1) @@ (i2 :> s2)

PlazosVars == <<vars, IDvars, CSvars, parte>>

EnDocumentos == parte = "documents"

PlazosInit ==
    /\ parte \in {"documents", "invitations", "catalogue"}
    /\ Init /\ IDInit /\ CSInit

PlazosNext ==
    /\ UNCHANGED parte
    /\ \/ EnDocumentos /\ Next /\ UNCHANGED <<IDvars, CSvars>>
       \/ parte = "invitations" /\ IDNext /\ UNCHANGED <<vars, CSvars>>
       \/ parte = "catalogue" /\ CSNext /\ UNCHANGED <<vars, IDvars>>

\* Each part under its own fairness.
PlazosSpec ==
    /\ PlazosInit /\ [][PlazosNext]_PlazosVars
    /\ \A p \in Despachadores :
          /\ WF_vars(EnDocumentos /\ (Sincronizar(p) \/ Despachar(p)))
          /\ \A j \in Trabajos : SF_vars(EnDocumentos /\ (Consultar(p, j) \/ TrabajoPerdido(p, j)))
          /\ SF_vars(EnDocumentos /\ LeerFilas(p))
          /\ \A d \in Docs : SF_vars(EnDocumentos /\ AplicaDoc(p, d))
    /\ \A j \in Trabajos :
          WF_vars(EnDocumentos /\ (PerderTrabajo(j) \/ \E como \in {"completed", "cancelled"} : TerminarTrabajo(j, como)))
    /\ \A w \in Workers : WF_IDvars(parte = "invitations" /\ Run(w))
    /\ \A i \in Invitations : /\ WF_IDvars(parte = "invitations" /\ FallDue(i))
                               /\ WF_IDvars(parte = "invitations" /\ GrowStale(i))
    /\ WF_CSvars(parte = "catalogue" /\ AlgoSigue)
=============================================================================
