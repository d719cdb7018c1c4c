------------------------------ MODULE MCFicheros ------------------------------
(***************************************************************************)
(* What lives in files, for TLC: the spool of usage rows and what an       *)
(* upload leaves on the disk.  They share no state: a behaviour is of one  *)
(* or of the other, chosen at the start.                                   *)
(***************************************************************************)
EXTENDS MCUsageSpool, AttachmentStore

VARIABLE parte

DosBytes == [s \in Subidas |-> 2]

FicherosVars == <<vars, ASvars, parte>>

\* The part that does not run starts in one state.
FicherosInit ==
    /\ parte \in {"usage", "attachments"} /\ EnUnaCaida /\ ASInit
    /\ parte = "attachments" => \A f \in Filas : tipo[f] = "sana"

FicherosNext ==
    /\ UNCHANGED parte
    /\ \/ parte = "usage" /\ Next /\ UNCHANGED ASvars
       \/ parte = "attachments" /\ ASNext /\ UNCHANGED vars

\* An upload may stop anywhere, and leave nothing to do.
Acaba == parte = "attachments" /\ UNCHANGED FicherosVars

\* Each part under its own fairness.
FicherosSpec ==
    /\ FicherosInit /\ [][FicherosNext \/ Acaba]_FicherosVars
    /\ WF_vars(parte = "usage" /\ Drenar) /\ \A f \in Filas : WF_vars(parte = "usage" /\ Llamada(f))
    /\ WF_ASvars(parte = "attachments" /\ PasaTiempo) /\ WF_ASvars(parte = "attachments" /\ Barre)
=============================================================================
