------------------------------ MODULE MCCerrojos ------------------------------
(***************************************************************************)
(* What the process keeps in memory under a lock, for TLC: the cache of    *)
(* the settings and the quota of the attachments of a user.  They share no *)
(* state: a behaviour is of one or of the other, chosen at the start.      *)
(***************************************************************************)
EXTENDS MCAjustesCache, AttachmentStore

VARIABLE parte

DosBytes == [s \in Subidas |-> 2]

CerrojosVars == <<vars, ASvars, parte>>

CerrojosInit == parte \in {"settings", "attachments"} /\ Init /\ ASInit

\* The cleaner runs and files grow old as long as one upload has come: the files of
\* two attachments do not meet.
Solas ==
    Cardinality({s \in Subidas : donde[s] # "fuera"}) > 1 =>
        barre = SinBarrer /\ (\A s \in Subidas : "viejo" \notin {temporal[s], dato[s]})

CerrojosNext ==
    /\ UNCHANGED parte
    /\ \/ parte = "settings" /\ Next /\ UNCHANGED ASvars
       \/ parte = "attachments" /\ ASNext /\ Solas' /\ UNCHANGED vars

CerrojosSpec == CerrojosInit /\ [][CerrojosNext]_CerrojosVars
=============================================================================
