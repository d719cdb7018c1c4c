------------------------------- MODULE MCProcesos -------------------------------
(***************************************************************************)
(* What more than one process or thread does at once, for TLC: the keys of *)
(* a provider in the database, the lanes to Ollama under advisory locks,   *)
(* and the pool of processes that extracts PDFs.  They share no state: a   *)
(* behaviour is of one of them, chosen at the start.                       *)
(***************************************************************************)
EXTENDS MCCredentialAdmin, PriorityLanes, PdfPool

VARIABLE parte

ProcesosInit ==
    /\ parte \in {"credentials", "lanes", "extractions"}
    /\ Init /\ PLInit /\ PPInit

ProcesosNext ==
    /\ UNCHANGED parte
    /\ \/ parte = "credentials" /\ Next /\ UNCHANGED <<PLvars, PPvars>>
       \/ parte = "lanes" /\ PLNext /\ UNCHANGED <<vars, PPvars>>
       \/ parte = "extractions" /\ PPNext /\ UNCHANGED <<vars, PLvars>>

ProcesosSpec == ProcesosInit /\ [][ProcesosNext]_<<vars, PLvars, PPvars, parte>>
=============================================================================
