------------------------------- MODULE UsageLedger -------------------------------
(***************************************************************************)
(* What the usage spool promises of every consumption it is given: it is   *)
(* charged, or it is on disk waiting, or somebody was told that it is      *)
(* lost, and a charge is never undone.  Only a row written by the platform *)
(* itself, whose direct INSERT carries no spool_id, can be charged twice.  *)
(* A file that could not be read is kept aside and not tried again, also   *)
(* when it holds a row and the disk failed for a moment: only a person     *)
(* charges it then.                                                        *)
(***************************************************************************)
CONSTANTS
    Filas,      \* consumptions
    Propias     \* those the platform records, with a direct INSERT first

VARIABLES
    tipo,       \* what each row is like: sana, venenosa (refused), ilegible (not a row)
    percances,  \* errors of the disk or the database, and crashes, so far
    estado      \* what became of each row

\* "ilegible" and "rechazada" are kept aside, for what the drain, or the table, said.
Estados == {"nada", "pendiente", "cobrada", "doble", "ilegible", "rechazada", "perdida"}

Init == estado = [f \in Filas |-> "nada"]

\* One row moves on.
Sigue(f) ==
    LET va == <<estado[f], estado'[f]>>
    IN  \/ va \in {"nada", "pendiente", "perdida"} \X {"cobrada"}
        \/ va \in {"nada"} \X {"pendiente", "perdida"}
        \* a full spool drops it, and says so
        \/ va = <<"pendiente", "perdida">>
        \* the table refuses it for what it holds
        \/ va = <<"pendiente", "rechazada">> /\ tipo[f] = "venenosa"
        \* it is not a row, or something failed just now
        \/ va = <<"pendiente", "ilegible">> /\ (tipo[f] = "ilegible" \/ percances' # percances)
        \/ va = <<"cobrada", "doble">> /\ f \in Propias

Next ==
    /\ estado' \in [Filas -> Estados]
    /\ \A f \in Filas : estado'[f] = estado[f] \/ Sigue(f)
    /\ UNCHANGED tipo

Spec == Init /\ [][Next]_<<tipo, percances, estado>>
=============================================================================
