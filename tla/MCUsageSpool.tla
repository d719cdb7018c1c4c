------------------------------ MODULE MCUsageSpool ------------------------------
(***************************************************************************)
(* Small instances of UsageSpool for TLC.                                  *)
(***************************************************************************)
EXTENDS UsageSpool

\* The rows are recorded in an outage, which may end and begin again.
EnUnaCaida == Init /\ ~base
MCSpec == EnUnaCaida /\ [][Next]_vars /\ Justicia
=============================================================================
