------------------------------- MODULE MCKillSwitch -------------------------------
(***************************************************************************)
(* Small instances of KillSwitch for TLC.                                  *)
(***************************************************************************)
EXTENDS KillSwitch, TLC

\* Every combination of faults.
Todos == SUBSET Fallas

\* The disk and the database fail.
DiscoYBase == {{"disco", "base"}}

\* Requests are interchangeable.
Simetria == Permutations(Llamadas)
=============================================================================
