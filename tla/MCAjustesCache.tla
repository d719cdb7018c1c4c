----------------------------- MODULE MCAjustesCache -----------------------------
(***************************************************************************)
(* Small instances of AjustesCache for TLC: calls are interchangeable.     *)
(***************************************************************************)
EXTENDS AjustesCache, TLC

Simetria == Permutations(Llamadas)
=============================================================================
