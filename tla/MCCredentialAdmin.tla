---------------------------- MODULE MCCredentialAdmin ----------------------------
(***************************************************************************)
(* Small instances of CredentialAdmin for TLC.                             *)
(***************************************************************************)
EXTENDS CredentialAdmin, TLC

Simetria == Permutations(Peticiones) \cup Permutations(Activaciones)
=============================================================================
