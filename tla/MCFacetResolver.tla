----------------------------- MODULE MCFacetResolver -----------------------------
(***************************************************************************)
(* Small instances of FacetResolver for TLC.                               *)
(***************************************************************************)
EXTENDS FacetResolver, FiniteSets, TLC

\* The seal with a failing database; everything unreliable; and the keys.
Tres == {{"base"}, {"sello", "reloj", "base"}, {"llave", "base"}}

\* The keys, with the database up.
LlavesConBase == {{"llave"}}

\* The constraint, by environment: one call about the keys, with the binding at
\* rest; three ticks where two calls and two writers meet; and, with a seal that
\* may fail, one new version and a wall clock set back once.
Dentro ==
    /\ UsaLlave => /\ binding = 0
                   /\ Cardinality({c \in Llamadas : loc[c] # LocalesVacios}) <= 1
    /\ ~UsaLlave => mono <= 3
    /\ ~SelloFiable => binding <= 1 /\ pared >= mono

\* The names of calls and writers are interchangeable.
Simetria == Permutations(Llamadas) \cup Permutations(Escritores)
=============================================================================
