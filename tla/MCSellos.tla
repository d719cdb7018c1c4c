-------------------------------- MODULE MCSellos --------------------------------
(***************************************************************************)
(* What the seal of the facets invalidates, for TLC: the caches of facets  *)
(* and keys, and the context of governance.  A behaviour is of one or of   *)
(* the other, chosen at the start.                                         *)
(***************************************************************************)
EXTENDS MCFacetResolver, GovernanceContext

VARIABLE parte

SellosVars == <<vars, GCvars, parte>>

\* The part that does not run starts in one state.
SellosInit ==
    /\ parte \in {"facets", "governance"} /\ Init /\ GCInit
    /\ parte = "governance" => entorno = {"llave", "base"}

SellosNext ==
    /\ UNCHANGED parte
    /\ \/ parte = "facets" /\ Next /\ UNCHANGED GCvars
       \/ parte = "governance" /\ GCNext /\ UNCHANGED vars

SellosSpec == SellosInit /\ [][SellosNext]_SellosVars

Cancelados == Cardinality({t \in Turnos : turno[t] \in {"cancelado", "ido"}})

\* One thing at a time goes wrong around the context: the catalogue changes, the file
\* changes, or it cannot be read; with a turn cancelled the file is still, and with
\* two the catalogue as well.
DentroDelContexto ==
    /\ catalogo + ficheros + (IF legible THEN 0 ELSE 1) <= 1
    /\ Cancelados > 0 => ficheros = 0 /\ legible
    /\ Cancelados > 1 => catalogo = 0

DentroDeAmbas == Dentro /\ DentroDelContexto
=============================================================================
