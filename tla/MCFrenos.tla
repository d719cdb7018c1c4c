------------------------------- MODULE MCFrenos -------------------------------
(***************************************************************************)
(* Three parts that share no state, for TLC: the kill switch of the Mesa,  *)
(* the pause of the executor with its missions, and the invitations of the *)
(* Office.  A behaviour is of one of them, chosen at the start.            *)
(***************************************************************************)
EXTENDS MCKillSwitch, ExecutorMissions, InvitationDelivery

CONSTANT theSubject

VARIABLE parte

TodosEM == SUBSET FallasEM

OneSubject == [i \in Invitations |-> theSubject]

FrenosVars == <<vars, EMvars, IDvars, parte>>

\* The parts that do not run start in one state.
FrenosInit ==
    /\ parte \in {"mesa", "ejecutor", "invitations"} /\ Init /\ EMInit /\ IDInit
    /\ parte # "mesa" => fallas = {} /\ ~pausa
    /\ parte # "ejecutor" => fallasEM = {} /\ ~freno

\* Two runs of the delivery worker at once, as long as none has died and one guest
\* has come.
Pocos ==
    deaths > 0 \/ (\A g \in Guests : guest[g].at # "out")
        => Cardinality({w \in Workers : worker[w] # Idle}) <= 1

FrenosNext ==
    /\ UNCHANGED parte
    /\ \/ parte = "mesa" /\ Next /\ UNCHANGED <<EMvars, IDvars>>
       \/ parte = "ejecutor" /\ EMNext /\ UNCHANGED <<vars, IDvars>>
       \/ parte = "invitations" /\ IDNext /\ Pocos' /\ UNCHANGED <<vars, EMvars>>

\* The requests for missions end.
Acaba == parte = "ejecutor" /\ UNCHANGED FrenosVars

FrenosSpec == FrenosInit /\ [][FrenosNext \/ Acaba]_FrenosVars

\* Runs of the worker are interchangeable, and so are the invitations of one subject.
SimetriaFrenos == Simetria \union Permutations(Workers) \union Permutations(Invitations)
=============================================================================
