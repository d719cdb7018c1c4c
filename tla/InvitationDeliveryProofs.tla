------------------------ MODULE InvitationDeliveryProofs ------------------------
(***************************************************************************)
(* Proofs about InvitationDelivery, for any invitations, subjects, workers *)
(* and guests, any limits and any number of runs that die.                 *)
(***************************************************************************)
EXTENDS InvitationDelivery, FiniteSetTheorems, TLAPS

\* A run that holds a claim has not mailed it twice, and if the claim was given up
\* meanwhile nothing was said of the relay.
Claims ==
    \A w \in Workers : worker[w].at \in {"send", "taken"} =>
        LET i == worker[w].inv IN
        /\ attempt[i] = w
        /\ sent[i] = IF worker[w].at = "send" THEN 0 ELSE 1
        /\ outbox[i] = "CLAIMED" \/ (outbox[i] = "UNKNOWN" /\ code[i] = "SMTP_STALE")

\* What has no claim was never mailed.
Unsent == \A i \in Invitations : outbox[i] \in {"none", "QUEUED", "CANCELLED"} => sent[i] = 0

\* The inductive invariant of the delivery.
DInv == IDTypeOK /\ Claims /\ Unsent /\ AtMostOneMail /\ RelayTruth

-----------------------------------------------------------------------------
(* What the transactions do to the rows *)

\* An invitation that ends keeps the shape of its row, and only an unclaimed mail
\* changes its state.
LEMMA EndShape ==
    ASSUME IDTypeOK, NEW i \in Invitations, NEW how \in Ends, status[i] = "ISSUED", End(i, how)
    PROVE  /\ status' \in [Invitations -> {"none", "ISSUED"} \union Ends]
           /\ due' = due /\ MailTypes' /\ sent' = sent /\ deaths' = deaths
           /\ \A j \in Invitations : RowShape(j)'
<1> USE DEF IDTypeOK, LifeTypes, MailTypes, End, CancelMail, Ends, Results
<1>1. \A j \in Invitations : RowShape(j)'
  BY DEF RowShape
<1>2. QED
  BY <1>1

\* So does a settlement.
LEMMA SettleShape ==
    ASSUME IDTypeOK, NEW i \in Invitations, NEW who \in Workers, NEW r \in Results,
           Settle(i, who, r), status' = status
    PROVE  MailTypes' /\ \A j \in Invitations : RowShape(j)'
<1> USE InvitationAssumptions
    DEF IDTypeOK, LifeTypes, MailTypes, Settle, Applies, Refines, Evidence, Delivered, Results, mail
<1>1. CASE Applies(i, who, r)
  <2>1. \A j \in Invitations : RowShape(j)'
    BY <1>1 DEF RowShape
  <2>2. QED
    BY <1>1, <2>1
<1>2. CASE ~Applies(i, who, r)
  BY <1>2 DEF RowShape
<1>3. QED
  BY <1>1, <1>2

-----------------------------------------------------------------------------
(* Types *)

\* The initial state is well typed.
LEMMA TypeInit == IDInit => IDTypeOK
<1> SUFFICES ASSUME IDInit PROVE IDTypeOK
  OBVIOUS
<1> USE InvitationAssumptions DEF IDInit, Idle, Phases
<1>1. LifeTypes /\ MailTypes
  BY DEF LifeTypes, MailTypes
<1>2. ActorTypes
  BY DEF ActorTypes
<1>3. \A i \in Invitations : RowShape(i)
  BY DEF RowShape
<1>4. QED
  BY <1>1, <1>2, <1>3 DEF IDTypeOK

\* Every step keeps the types.
LEMMA TypeStep == IDTypeOK /\ [IDNext]_IDvars => IDTypeOK'
<1> SUFFICES ASSUME IDTypeOK, [IDNext]_IDvars PROVE IDTypeOK'
  OBVIOUS
<1> USE InvitationAssumptions
<1>s. ASSUME UNCHANGED <<life, mail>> PROVE LifeTypes' /\ MailTypes' /\ \A i \in Invitations : RowShape(i)'
  BY <1>s DEF IDTypeOK, LifeTypes, MailTypes, RowShape, life, mail
<1>a. ASSUME UNCHANGED <<sent, deaths, worker, guest>> PROVE ActorTypes'
  BY <1>a DEF IDTypeOK, ActorTypes
<1>w. ASSUME NEW w \in Workers, NEW r, worker' = [worker EXCEPT ![w] = r],
             r \in [at : Phases, inv : Invitations \union {Nobody},
                    claims : SUBSET (Invitations \X Workers), n : Nat, again : BOOLEAN],
             r.at \in {"claim", "send", "taken"} => r.inv \in Invitations,
             UNCHANGED <<sent, deaths, guest>>
      PROVE  ActorTypes'
  BY <1>w DEF IDTypeOK, ActorTypes
<1>1. ASSUME NEW i \in Invitations, Issue(i) PROVE IDTypeOK'
  <2>1. \A j \in Invitations : RowShape(j)'
    BY <1>1 DEF Issue, IDTypeOK, RowShape, LifeTypes, MailTypes
  <2>2. LifeTypes' /\ MailTypes'
    BY <1>1 DEF Issue, IDTypeOK, LifeTypes, MailTypes
  <2>3. QED
    BY <1>1, <1>a, <2>1, <2>2 DEF Issue, IDTypeOK
<1>2. ASSUME NEW i \in Invitations, Revoke(i) PROVE IDTypeOK'
  BY <1>2, <1>a, EndShape DEF Revoke, IDTypeOK, LifeTypes, Ends
<1>3. ASSUME NEW i \in Invitations, FallDue(i) PROVE IDTypeOK'
  <2>1. LifeTypes'
    BY <1>3 DEF FallDue, IDTypeOK, LifeTypes
  <2>2. MailTypes' /\ \A j \in Invitations : RowShape(j)'
    BY <1>3 DEF FallDue, IDTypeOK, MailTypes, RowShape, mail
  <2>3. QED
    BY <1>3, <1>a, <2>1, <2>2 DEF FallDue, IDTypeOK
<1>4. ASSUME NEW i \in Invitations, GrowStale(i) PROVE IDTypeOK'
  <2>1. MailTypes'
    BY <1>4 DEF GrowStale, IDTypeOK, MailTypes
  <2>2. LifeTypes' /\ \A j \in Invitations : RowShape(j)'
    BY <1>4 DEF GrowStale, IDTypeOK, LifeTypes, RowShape, life
  <2>3. QED
    BY <1>4, <1>a, <2>1, <2>2 DEF GrowStale, IDTypeOK
<1>5. ASSUME NEW g \in Guests, NEW i \in Invitations, Present(g, i) PROVE IDTypeOK'
  BY <1>5, <1>s DEF Present, IDTypeOK, ActorTypes, life, mail
<1>6. ASSUME NEW g \in Guests, Accept(g) PROVE IDTypeOK'
  <2> DEFINE i == guest[g].inv
  <2>1. i \in Invitations
    BY <1>6 DEF Accept, IDTypeOK, ActorTypes
  <2>2. ASSUME sent' = sent, deaths' = deaths PROVE ActorTypes'
    BY <1>6, <2>2 DEF Accept, IDTypeOK, ActorTypes
  <2>3. ASSUME Acceptable(i), End(i, "ACCEPTED"), members' = [members EXCEPT ![i] = @ \union {g}] PROVE IDTypeOK'
    <3>1. members' \in [Invitations -> SUBSET Guests]
      BY <2>1, <2>3 DEF IDTypeOK, LifeTypes
    <3>2. QED
      BY <2>1, <2>2, <2>3, <3>1, EndShape DEF Acceptable, IDTypeOK, LifeTypes, Ends
  <2>4. ASSUME status[i] = "ISSUED", End(i, "EXPIRED"), UNCHANGED members PROVE IDTypeOK'
    BY <2>1, <2>2, <2>4, EndShape DEF IDTypeOK, LifeTypes, Ends
  <2>5. ASSUME UNCHANGED <<life, mail, sent, deaths>> PROVE IDTypeOK'
    BY <2>2, <2>5, <1>s DEF IDTypeOK
  <2>6. QED
    BY <1>6, <2>3, <2>4, <2>5 DEF Accept
<1>7. ASSUME NEW w \in Workers, Run(w) PROVE IDTypeOK'
  <2> USE DEF Moves, Stops, Idle, Phases
  <2>0. worker[w] \in [at : Phases, inv : Invitations \union {Nobody},
                       claims : SUBSET (Invitations \X Workers), n : Nat, again : BOOLEAN]
    BY DEF IDTypeOK, ActorTypes
  <2>f. worker \in [Workers -> [at : Phases, inv : Invitations \union {Nobody},
                               claims : SUBSET (Invitations \X Workers), n : Nat, again : BOOLEAN]]
    BY DEF IDTypeOK, ActorTypes
  <2>1. CASE Start(w)
    BY <2>0, <2>1, <1>s, <1>w DEF Start, IDTypeOK
  <2>2. CASE ExpireDue(w)
    <3>1. CASE DueOnes # {} /\ worker[w].n < ExpiryLimit
      <4>1. PICK i \in DueOnes : End(i, "EXPIRED")
        BY <2>2, <3>1 DEF ExpireDue
      <4>2. ActorTypes'
        BY <2>0, <2>2, <3>1, <4>1, <1>w DEF ExpireDue, End
      <4>3. QED
        BY <2>2, <4>1, <4>2, EndShape DEF ExpireDue, DueOnes, IDTypeOK, LifeTypes, Ends
    <3>2. CASE ~(DueOnes # {} /\ worker[w].n < ExpiryLimit)
      BY <2>0, <2>2, <3>2, <1>s, <1>w DEF ExpireDue, IDTypeOK, life
    <3>3. QED
      BY <3>1, <3>2
  <2>3. CASE ListStale(w)
    <3>1. StaleClaims \subseteq Invitations \X Workers
      BY DEF StaleClaims, IDTypeOK, MailTypes, RowShape
    <3>2. PICK batch \in SUBSET StaleClaims :
             worker' = [worker EXCEPT ![w] = [worker[w] EXCEPT !.at = "settle", !.claims = batch]]
      BY <2>f, <2>3 DEF ListStale
    <3>3. ActorTypes'
      BY <2>0, <2>3, <3>1, <3>2, <1>w DEF ListStale
    <3>4. QED
      BY <2>3, <3>3, <1>s DEF ListStale, IDTypeOK
  <2>4. CASE SettleStale(w)
    <3>1. PICK c \in worker[w].claims :
             /\ Settle(c[1], c[2], "SMTP_STALE")
             /\ worker' = [worker EXCEPT ![w].claims = @ \ {c},
                                         ![w].n = IF Applies(c[1], c[2], "SMTP_STALE") THEN @ + 1 ELSE @]
      BY <2>4 DEF SettleStale
    <3>2. c[1] \in Invitations /\ c[2] \in Workers
      BY <2>0
    <3>3. MailTypes' /\ \A j \in Invitations : RowShape(j)'
      BY <2>4, <3>1, <3>2, SettleShape DEF SettleStale, Results, life
    <3>4. PICK k \in {worker[w].n, worker[w].n + 1} :
             worker' = [worker EXCEPT ![w] = [worker[w] EXCEPT !.claims = @ \ {c}, !.n = k]]
      BY <2>f, <3>1
    <3>5. worker[w].at = "settle" /\ UNCHANGED <<sent, deaths, guest>>
      BY <2>4 DEF SettleStale
    <3>6. ActorTypes'
      <4>1. [worker[w] EXCEPT !.claims = @ \ {c}, !.n = k] \in
               [at : Phases, inv : Invitations \union {Nobody},
                claims : SUBSET (Invitations \X Workers), n : Nat, again : BOOLEAN]
        <5>1. worker[w].n \in Nat /\ k \in Nat /\ worker[w].claims \ {c} \subseteq worker[w].claims
          BY <2>0
        <5>2. QED
          BY <2>0, <5>1
      <4>2. QED
        BY <2>0, <3>4, <3>5, <4>1, <1>w
    <3>7. QED
      BY <2>4, <3>3, <3>6 DEF SettleStale, IDTypeOK, LifeTypes, life
  <2>5. CASE SettledStale(w)
    BY <2>0, <2>5, <1>s, <1>w DEF SettledStale, IDTypeOK
  <2>6. CASE Look(w)
    <3>1. ASSUME NEW i \in Queued, worker' = [worker EXCEPT ![w].at = "claim", ![w].inv = i] PROVE ActorTypes'
      <4>1. worker' = [worker EXCEPT ![w] = [worker[w] EXCEPT !.at = "claim", !.inv = i]]
        BY <2>f, <3>1
      <4>2. QED
        BY <2>0, <2>6, <4>1, <1>w DEF Look, Queued
    <3>2. ASSUME Stops(w, "look") PROVE ActorTypes'
      BY <2>6, <3>2, <1>w DEF Look
    <3>3. ActorTypes'
      BY <2>6, <3>1, <3>2 DEF Look
    <3>4. QED
      BY <2>6, <3>3, <1>s DEF Look, IDTypeOK
  <2>7. CASE Claim(w)
    <3> DEFINE i == worker[w].inv
    <3>1. i \in Invitations
      BY <2>7 DEF Claim, IDTypeOK, ActorTypes
    <3>2. CASE ~StillQueued(i) \/ due[i]
      BY <2>0, <2>7, <3>1, <3>2, <1>s, <1>w DEF Claim, IDTypeOK
    <3>3. CASE StillQueued(i) /\ ~due[i]
      <4>1. MailTypes' /\ \A j \in Invitations : RowShape(j)'
        <5>1. /\ outbox' = [outbox EXCEPT ![i] = "CLAIMED"] /\ attempt' = [attempt EXCEPT ![i] = w]
              /\ stale' = [stale EXCEPT ![i] = FALSE] /\ UNCHANGED <<code, payload, observed, status>>
          BY <2>7, <3>3 DEF Claim, life
        <5>2. MailTypes'
          BY <3>1, <5>1 DEF IDTypeOK, MailTypes
        <5>3. \A j \in Invitations : RowShape(j)'
          BY <3>1, <3>3, <5>1 DEF StillQueued, IDTypeOK, MailTypes, RowShape
        <5>4. QED
          BY <5>2, <5>3
      <4>2. ActorTypes'
        BY <2>0, <2>7, <3>1, <3>3, <1>w DEF Claim
      <4>3. QED
        BY <2>7, <4>1, <4>2 DEF Claim, IDTypeOK, LifeTypes, life
    <3>4. QED
      BY <3>2, <3>3
  <2>8. CASE ExpireOne(w)
    <3>1. ASSUME sent' = sent, deaths' = deaths PROVE ActorTypes'
      <4>1. CASE worker[w].again
        BY <2>8, <3>1, <4>1, <1>w DEF ExpireOne
      <4>2. CASE ~worker[w].again
        <5>1. worker' = [worker EXCEPT ![w] = [worker[w] EXCEPT !.at = "look", !.inv = Nobody, !.again = TRUE]]
          BY <2>f, <2>8, <4>2 DEF ExpireOne
        <5>2. QED
          BY <2>0, <2>8, <3>1, <5>1, <1>w DEF ExpireOne
      <4>3. QED
        BY <4>1, <4>2
    <3>2. ASSUME NEW i \in DueOnes, End(i, "EXPIRED") PROVE IDTypeOK'
      BY <2>8, <3>1, <3>2, EndShape DEF ExpireOne, DueOnes, IDTypeOK, LifeTypes, Ends
    <3>3. ASSUME UNCHANGED <<status, due, mail, sent, deaths>> PROVE IDTypeOK'
      BY <2>8, <3>1, <3>3, <1>s DEF ExpireOne, IDTypeOK, life
    <3>4. QED
      BY <2>8, <3>2, <3>3 DEF ExpireOne
  <2>9. CASE Send(w)
    BY <2>9, <1>s DEF Send, IDTypeOK, ActorTypes
  <2>10. CASE SettleAccepted(w)
    <3>1. worker[w].inv \in Invitations
      BY <2>10 DEF SettleAccepted, IDTypeOK, ActorTypes
    <3>2. MailTypes' /\ \A j \in Invitations : RowShape(j)'
      BY <2>10, <3>1, SettleShape DEF SettleAccepted, Results, life
    <3>3. ActorTypes'
      <4>1. CASE Stops(w, "taken")
        BY <2>10, <4>1, <1>w DEF SettleAccepted
      <4>2. CASE ~Stops(w, "taken")
        <5>1. worker' = [worker EXCEPT ![w] =
                           [at |-> "look", inv |-> Nobody, claims |-> {}, n |-> worker[w].n + 1, again |-> FALSE]]
          BY <2>10, <4>2 DEF SettleAccepted
        <5>2. worker[w].n + 1 \in Nat
          BY <2>0
        <5>3. UNCHANGED <<sent, deaths, guest>>
          BY <2>10 DEF SettleAccepted
        <5>4. QED
          BY <5>1, <5>2, <5>3, <1>w
      <4>3. QED
        BY <4>1, <4>2
    <3>4. QED
      BY <2>10, <3>2, <3>3 DEF SettleAccepted, IDTypeOK, LifeTypes, life
  <2>11. CASE SettleUnknown(w)
    <3>1. worker[w].inv \in Invitations
      BY <2>11 DEF SettleUnknown, IDTypeOK, ActorTypes
    <3>2. MailTypes' /\ \A j \in Invitations : RowShape(j)'
      BY <2>11, <3>1, SettleShape DEF SettleUnknown, Results, life
    <3>3. ActorTypes'
      BY <2>0, <2>11, <1>w DEF SettleUnknown
    <3>4. QED
      BY <2>11, <3>2, <3>3 DEF SettleUnknown, IDTypeOK, LifeTypes, life
  <2>12. QED
    BY <1>7, <2>1, <2>2, <2>3, <2>4, <2>5, <2>6, <2>7, <2>8, <2>9, <2>10, <2>11 DEF Run
<1>8. ASSUME NEW w \in Workers, Die(w) PROVE IDTypeOK'
  BY <1>8, <1>s DEF Die, Idle, Phases, IDTypeOK, ActorTypes
<1>9. CASE UNCHANGED IDvars
  BY <1>9, <1>s, <1>a DEF IDvars, IDTypeOK
<1>10. QED
  BY <1>1, <1>2, <1>3, <1>4, <1>5, <1>6, <1>7, <1>8, <1>9 DEF IDNext

\* The theorem of types: every reachable state is well typed, and every row of the
\* outbox satisfies the CHECK of its table.
THEOREM WellTyped == IDSpec => []IDTypeOK
<1>1. IDInit => IDTypeOK
  BY TypeInit
<1>2. IDTypeOK /\ [IDNext]_IDvars => IDTypeOK'
  BY TypeStep
<1>3. QED
  BY <1>1, <1>2, PTL DEF IDSpec

-----------------------------------------------------------------------------
(* The relay *)

\* Steps that only queue or cancel mails, and let nobody take one up.
LEMMA QuietKeeps ==
    ASSUME DInv, sent' = sent, attempt' = attempt, observed' = observed,
           \A i \in Invitations :
              \/ outbox'[i] = outbox[i] /\ code'[i] = code[i]
              \/ outbox[i] = "QUEUED" /\ outbox'[i] = "CANCELLED"
              \/ outbox[i] = "none" /\ outbox'[i] = "QUEUED",
           \A w \in Workers : worker'[w].at \in {"send", "taken"} => worker'[w] = worker[w]
    PROVE  Claims' /\ Unsent' /\ AtMostOneMail' /\ RelayTruth'
<1> USE DEF DInv
<1>1. Claims'
  <2> SUFFICES ASSUME NEW w \in Workers, worker'[w].at \in {"send", "taken"}
               PROVE  LET i == worker'[w].inv IN
                      /\ attempt'[i] = w
                      /\ sent'[i] = IF worker'[w].at = "send" THEN 0 ELSE 1
                      /\ outbox'[i] = "CLAIMED" \/ (outbox'[i] = "UNKNOWN" /\ code'[i] = "SMTP_STALE")
    BY DEF Claims
  <2>1. worker'[w] = worker[w] /\ worker[w].inv \in Invitations
    BY DEF IDTypeOK, ActorTypes
  <2>2. QED
    BY <2>1 DEF Claims
<1>2. Unsent'
  BY DEF Unsent
<1>3. AtMostOneMail'
  BY DEF AtMostOneMail
<1>4. RelayTruth'
  <2> SUFFICES ASSUME NEW i \in Invitations
               PROVE  /\ outbox'[i] = "SMTP_ACCEPTED" => sent'[i] > 0 /\ observed'[i] = "SMTP_ACCEPTED"
                      /\ outbox'[i] \in {"QUEUED", "CANCELLED"} => sent'[i] = 0
                      /\ observed'[i] # "none" => observed'[i] = outbox'[i]
                      /\ outbox'[i] = "UNKNOWN" => (observed'[i] = "none" <=> code'[i] = "SMTP_STALE")
    BY DEF RelayTruth
  <2>1. observed[i] \in {"none", "SMTP_ACCEPTED", "UNKNOWN"}
    BY DEF IDTypeOK, MailTypes
  <2>2. QED
    BY <2>1 DEF RelayTruth, Unsent
<1>5. QED
  BY <1>1, <1>2, <1>3, <1>4

\* An invitation that ends only cancels a queued mail.
LEMMA EndIsQuiet ==
    ASSUME IDTypeOK, NEW i \in Invitations, NEW how, End(i, how)
    PROVE  /\ sent' = sent /\ attempt' = attempt /\ observed' = observed
           /\ \A j \in Invitations : \/ outbox'[j] = outbox[j] /\ code'[j] = code[j]
                                     \/ outbox[j] = "QUEUED" /\ outbox'[j] = "CANCELLED"
BY DEF IDTypeOK, MailTypes, End, CancelMail

\* A settlement of what is known: an acceptance of a mail that was taken, by a run
\* that then lets go of it, or a claim that is given up.
LEMMA SettleKeeps ==
    ASSUME DInv, NEW i \in Invitations, NEW who \in Workers, NEW r \in Results,
           Settle(i, who, r), sent' = sent,
           r = "SMTP_ACCEPTED" => sent[i] = 1,
           r # "SMTP_STALE" => worker'[who].at \notin {"send", "taken"},
           \A w \in Workers : worker'[w].at \in {"send", "taken"} => worker'[w] = worker[w]
    PROVE  Claims' /\ Unsent' /\ AtMostOneMail' /\ RelayTruth'
<1> USE DEF DInv
<1>1. CASE ~Applies(i, who, r)
  <2>1. UNCHANGED mail
    BY <1>1 DEF Settle
  <2>2. QED
    BY <2>1, QuietKeeps DEF mail
<1>2. CASE Applies(i, who, r)
  <2>1. /\ outbox' = [outbox EXCEPT ![i] = Delivered(r)] /\ code' = [code EXCEPT ![i] = r]
        /\ attempt' = attempt
        /\ observed' = IF r = "SMTP_STALE" THEN observed ELSE [observed EXCEPT ![i] = Delivered(r)]
    BY <1>2 DEF Settle, Evidence
  <2>2. /\ attempt[i] = who
        /\ outbox[i] = "CLAIMED" \/ (outbox[i] = "UNKNOWN" /\ r = "SMTP_ACCEPTED" /\ code[i] = "SMTP_STALE")
    BY <1>2 DEF Applies, Refines
  <2>3. observed[i] = "none"
    BY <1>2, <2>2 DEF Applies, Refines, RelayTruth, IDTypeOK, MailTypes
  <2>4. /\ outbox \in [Invitations -> {"none", "QUEUED", "CLAIMED", "SMTP_ACCEPTED", "UNKNOWN", "CANCELLED"}]
        /\ DOMAIN code = Invitations /\ DOMAIN observed = Invitations
    BY DEF IDTypeOK, MailTypes
  <2>5. Claims'
    <3> SUFFICES ASSUME NEW w \in Workers, worker'[w].at \in {"send", "taken"}
                 PROVE  LET j == worker'[w].inv IN
                        /\ attempt'[j] = w
                        /\ sent'[j] = IF worker'[w].at = "send" THEN 0 ELSE 1
                        /\ outbox'[j] = "CLAIMED" \/ (outbox'[j] = "UNKNOWN" /\ code'[j] = "SMTP_STALE")
      BY DEF Claims
    <3> DEFINE j == worker[w].inv
    <3>1. worker'[w] = worker[w] /\ j \in Invitations
      BY DEF IDTypeOK, ActorTypes
    <3>2. /\ attempt[j] = w /\ sent[j] = IF worker[w].at = "send" THEN 0 ELSE 1
          /\ outbox[j] = "CLAIMED" \/ (outbox[j] = "UNKNOWN" /\ code[j] = "SMTP_STALE")
      BY <3>1 DEF Claims
    <3>3. CASE j # i
      BY <2>1, <2>4, <3>1, <3>2, <3>3
    <3>4. CASE j = i
      <4>1. w = who /\ r = "SMTP_STALE"
        BY <2>2, <3>1, <3>2, <3>4
      <4>2. QED
        BY <2>1, <2>4, <3>1, <3>2, <3>4, <4>1 DEF Delivered
    <3>5. QED
      BY <3>3, <3>4
  <2>6. Unsent'
    BY <2>1, <2>4 DEF Unsent, Delivered
  <2>7. AtMostOneMail'
    BY DEF AtMostOneMail
  <2>8. RelayTruth'
    <3> SUFFICES ASSUME NEW j \in Invitations
                 PROVE  /\ outbox'[j] = "SMTP_ACCEPTED" => sent'[j] > 0 /\ observed'[j] = "SMTP_ACCEPTED"
                        /\ outbox'[j] \in {"QUEUED", "CANCELLED"} => sent'[j] = 0
                        /\ observed'[j] # "none" => observed'[j] = outbox'[j]
                        /\ outbox'[j] = "UNKNOWN" => (observed'[j] = "none" <=> code'[j] = "SMTP_STALE")
      BY DEF RelayTruth
    <3>1. CASE j # i
      BY <2>1, <2>4, <3>1 DEF RelayTruth
    <3>2. CASE j = i
      BY <2>1, <2>3, <2>4, <3>2 DEF Delivered, Results
    <3>3. QED
      BY <3>1, <3>2
  <2>9. QED
    BY <2>5, <2>6, <2>7, <2>8
<1>3. QED
  BY <1>1, <1>2

\* The invariant of the delivery holds at the start.
LEMMA DeliveryInit == IDInit => DInv
BY TypeInit DEF IDInit, Idle, DInv, Claims, Unsent, AtMostOneMail, RelayTruth

\* Every step keeps it.
LEMMA DeliveryStep == DInv /\ [IDNext]_IDvars => DInv'
<1> SUFFICES ASSUME DInv, [IDNext]_IDvars PROVE Claims' /\ Unsent' /\ AtMostOneMail' /\ RelayTruth'
  BY TypeStep DEF DInv
<1> DEFINE Good == Claims' /\ Unsent' /\ AtMostOneMail' /\ RelayTruth'
<1>t. IDTypeOK /\ worker \in [Workers -> [at : Phases, inv : Invitations \union {Nobody},
                                       claims : SUBSET (Invitations \X Workers), n : Nat, again : BOOLEAN]]
  BY DEF DInv, IDTypeOK, ActorTypes
<1>q. ASSUME UNCHANGED <<mail, sent>>,
             \A w \in Workers : worker'[w].at \in {"send", "taken"} => worker'[w] = worker[w]
      PROVE  Good
  BY <1>q, QuietKeeps DEF mail
<1>e. ASSUME NEW i \in Invitations, NEW how, End(i, how),
             \A w \in Workers : worker'[w].at \in {"send", "taken"} => worker'[w] = worker[w]
      PROVE  Good
  BY <1>e, <1>t, EndIsQuiet, QuietKeeps
<1>1. ASSUME NEW i \in Invitations, Issue(i) PROVE Good
  <2>1. outbox[i] = "none"
    BY <1>1, <1>t DEF Issue, IDTypeOK, RowShape
  <2>2. QED
    BY <1>1, <1>t, <2>1, QuietKeeps DEF Issue, IDTypeOK, MailTypes
<1>2. ASSUME NEW i \in Invitations, Revoke(i) \/ FallDue(i) \/ GrowStale(i) PROVE Good
  <2>1. CASE Revoke(i)
    BY <1>e, <2>1 DEF Revoke
  <2>2. CASE FallDue(i)
    BY <1>q, <2>2 DEF FallDue
  <2>3. CASE GrowStale(i)
    BY <2>3, QuietKeeps DEF GrowStale
  <2>4. QED
    BY <1>2, <2>1, <2>2, <2>3
<1>3. ASSUME NEW g \in Guests, Accept(g) \/ \E i \in Invitations : Present(g, i) PROVE Good
  <2>1. ASSUME NEW i \in Invitations, Present(g, i) PROVE Good
    BY <1>q, <2>1 DEF Present
  <2>2. CASE Accept(g)
    <3>1. guest[g].inv \in Invitations
      BY <2>2, <1>t DEF Accept, IDTypeOK, ActorTypes
    <3>2. worker' = worker
      BY <2>2 DEF Accept
    <3>3. CASE UNCHANGED <<life, mail, sent, deaths>>
      BY <1>q, <3>2, <3>3
    <3>4. CASE ~UNCHANGED <<life, mail, sent, deaths>>
      BY <1>e, <2>2, <3>1, <3>2, <3>4 DEF Accept
    <3>5. QED
      BY <3>3, <3>4
  <2>3. QED
    BY <1>3, <2>1, <2>2
<1>4. ASSUME NEW w \in Workers, Run(w) \/ Die(w) PROVE Good
  <2> USE DEF Moves, Stops, Idle
  <2>1. CASE Start(w) \/ ListStale(w) \/ SettledStale(w) \/ Look(w) \/ Die(w)
    <3>1. CASE Start(w)
      BY <1>q, <1>t, <3>1 DEF Start
    <3>2. CASE ListStale(w)
      BY <1>q, <1>t, <3>2 DEF ListStale
    <3>3. CASE SettledStale(w)
      BY <1>q, <1>t, <3>3 DEF SettledStale
    <3>4. CASE Look(w)
      <4>1. \A v \in Workers : worker'[v].at \in {"send", "taken"} => worker'[v] = worker[v]
        BY <1>t, <3>4 DEF Look
      <4>2. QED
        BY <1>q, <3>4, <4>1 DEF Look
    <3>5. CASE Die(w)
      BY <1>q, <1>t, <3>5 DEF Die
    <3>6. QED
      BY <2>1, <3>1, <3>2, <3>3, <3>4, <3>5
  <2>2. CASE ExpireDue(w)
    <3>1. \A v \in Workers : worker'[v].at \in {"send", "taken"} => worker'[v] = worker[v]
      BY <1>t, <2>2 DEF ExpireDue
    <3>2. CASE UNCHANGED <<mail, sent>>
      BY <1>q, <3>1, <3>2
    <3>3. CASE ~UNCHANGED <<mail, sent>>
      BY <1>e, <2>2, <3>1, <3>3 DEF ExpireDue, DueOnes
    <3>4. QED
      BY <3>2, <3>3
  <2>3. CASE ExpireOne(w)
    <3>1. \A v \in Workers : worker'[v].at \in {"send", "taken"} => worker'[v] = worker[v]
      BY <1>t, <2>3 DEF ExpireOne
    <3>2. CASE UNCHANGED <<mail, sent>>
      BY <1>q, <3>1, <3>2
    <3>3. CASE ~UNCHANGED <<mail, sent>>
      BY <1>e, <2>3, <3>1, <3>3 DEF ExpireOne, DueOnes
    <3>4. QED
      BY <3>2, <3>3
  <2>4. CASE SettleStale(w)
    <3>1. PICK c \in worker[w].claims :
             /\ Settle(c[1], c[2], "SMTP_STALE")
             /\ worker' = [worker EXCEPT ![w].claims = @ \ {c},
                                         ![w].n = IF Applies(c[1], c[2], "SMTP_STALE") THEN @ + 1 ELSE @]
      BY <2>4 DEF SettleStale
    <3>2. c[1] \in Invitations /\ c[2] \in Workers
      BY <1>t
    <3>3. sent' = sent /\ worker[w].at = "settle"
      BY <2>4 DEF SettleStale
    <3>4. \A v \in Workers : worker'[v].at \in {"send", "taken"} => worker'[v] = worker[v]
      BY <1>t, <3>1, <3>3
    <3>5. QED
      BY <3>1, <3>2, <3>3, <3>4, SettleKeeps DEF Results
  <2>5. CASE Claim(w)
    <3> DEFINE i == worker[w].inv
    <3>1. i \in Invitations
      BY <2>5, <1>t DEF Claim, IDTypeOK, ActorTypes
    <3>2. CASE UNCHANGED mail
      <4>1. worker'[w].at \notin {"send", "taken"}
        <5>1. CASE ~StillQueued(i) \/ due[i]
          BY <1>t, <2>5, <5>1 DEF Claim
        <5>2. CASE StillQueued(i) /\ ~due[i]
          BY <1>t, <2>5, <3>1, <3>2, <5>2 DEF Claim, StillQueued, mail, IDTypeOK, MailTypes
        <5>3. QED
          BY <5>1, <5>2
      <4>2. \A v \in Workers \ {w} : worker'[v] = worker[v]
        BY <1>t, <2>5 DEF Claim
      <4>3. QED
        BY <1>q, <2>5, <3>2, <4>1, <4>2 DEF Claim
    <3>3. CASE ~UNCHANGED mail
      <4>1. /\ outbox[i] = "QUEUED"
            /\ outbox' = [outbox EXCEPT ![i] = "CLAIMED"] /\ attempt' = [attempt EXCEPT ![i] = w]
            /\ UNCHANGED <<code, observed, sent>>
            /\ worker[w].at = "claim"
            /\ worker' = [worker EXCEPT ![w] = Idle] \/ worker' = [worker EXCEPT ![w].at = "send"]
        BY <2>5, <3>3 DEF Claim, StillQueued
      <4>2. DOMAIN outbox = Invitations /\ DOMAIN attempt = Invitations
        BY <1>t DEF IDTypeOK, MailTypes
      <4>3. Claims'
        <5> SUFFICES ASSUME NEW v \in Workers, worker'[v].at \in {"send", "taken"}
                     PROVE  LET j == worker'[v].inv IN
                            /\ attempt'[j] = v
                            /\ sent'[j] = IF worker'[v].at = "send" THEN 0 ELSE 1
                            /\ outbox'[j] = "CLAIMED" \/ (outbox'[j] = "UNKNOWN" /\ code'[j] = "SMTP_STALE")
          BY DEF Claims
        <5>1. CASE v = w
          <6>1. worker'[v].at = "send" /\ worker'[v].inv = i
            BY <1>t, <4>1, <5>1
          <6>2. sent[i] = 0
            BY <3>1, <4>1 DEF DInv, Unsent
          <6>3. QED
            BY <3>1, <4>1, <4>2, <5>1, <6>1, <6>2
        <5>2. CASE v # w
          <6>1. worker'[v] = worker[v] /\ worker[v].inv \in Invitations /\ worker[v].at \in {"send", "taken"}
            BY <1>t, <4>1, <5>2 DEF IDTypeOK, ActorTypes
          <6>2. outbox[worker[v].inv] # "QUEUED"
            BY <6>1 DEF DInv, Claims
          <6>3. worker[v].inv # i
            BY <4>1, <6>2
          <6>4. QED
            BY <4>1, <4>2, <6>1, <6>3 DEF DInv, Claims
        <5>3. QED
          BY <5>1, <5>2
      <4>4. Unsent' /\ AtMostOneMail'
        BY <4>1, <4>2 DEF DInv, Unsent, AtMostOneMail
      <4>5. RelayTruth'
        <5>1. observed[i] = "none"
          BY <1>t, <3>1, <4>1 DEF DInv, RelayTruth, IDTypeOK, MailTypes
        <5>2. QED
          BY <3>1, <4>1, <4>2, <5>1 DEF DInv, RelayTruth
      <4>6. QED
        BY <4>3, <4>4, <4>5
    <3>4. QED
      BY <3>2, <3>3
  <2>6. CASE Send(w)
    <3> DEFINE i == worker[w].inv
    <3>1. /\ i \in Invitations /\ sent[i] = 0 /\ attempt[i] = w
          /\ outbox[i] = "CLAIMED" \/ (outbox[i] = "UNKNOWN" /\ code[i] = "SMTP_STALE")
      BY <1>t, <2>6 DEF Send, DInv, Claims, IDTypeOK, ActorTypes
    <3>2. /\ worker' = [worker EXCEPT ![w].at = "taken"] /\ sent' = [sent EXCEPT ![i] = @ + 1]
          /\ UNCHANGED mail /\ worker[w].at = "send"
      BY <2>6 DEF Send
    <3>3. sent \in [Invitations -> Nat]
      BY <1>t DEF IDTypeOK, ActorTypes
    <3>4. Claims'
      <4> SUFFICES ASSUME NEW v \in Workers, worker'[v].at \in {"send", "taken"}
                   PROVE  LET j == worker'[v].inv IN
                          /\ attempt'[j] = v
                          /\ sent'[j] = IF worker'[v].at = "send" THEN 0 ELSE 1
                          /\ outbox'[j] = "CLAIMED" \/ (outbox'[j] = "UNKNOWN" /\ code'[j] = "SMTP_STALE")
        BY DEF Claims
      <4>1. CASE v = w
        <5>1. worker'[v].at = "taken" /\ worker'[v].inv = i
          BY <1>t, <3>2, <4>1
        <5>2. QED
          BY <3>1, <3>2, <3>3, <4>1, <5>1 DEF mail
      <4>2. CASE v # w
        <5>1. worker'[v] = worker[v] /\ worker[v].inv \in Invitations /\ worker[v].at \in {"send", "taken"}
          BY <1>t, <3>2, <4>2 DEF IDTypeOK, ActorTypes
        <5>2. attempt[worker[v].inv] = v
          BY <5>1 DEF DInv, Claims
        <5>3. worker[v].inv # i
          BY <3>1, <4>2, <5>2
        <5>4. QED
          BY <3>2, <3>3, <5>1, <5>3 DEF DInv, Claims, mail
      <4>3. QED
        BY <4>1, <4>2
    <3>5. Unsent' /\ AtMostOneMail'
      BY <3>1, <3>2, <3>3 DEF DInv, Unsent, AtMostOneMail, mail
    <3>6. RelayTruth'
      BY <3>1, <3>2, <3>3 DEF DInv, RelayTruth, mail
    <3>7. QED
      BY <3>4, <3>5, <3>6
  <2>7. CASE SettleAccepted(w)
    <3>1. worker[w].inv \in Invitations /\ sent[worker[w].inv] = 1
      BY <1>t, <2>7 DEF SettleAccepted, DInv, Claims, IDTypeOK, ActorTypes
    <3>2. \A v \in Workers : v # w => worker'[v] = worker[v]
      BY <1>t, <2>7 DEF SettleAccepted
    <3>3. worker'[w].at \notin {"send", "taken"}
      BY <1>t, <2>7 DEF SettleAccepted
    <3>4. Settle(worker[w].inv, w, "SMTP_ACCEPTED") /\ sent' = sent
      BY <2>7 DEF SettleAccepted
    <3>5. QED
      BY <3>1, <3>2, <3>3, <3>4, SettleKeeps DEF Results
  <2>8. CASE SettleUnknown(w)
    <3>1. worker[w].inv \in Invitations
      BY <1>t, <2>8 DEF SettleUnknown, IDTypeOK, ActorTypes
    <3>2. \A v \in Workers : worker'[v].at \in {"send", "taken"} => worker'[v] = worker[v] /\ v # w
      BY <1>t, <2>8 DEF SettleUnknown
    <3>3. Settle(worker[w].inv, w, "SMTP_UNKNOWN") /\ sent' = sent
      BY <2>8 DEF SettleUnknown
    <3>4. QED
      BY <3>1, <3>2, <3>3, SettleKeeps DEF Results
  <2>9. QED
    BY <1>4, <2>1, <2>2, <2>3, <2>4, <2>5, <2>6, <2>7, <2>8 DEF Run
<1>5. CASE UNCHANGED IDvars
  BY <1>5, <1>q DEF IDvars
<1>6. QED
  BY <1>1, <1>2, <1>3, <1>4, <1>5 DEF IDNext

\* The delivery: for any number of workers and of runs that die, no bearer is mailed
\* twice.
THEOREM MailedOnce == IDSpec => []AtMostOneMail
<1>1. IDInit => DInv
  BY DeliveryInit
<1>2. DInv /\ [IDNext]_IDvars => DInv'
  BY DeliveryStep
<1>3. DInv => AtMostOneMail
  BY DEF DInv
<1>4. QED
  BY <1>1, <1>2, <1>3, PTL DEF IDSpec

\* The outbox and its evidence say the truth about the relay.
THEOREM TruthOfTheRelay == IDSpec => []RelayTruth
<1>1. IDInit => DInv
  BY DeliveryInit
<1>2. DInv /\ [IDNext]_IDvars => DInv'
  BY DeliveryStep
<1>3. DInv => RelayTruth
  BY DEF DInv
<1>4. QED
  BY <1>1, <1>2, <1>3, PTL DEF IDSpec

-----------------------------------------------------------------------------
(* The bearer and the member *)

\* A settlement erases the bearer or leaves the row.
LEMMA SettleErases ==
    ASSUME IDTypeOK, BearerErased, NEW i \in Invitations, NEW who, NEW r, Settle(i, who, r), status' = status
    PROVE  BearerErased'
BY DEF IDTypeOK, MailTypes, BearerErased, Settle, mail

\* An end erases the bearer of its invitation.
LEMMA EndErases ==
    ASSUME IDTypeOK, BearerErased, NEW i \in Invitations, NEW how, End(i, how)
    PROVE  BearerErased'
BY DEF IDTypeOK, LifeTypes, MailTypes, BearerErased, End, CancelMail

\* Every step keeps the bearer of what is dead erased.
LEMMA BearerStep == IDTypeOK /\ BearerErased /\ [IDNext]_IDvars => BearerErased'
<1> SUFFICES ASSUME IDTypeOK, BearerErased, [IDNext]_IDvars PROVE BearerErased'
  OBVIOUS
<1>s. ASSUME UNCHANGED <<status, payload>> PROVE BearerErased'
  BY <1>s DEF BearerErased
<1>1. ASSUME NEW i \in Invitations, Issue(i) PROVE BearerErased'
  BY <1>1 DEF Issue, IDTypeOK, LifeTypes, MailTypes, BearerErased
<1>2. ASSUME NEW i \in Invitations, Revoke(i) \/ FallDue(i) \/ GrowStale(i) PROVE BearerErased'
  BY <1>2, <1>s, EndErases DEF Revoke, FallDue, GrowStale, life, mail
<1>3. ASSUME NEW g \in Guests, Accept(g) PROVE BearerErased'
  <2>1. guest[g].inv \in Invitations
    BY <1>3 DEF Accept, IDTypeOK, ActorTypes
  <2>2. QED
    BY <1>3, <1>s, <2>1, EndErases DEF Accept, life, mail
<1>4. ASSUME NEW g \in Guests, NEW i \in Invitations, Present(g, i) PROVE BearerErased'
  BY <1>4, <1>s DEF Present, life, mail
<1>5. ASSUME NEW w \in Workers, Run(w) PROVE BearerErased'
  <2>1. CASE ExpireDue(w) \/ ExpireOne(w)
    BY <1>s, <2>1, EndErases DEF ExpireDue, ExpireOne, DueOnes, mail
  <2>2. CASE SettleStale(w)
    <3>1. worker[w].claims \subseteq Invitations \X Workers
      BY DEF IDTypeOK, ActorTypes
    <3>2. QED
      BY <2>2, <3>1, SettleErases DEF SettleStale, life
  <2>3. CASE SettleAccepted(w) \/ SettleUnknown(w)
    <3>1. worker[w].inv \in Invitations
      BY <2>3 DEF SettleAccepted, SettleUnknown, Stops, IDTypeOK, ActorTypes
    <3>2. QED
      BY <2>3, <3>1, SettleErases DEF SettleAccepted, SettleUnknown, life
  <2>4. CASE Start(w) \/ ListStale(w) \/ SettledStale(w) \/ Look(w) \/ Claim(w) \/ Send(w)
    BY <1>s, <2>4 DEF Start, ListStale, SettledStale, Look, Claim, Send, life, mail
  <2>5. QED
    BY <1>5, <2>1, <2>2, <2>3, <2>4 DEF Run
<1>6. ASSUME NEW w \in Workers, Die(w) PROVE BearerErased'
  BY <1>6, <1>s DEF Die, life, mail
<1>7. CASE UNCHANGED IDvars
  BY <1>7, <1>s DEF IDvars, life, mail
<1>8. QED
  BY <1>1, <1>2, <1>3, <1>4, <1>5, <1>6, <1>7 DEF IDNext

\* The encrypted bearer is kept only for a live invitation.
THEOREM ErasedBearer == IDSpec => []BearerErased
<1>1. IDInit => IDTypeOK /\ BearerErased
  BY TypeInit DEF IDInit, BearerErased
<1>2. IDTypeOK /\ BearerErased /\ [IDNext]_IDvars => (IDTypeOK /\ BearerErased)'
  BY TypeStep, BearerStep
<1>3. QED
  BY <1>1, <1>2, PTL DEF IDSpec

\* An invitation that ends as anything but accepted makes no member.
LEMMA EndWithoutMember ==
    ASSUME IDTypeOK, OneMember, NEW i \in Invitations, status[i] = "ISSUED",
           NEW how \in {"REVOKED", "EXPIRED"}, End(i, how), members' = members
    PROVE  OneMember'
BY DEF IDTypeOK, LifeTypes, OneMember, End

\* Every step keeps it to one member.
LEMMA MemberStep == IDTypeOK /\ OneMember /\ [IDNext]_IDvars => OneMember'
<1> SUFFICES ASSUME IDTypeOK, OneMember, [IDNext]_IDvars PROVE OneMember'
  OBVIOUS
<1>s. ASSUME UNCHANGED <<status, members>> PROVE OneMember'
  BY <1>s DEF OneMember
<1>1. ASSUME NEW i \in Invitations, Issue(i) PROVE OneMember'
  BY <1>1 DEF Issue, IDTypeOK, LifeTypes, OneMember
<1>2. ASSUME NEW i \in Invitations, Revoke(i) \/ FallDue(i) \/ GrowStale(i) PROVE OneMember'
  BY <1>2, <1>s, EndWithoutMember DEF Revoke, FallDue, GrowStale, life
<1>3. ASSUME NEW g \in Guests, Accept(g) PROVE OneMember'
  <2> DEFINE i == guest[g].inv
  <2>1. i \in Invitations
    BY <1>3 DEF Accept, IDTypeOK, ActorTypes
  <2>2. ASSUME status[i] = "ISSUED", End(i, "ACCEPTED"), members' = [members EXCEPT ![i] = @ \union {g}]
        PROVE  OneMember'
    <3>1. members[i] = {}
      BY <2>1, <2>2 DEF OneMember
    <3>2. /\ members' = [members EXCEPT ![i] = {g}] /\ status' = [status EXCEPT ![i] = "ACCEPTED"]
          /\ DOMAIN members = Invitations /\ DOMAIN status = Invitations
      BY <2>2, <3>1 DEF End, IDTypeOK, LifeTypes
    <3>3. Cardinality({g}) = 1
      BY FS_Singleton
    <3>4. ASSUME NEW j \in Invitations
          PROVE  Cardinality(members'[j]) <= 1 /\ (members'[j] # {} <=> status'[j] = "ACCEPTED")
      BY <2>1, <3>2, <3>3 DEF OneMember
    <3>5. QED
      BY <3>4 DEF OneMember
  <2>3. QED
    BY <1>3, <1>s, <2>1, <2>2, EndWithoutMember DEF Accept, Acceptable, life
<1>4. ASSUME NEW g \in Guests, NEW i \in Invitations, Present(g, i) PROVE OneMember'
  BY <1>4, <1>s DEF Present, life
<1>5. ASSUME NEW w \in Workers, Run(w) PROVE OneMember'
  <2>1. CASE ExpireDue(w) \/ ExpireOne(w)
    BY <1>s, <2>1, EndWithoutMember DEF ExpireDue, ExpireOne, DueOnes
  <2>2. CASE ~(ExpireDue(w) \/ ExpireOne(w))
    BY <1>5, <1>s, <2>2
       DEF Run, Start, ListStale, SettleStale, SettledStale, Look, Claim, Send, SettleAccepted, SettleUnknown, life
  <2>3. QED
    BY <2>1, <2>2
<1>6. ASSUME NEW w \in Workers, Die(w) PROVE OneMember'
  BY <1>6, <1>s DEF Die, life
<1>7. CASE UNCHANGED IDvars
  BY <1>7, <1>s DEF IDvars, life
<1>8. QED
  BY <1>1, <1>2, <1>3, <1>4, <1>5, <1>6, <1>7 DEF IDNext

\* An invitation makes one member at most, and only if it ends accepted, for any
\* number of requests that hold the bearer.
THEOREM OneMemberEach == IDSpec => []OneMember
<1>1. IDInit => IDTypeOK /\ OneMember
  BY TypeInit, FS_EmptySet DEF IDInit, OneMember
<1>2. IDTypeOK /\ OneMember /\ [IDNext]_IDvars => (IDTypeOK /\ OneMember)'
  BY TypeStep, MemberStep
<1>3. QED
  BY <1>1, <1>2, PTL DEF IDSpec
=============================================================================
