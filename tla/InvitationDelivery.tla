-------------------------- MODULE InvitationDelivery --------------------------
(***************************************************************************)
(* backend/virtual_office/invitations.py, its delivery worker and the      *)
(* routines and triggers of the database: an invitation is issued with an  *)
(* encrypted mail in an outbox; a one-shot worker, started by a timer,     *)
(* claims one row at a time, mails the bearer and settles what it knows;   *)
(* meanwhile the invitation is accepted, revoked or expires.               *)
(*                                                                         *)
(* Every transaction locks the invitation and then its outbox row, so each *)
(* is one step; what is read before the lock is a step of its own.  A run  *)
(* of the worker may die anywhere: an answer of the database that is lost  *)
(* is a step that took effect and then a death.  The routines are written  *)
(* for several workers.                                                    *)
(***************************************************************************)
EXTENDS Naturals, FiniteSets

CONSTANTS
    Invitations,
    Subject,        \* project and address of each invitation
    Unreadable,     \* invitations whose mail cannot be decrypted any more
    Workers,        \* runs of the delivery worker
    Guests,         \* requests to accept
    Nobody,         \* no invitation, no attempt
    ExpiryLimit,    \* expiry_sweep_batch_limit
    BatchLimit,     \* delivery_batch_limit
    MaxDeaths       \* bound: runs that die

ASSUME InvitationAssumptions ==
    /\ Unreadable \subseteq Invitations /\ Nobody \notin Invitations \union Workers
    /\ Workers # {} /\ ExpiryLimit \in Nat \ {0} /\ BatchLimit \in Nat \ {0} /\ MaxDeaths \in Nat

VARIABLES
    status,         \* the life of each invitation
    due,            \* has it passed expires_at?
    members,        \* who was made a member by it
    outbox,         \* the state of its mail
    attempt,        \* who claimed it
    stale,          \* is it claimed for longer than claim_timeout_seconds?
    code,           \* result_code
    payload,        \* is the encrypted bearer there?
    observed,       \* its DELIVERY_OBSERVED event
    sent,           \* mails the relay took
    worker,         \* each run: where it is and what it holds
    guest,          \* each request to accept: where it is, and for what
    deaths

life == <<status, due, members>>
mail == <<outbox, attempt, stale, code, payload, observed>>
IDvars == <<life, mail, sent, worker, guest, deaths>>

Ends == {"ACCEPTED", "REVOKED", "EXPIRED"}
Results == {"SMTP_ACCEPTED", "SMTP_UNKNOWN", "SMTP_STALE"}
Delivered(r) == IF r = "SMTP_ACCEPTED" THEN "SMTP_ACCEPTED" ELSE "UNKNOWN"

Phases == {"out", "expire", "list", "settle", "look", "claim", "expire_one", "send", "taken"}
Idle == [at |-> "out", inv |-> Nobody, claims |-> {}, n |-> 0, again |-> FALSE]

LifeTypes ==
    /\ status \in [Invitations -> {"none", "ISSUED"} \union Ends]
    /\ due \in [Invitations -> BOOLEAN] /\ members \in [Invitations -> SUBSET Guests]

MailTypes ==
    /\ outbox \in [Invitations -> {"none", "QUEUED", "CLAIMED", "SMTP_ACCEPTED", "UNKNOWN", "CANCELLED"}]
    /\ attempt \in [Invitations -> Workers \union {Nobody}]
    /\ stale \in [Invitations -> BOOLEAN] /\ payload \in [Invitations -> BOOLEAN]
    /\ code \in [Invitations -> Results \union {"none", "INVITATION_TERMINATED"}]
    /\ observed \in [Invitations -> {"none", "SMTP_ACCEPTED", "UNKNOWN"}]

ActorTypes ==
    /\ sent \in [Invitations -> Nat] /\ deaths \in 0..MaxDeaths
    /\ worker \in [Workers -> [at : Phases, inv : Invitations \union {Nobody},
                               claims : SUBSET (Invitations \X Workers), n : Nat, again : BOOLEAN]]
    /\ guest \in [Guests -> [at : {"out", "hash", "end"}, inv : Invitations \union {Nobody}]]
    /\ \A w \in Workers : worker[w].at \in {"claim", "send", "taken"} => worker[w].inv \in Invitations
    /\ \A g \in Guests : guest[g].at = "hash" => guest[g].inv \in Invitations

\* The CHECK of the table of the outbox.
RowShape(i) ==
    /\ outbox[i] = "none" <=> status[i] = "none"
    /\ outbox[i] \in {"CLAIMED", "SMTP_ACCEPTED", "UNKNOWN"} <=> attempt[i] # Nobody
    /\ outbox[i] = "QUEUED" => payload[i]
    /\ payload[i] => outbox[i] \in {"QUEUED", "CLAIMED"}
    /\ code[i] = "none" <=> outbox[i] \in {"none", "QUEUED", "CLAIMED"}

IDTypeOK == LifeTypes /\ MailTypes /\ ActorTypes /\ \A i \in Invitations : RowShape(i)

IDInit ==
    /\ status = [i \in Invitations |-> "none"] /\ due = [i \in Invitations |-> FALSE]
    /\ members = [i \in Invitations |-> {}]
    /\ outbox = [i \in Invitations |-> "none"] /\ attempt = [i \in Invitations |-> Nobody]
    /\ stale = [i \in Invitations |-> FALSE] /\ code = [i \in Invitations |-> "none"]
    /\ payload = [i \in Invitations |-> FALSE] /\ observed = [i \in Invitations |-> "none"]
    /\ sent = [i \in Invitations |-> 0] /\ worker = [w \in Workers |-> Idle]
    /\ guest = [g \in Guests |-> [at |-> "out", inv |-> Nobody]] /\ deaths = 0

-----------------------------------------------------------------------------
(* The life of an invitation *)

\* The key of the pending subject refuses a second live invitation.
Pending(s) == \E i \in Invitations : status[i] = "ISSUED" /\ Subject[i] = s

Issue(i) ==
    /\ status[i] = "none" /\ ~Pending(Subject[i])
    /\ status' = [status EXCEPT ![i] = "ISSUED"]
    /\ outbox' = [outbox EXCEPT ![i] = "QUEUED"] /\ payload' = [payload EXCEPT ![i] = TRUE]
    /\ UNCHANGED <<due, members, attempt, stale, code, observed, sent, worker, guest, deaths>>

\* Mutant of CancelMail: the bearer of a claimed mail is kept.
CancelQueuedMail(i) ==
    /\ outbox' = [outbox EXCEPT ![i] = IF @ = "QUEUED" THEN "CANCELLED" ELSE @]
    /\ code' = [code EXCEPT ![i] = IF outbox[i] = "QUEUED" THEN "INVITATION_TERMINATED" ELSE @]
    /\ payload' = [payload EXCEPT ![i] = @ /\ outbox[i] # "QUEUED"]

\* The trigger guard_office_invitation_update: a queued mail is cancelled, and a
\* claimed one loses its bearer and goes on.
CancelMail(i) ==
    /\ outbox' = [outbox EXCEPT ![i] = IF @ = "QUEUED" THEN "CANCELLED" ELSE @]
    /\ code' = [code EXCEPT ![i] = IF outbox[i] = "QUEUED" THEN "INVITATION_TERMINATED" ELSE @]
    /\ payload' = [payload EXCEPT ![i] = FALSE]

End(i, how) ==
    /\ status' = [status EXCEPT ![i] = how] /\ CancelMail(i)
    /\ UNCHANGED <<due, attempt, stale, observed, sent, deaths>>

Revoke(i) ==
    /\ status[i] = "ISSUED" /\ End(i, "REVOKED")
    /\ UNCHANGED <<members, worker, guest>>

\* Time.
FallDue(i) ==
    /\ status[i] = "ISSUED" /\ ~due[i] /\ due' = [due EXCEPT ![i] = TRUE]
    /\ UNCHANGED <<status, members, mail, sent, worker, guest, deaths>>

GrowStale(i) ==
    /\ outbox[i] = "CLAIMED" /\ ~stale[i] /\ stale' = [stale EXCEPT ![i] = TRUE]
    /\ UNCHANGED <<life, outbox, attempt, code, payload, observed, sent, worker, guest, deaths>>

\* invitation_bearer_preflight, before the password is hashed.  The bearer is
\* known only from the mail.
Present(g, i) ==
    /\ guest[g].at = "out" /\ sent[i] > 0 /\ status[i] = "ISSUED"
    /\ guest' = [guest EXCEPT ![g] = [at |-> "hash", inv |-> i]]
    /\ UNCHANGED <<life, mail, sent, worker, deaths>>

\* Mutant of Acceptable: what the preflight read is not read again.
WasAcceptable(i) == ~due[i]

Acceptable(i) == status[i] = "ISSUED" /\ ~due[i]

\* accept_invitation_in_cursor reads it all again under the locks: it makes a
\* member, or finds the invitation due and expires it (410), or refuses: it is not
\* live, the issuer has lost the authority, the account does not fit, a deadline
\* of the triggers.
Accept(g) ==
    LET i == guest[g].inv IN
    /\ guest[g].at = "hash" /\ guest' = [guest EXCEPT ![g] = [at |-> "end", inv |-> Nobody]]
    /\ \/ /\ Acceptable(i) /\ End(i, "ACCEPTED")
          /\ members' = [members EXCEPT ![i] = @ \union {g}]
       \/ status[i] = "ISSUED" /\ due[i] /\ End(i, "EXPIRED") /\ UNCHANGED members
       \/ UNCHANGED <<life, mail, sent, deaths>>
    /\ UNCHANGED worker

-----------------------------------------------------------------------------
(* The worker *)

Moves(w, from, to) == worker[w].at = from /\ worker' = [worker EXCEPT ![w].at = to]

\* The run ends, with or without an error: the timer starts another.
Stops(w, from) == worker[w].at = from /\ worker' = [worker EXCEPT ![w] = Idle]

\* After the settings of the relay have been read.
Start(w) ==
    /\ Moves(w, "out", "expire")
    /\ UNCHANGED <<life, mail, sent, guest, deaths>>

DueOnes == {i \in Invitations : status[i] = "ISSUED" /\ due[i]}

\* office_invitation_expire_due_v1: a transaction for each row, up to the limit.
ExpireDue(w) ==
    /\ worker[w].at = "expire" /\ UNCHANGED <<members, guest>>
    /\ IF DueOnes # {} /\ worker[w].n < ExpiryLimit
       THEN /\ \E i \in DueOnes : End(i, "EXPIRED")
            /\ worker' = [worker EXCEPT ![w].n = @ + 1]
       ELSE /\ worker' = [worker EXCEPT ![w].at = "list", ![w].n = 0]
            /\ UNCHANGED <<status, due, mail, sent, deaths>>

\* Mutant of StaleClaims: only the claims of live invitations are given up.
LiveStaleClaims ==
    {<<i, attempt[i]>> : i \in {j \in Invitations : outbox[j] = "CLAIMED" /\ stale[j] /\ status[j] = "ISSUED"}}

StaleClaims == {<<i, attempt[i]>> : i \in {j \in Invitations : outbox[j] = "CLAIMED" /\ stale[j]}}

\* settle_stale_invitation_claims_v1: a bounded batch of what is stale now.
ListStale(w) ==
    /\ worker[w].at = "list"
    /\ \E batch \in SUBSET StaleClaims :
         /\ batch = {} => StaleClaims = {}
         /\ worker' = [worker EXCEPT ![w].at = "settle", ![w].claims = batch]
    /\ UNCHANGED <<life, mail, sent, guest, deaths>>

\* A late acceptance by the relay refines a claim that was given up.
Refines(i, r) ==
    /\ outbox[i] = "UNKNOWN" /\ r = "SMTP_ACCEPTED"
    /\ code[i] = "SMTP_STALE" /\ observed[i] = "none"

\* office_invitation_settle_delivery_v1 applies, or is FENCED.  (No caller settles
\* the same result twice, so REPLAYED does not happen.)
Applies(i, who, r) == attempt[i] = who /\ (outbox[i] = "CLAIMED" \/ Refines(i, r))

\* Mutant of Evidence: giving up a claim is taken for an observation.
EvidenceOfAll(i, r) == observed' = [observed EXCEPT ![i] = Delivered(r)]

\* A claim that was given up is no observation of the relay.
Evidence(i, r) ==
    IF r = "SMTP_STALE" THEN UNCHANGED observed
    ELSE observed' = [observed EXCEPT ![i] = Delivered(r)]

Settle(i, who, r) ==
    IF Applies(i, who, r)
    THEN /\ outbox' = [outbox EXCEPT ![i] = Delivered(r)] /\ code' = [code EXCEPT ![i] = r]
         /\ payload' = [payload EXCEPT ![i] = FALSE] /\ Evidence(i, r)
         /\ stale' = [stale EXCEPT ![i] = FALSE] /\ UNCHANGED attempt
    ELSE UNCHANGED mail

SettleStale(w) ==
    /\ worker[w].at = "settle" /\ UNCHANGED <<life, sent, guest, deaths>>
    /\ \E c \in worker[w].claims :
         /\ Settle(c[1], c[2], "SMTP_STALE")
         /\ worker' = [worker EXCEPT ![w].claims = @ \ {c},
                                     ![w].n = IF Applies(c[1], c[2], "SMTP_STALE") THEN @ + 1 ELSE @]

\* A run that gave up a claim stops, for the operator to see it.
SettledStale(w) ==
    /\ worker[w].claims = {} /\ UNCHANGED <<life, mail, sent, guest, deaths>>
    /\ IF worker[w].n > 0 THEN Stops(w, "settle") ELSE Moves(w, "settle", "look")

Queued == {i \in Invitations : outbox[i] = "QUEUED"}

\* office_invitation_claim_next_v1 reads the queue, and then locks.
Look(w) ==
    /\ \/ Queued = {} /\ Stops(w, "look")
       \/ \E i \in Queued : worker[w].at = "look"
                            /\ worker' = [worker EXCEPT ![w].at = "claim", ![w].inv = i]
    /\ UNCHANGED <<life, mail, sent, guest, deaths>>

\* Mutant of StillQueued: what another run has claimed since is claimed again.
WasQueued(i) == outbox[i] \in {"QUEUED", "CLAIMED"}

StillQueued(i) == outbox[i] = "QUEUED"

\* RETRY ends the run; a row that is DUE is left to the expiry; a row whose mail
\* cannot be decrypted is claimed all the same, and the run dies.
Claim(w) ==
    LET i == worker[w].inv IN
    /\ worker[w].at = "claim" /\ UNCHANGED <<life, sent, guest, deaths>>
    /\ CASE ~StillQueued(i) -> Stops(w, "claim") /\ UNCHANGED mail
         [] StillQueued(i) /\ due[i] -> Moves(w, "claim", "expire_one") /\ UNCHANGED mail
         [] OTHER ->
              /\ outbox' = [outbox EXCEPT ![i] = "CLAIMED"] /\ attempt' = [attempt EXCEPT ![i] = w]
              /\ stale' = [stale EXCEPT ![i] = FALSE]
              /\ IF i \in Unreadable THEN Stops(w, "claim") ELSE Moves(w, "claim", "send")
              /\ UNCHANGED <<code, payload, observed>>

\* One due invitation is expired, not always the one claimed, and the queue is
\* read once more.
ExpireOne(w) ==
    /\ worker[w].at = "expire_one" /\ UNCHANGED <<members, guest>>
    /\ \/ \E i \in DueOnes : End(i, "EXPIRED")
       \/ DueOnes = {} /\ UNCHANGED <<status, due, mail, sent, deaths>>
    /\ IF worker[w].again THEN Stops(w, "expire_one")
       ELSE worker' = [worker EXCEPT ![w].at = "look", ![w].inv = Nobody, ![w].again = TRUE]

\* The relay takes the mail.
Send(w) ==
    /\ Moves(w, "send", "taken")
    /\ sent' = [sent EXCEPT ![worker[w].inv] = @ + 1]
    /\ UNCHANGED <<life, mail, guest, deaths>>

\* Its answer is an acceptance.  The run goes on while it is within its batch,
\* unless the claim was fenced.
SettleAccepted(w) ==
    LET i == worker[w].inv IN
    /\ worker[w].at = "taken" /\ Settle(i, w, "SMTP_ACCEPTED")
    /\ IF Applies(i, w, "SMTP_ACCEPTED") /\ worker[w].n + 1 < BatchLimit
       THEN worker' = [worker EXCEPT ![w] =
                [at |-> "look", inv |-> Nobody, claims |-> {}, n |-> worker[w].n + 1, again |-> FALSE]]
       ELSE Stops(w, "taken")
    /\ UNCHANGED <<life, sent, guest, deaths>>

\* The sending raises, whether the relay took the mail or not.
SettleUnknown(w) ==
    /\ \E from \in {"send", "taken"} : Stops(w, from)
    /\ Settle(worker[w].inv, w, "SMTP_UNKNOWN")
    /\ UNCHANGED <<life, sent, guest, deaths>>

Die(w) ==
    /\ worker[w].at # "out" /\ deaths < MaxDeaths /\ deaths' = deaths + 1
    /\ worker' = [worker EXCEPT ![w] = Idle]
    /\ UNCHANGED <<life, mail, sent, guest>>

Run(w) ==
    \/ Start(w) \/ ExpireDue(w) \/ ListStale(w) \/ SettleStale(w) \/ SettledStale(w)
    \/ Look(w) \/ Claim(w) \/ ExpireOne(w) \/ Send(w) \/ SettleAccepted(w) \/ SettleUnknown(w)

IDNext ==
    \/ \E i \in Invitations : Issue(i) \/ Revoke(i) \/ FallDue(i) \/ GrowStale(i)
    \/ \E g \in Guests : Accept(g) \/ \E i \in Invitations : Present(g, i)
    \/ \E w \in Workers : Run(w) \/ Die(w)

\* The timer starts the worker again and again, a run goes on, and time passes.
IDFairness ==
    /\ \A w \in Workers : WF_IDvars(Run(w))
    /\ \A i \in Invitations : WF_IDvars(FallDue(i)) /\ WF_IDvars(GrowStale(i))

IDSpec == IDInit /\ [][IDNext]_IDvars
IDFairSpec == IDSpec /\ IDFairness

-----------------------------------------------------------------------------
(* Properties *)

\* No bearer is mailed twice, whatever dies: a claim that was given up is never
\* queued again and two workers never claim the same row.
AtMostOneMail == \A i \in Invitations : sent[i] <= 1

\* What the outbox and its evidence say of the relay is true: accepted means that
\* the mail was taken, cancelled that it never left, and unknown without evidence is
\* a claim that was given up.
RelayTruth ==
    \A i \in Invitations :
        /\ outbox[i] = "SMTP_ACCEPTED" => sent[i] > 0 /\ observed[i] = "SMTP_ACCEPTED"
        /\ outbox[i] \in {"QUEUED", "CANCELLED"} => sent[i] = 0
        /\ observed[i] # "none" => observed[i] = outbox[i]
        /\ outbox[i] = "UNKNOWN" => (observed[i] = "none" <=> code[i] = "SMTP_STALE")

\* The encrypted bearer is in the database only while the invitation lives and its
\* mail waits or is on its way; so nothing dead is ever in the queue.
BearerErased == \A i \in Invitations : payload[i] => status[i] = "ISSUED"

\* An invitation makes one member at most, and only if it ends accepted, although
\* the bearer is checked before the password is hashed.
OneMember ==
    \A i \in Invitations :
        /\ Cardinality(members[i]) <= 1
        /\ members[i] # {} <=> status[i] = "ACCEPTED"

\* No mail stays waiting or claimed for ever, and nothing stays live past its date.
Resolved ==
    \A i \in Invitations :
        (status[i] # "none") ~> (status[i] \in Ends /\ outbox[i] \notin {"QUEUED", "CLAIMED"})
=============================================================================
