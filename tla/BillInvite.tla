----------------------------- MODULE BillInvite -----------------------------
(***************************************************************************)
(* The invitation of one participant to a split bill (split-bill.service): *)
(* answering it in the app (acceptBillInvite, declineBillInvite) or with   *)
(* the code (acceptInvite, declineInvite), re-inviting, paying meanwhile.  *)
(* The handlers read the row without a lock, check it and then update some *)
(* of its columns: a read and a write, with other requests in between.     *)
(***************************************************************************)
EXTENDS Naturals, FiniteSets

CONSTANTS
    Nobody,         \* no user yet: the participant is a guest, a phone number
    Accounts,       \* users who may hold the invitation code
    Requests,       \* requests served at the same time
    MaxAnswers      \* bound: answers, re-invitations and payments

ASSUME NobodyAssumption == Nobody \notin Accounts /\ MaxAnswers \in Nat

VARIABLES
    invite,         \* the participant's row
    asked,          \* what each request does, and the row it has read
    declinedByCode, \* history: refusals with the code
    crossed,        \* history: a request wrote on a row that had changed since it read it
    answers         \* counter of the bound

inviteVars == <<invite, asked, declinedByCode, crossed, answers>>

InviteStatus == {"invited", "accepted", "declined", "partial", "paid"}
InviteOps == {"none", "acceptBillInvite", "declineBillInvite", "acceptInvite", "declineInvite",
              "reinviteParticipant"}
Inviting == [status : InviteStatus, user : Accounts \cup {Nobody}, accepted : BOOLEAN,
             declined : BOOLEAN, declines : Nat, paid : 0..2, expired : BOOLEAN]
NoRequest(row) == [op |-> "none", by |-> Nobody, row |-> row]

InviteTypeOK ==
    /\ invite \in Inviting
    /\ asked \in [Requests -> [op : InviteOps, by : Accounts \cup {Nobody}, row : Inviting]]
    /\ declinedByCode \in Nat /\ crossed \in BOOLEAN /\ answers \in 0..MaxAnswers

\* addParticipant invites a user or a guest.
InviteInit ==
    /\ \E u \in Accounts \cup {Nobody} :
         invite = [status |-> "invited", user |-> u, accepted |-> FALSE, declined |-> FALSE,
                   declines |-> 0, paid |-> 0, expired |-> FALSE]
    /\ asked = [r \in Requests |-> NoRequest(invite)]
    /\ declinedByCode = 0 /\ crossed = FALSE /\ answers = 0

\* A request checks what it has read; by is the user who sends it.
Asks(r, op, by) ==
    /\ asked[r].op = "none" /\ answers < MaxAnswers /\ answers' = answers + 1
    /\ asked' = [asked EXCEPT ![r] = [op |-> op, by |-> by, row |-> invite]]
    /\ UNCHANGED <<invite, declinedByCode, crossed>>

Writes(r, op, row) ==
    /\ asked[r].op = op
    /\ invite' = row
    /\ crossed' = (crossed \/ asked[r].row # invite)
    /\ asked' = [asked EXCEPT ![r] = NoRequest(row)]
    /\ UNCHANGED answers

-----------------------------------------------------------------------------
acceptBillInvite(r) ==
    /\ invite.user # Nobody /\ invite.status = "invited" /\ ~invite.expired
    /\ Asks(r, "acceptBillInvite", invite.user)

WriteAcceptedInApp(r) ==
    /\ Writes(r, "acceptBillInvite", [invite EXCEPT !.status = "accepted", !.accepted = TRUE])
    /\ UNCHANGED declinedByCode

\* A participant who paid has status partial or paid and is told off.
declineBillInvite(r) ==
    /\ invite.user # Nobody /\ invite.status \notin {"declined", "accepted"} /\ invite.paid = 0
    /\ Asks(r, "declineBillInvite", invite.user)

\* The refusal is not counted.
WriteDeclinedInApp(r) ==
    /\ Writes(r, "declineBillInvite", [invite EXCEPT !.status = "declined", !.declined = TRUE])
    /\ UNCHANGED declinedByCode

\* Any account that has the code: it becomes the guest's account.  The status
\* is not looked at, so one who has paid falls back to "accepted".
acceptInvite(r) ==
    /\ ~invite.expired /\ ~invite.accepted /\ ~invite.declined
    /\ \E by \in Accounts : Asks(r, "acceptInvite", by)

WriteAcceptedByCode(r) ==
    /\ Writes(r, "acceptInvite",
              [invite EXCEPT !.status = "accepted", !.accepted = TRUE,
                 !.user = IF asked[r].row.user = Nobody THEN asked[r].by ELSE asked[r].row.user])
    /\ UNCHANGED declinedByCode

\* Mutant of declineInvite: who has paid may decline.
declineInvite_Paid(r) == \E by \in Accounts : Asks(r, "declineInvite", by)

\* Neither the status nor the expiry is looked at: one may decline after having
\* accepted, and again after having declined.
declineInvite(r) ==
    /\ invite.paid = 0
    /\ \E by \in Accounts : Asks(r, "declineInvite", by)

\* The counter is the one that was read plus one.
WriteDeclinedByCode(r) ==
    /\ Writes(r, "declineInvite", [invite EXCEPT !.status = "declined", !.declined = TRUE,
                                                 !.declines = asked[r].row.declines + 1])
    /\ declinedByCode' = declinedByCode + 1

reinviteParticipant(r) ==
    /\ invite.status = "declined" /\ invite.declines < 2
    /\ Asks(r, "reinviteParticipant", Nobody)

\* acceptedAt is kept: who accepted before can answer in the app only.
WriteReinvited(r) ==
    /\ Writes(r, "reinviteParticipant",
              [invite EXCEPT !.status = "invited", !.declined = FALSE, !.expired = FALSE])
    /\ UNCHANGED declinedByCode

Expire ==
    /\ ~invite.expired /\ invite' = [invite EXCEPT !.expired = TRUE]
    /\ UNCHANGED <<asked, declinedByCode, crossed, answers>>

\* A payment for the participant, half of the share at a time: from a wallet,
\* which skips who declined, or a guest's own card.
PayForInvited ==
    /\ answers < MaxAnswers /\ answers' = answers + 1
    /\ invite.paid < 2
    /\ invite.status = "declined" => invite.user = Nobody
    /\ invite' = [invite EXCEPT !.paid = @ + 1, !.status = IF invite.paid = 1 THEN "paid" ELSE "partial"]
    /\ UNCHANGED <<asked, declinedByCode, crossed>>

InviteNext ==
    \/ \E r \in Requests :
         \/ acceptBillInvite(r) \/ declineBillInvite(r) \/ acceptInvite(r) \/ declineInvite(r)
         \/ reinviteParticipant(r)
         \/ WriteAcceptedInApp(r) \/ WriteDeclinedInApp(r) \/ WriteAcceptedByCode(r)
         \/ WriteDeclinedByCode(r) \/ WriteReinvited(r)
    \/ Expire \/ PayForInvited

-----------------------------------------------------------------------------
(* Properties *)

\* The bill is listed as active for the participant's account.
getMyActiveBills == invite.status \notin {"declined", "invited"}

\* An open invitation can be answered: by its code, or in the app by the account
\* it belongs to; re-inviting somebody who once accepted leaves no dead end.
InvitationIsAnswerable ==
    invite.status = "invited" => /\ ~invite.declined
                                 /\ invite.accepted => invite.user # Nobody

\* The decline counter never runs ahead of the refusals with the code and, as
\* long as requests do not cross, misses none.
DeclinesAreCounted ==
    /\ invite.declines <= declinedByCode
    /\ ~crossed => invite.declines = declinedByCode

\* Whoever has paid finds the bill among their active bills: it does not fall back
\* among the open or the declined invitations, unless an answer crossed the payment.
PayersSeeTheBill == invite.paid > 0 /\ ~crossed => getMyActiveBills

\* A participant keeps its account: only two acceptances of one guest's code
\* that cross hand the row from one account to another.
AccountStays ==
    [invite.user # Nobody => invite'.user = invite.user \/ crossed']_inviteVars

\* "At 2 the creator can no longer re-invite the same person": after two refusals
\* with the code nobody is invited again, unless requests crossed.
TwoStrikes ==
    [declinedByCode >= 2 /\ invite.status = "declined" /\ ~crossed'
       => invite'.status # "invited"]_inviteVars
=============================================================================
