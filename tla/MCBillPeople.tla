---------------------------- MODULE MCBillPeople ----------------------------
(***************************************************************************)
(* What people do on a split bill, one component at a time: who is on it   *)
(* and what each owes, an invitation, a proposal, the organisers, the      *)
(* comments, the clock.  The components share no state: a behaviour is one *)
(* of any of them, the others stay as they were.                           *)
(***************************************************************************)
EXTENDS BillShares, BillInvite, BillGovernance, BillOrganizers, BillComments, BillClock, TLC

VARIABLE part

PeopleParts == {"shares", "invite", "governance", "organizers", "comments", "clock"}

peopleVars == <<part, shareVars, inviteVars, govVars, orgVars, talkVars, clockVars>>

PeopleInit ==
    /\ part \in PeopleParts
    /\ SharesInit /\ InviteInit /\ GovInit /\ OrgInit /\ TalkInit /\ ClockInit
    /\ part # "invite" => invite.user = Nobody
    /\ part # "governance" => members = Voters
    /\ part # "clock" => state = "active" /\ \A d \in Dues : due <= d

PeopleNext ==
    \/ /\ part = "shares" /\ SharesNext
       /\ UNCHANGED <<part, inviteVars, govVars, orgVars, talkVars, clockVars>>
    \/ /\ part = "invite" /\ InviteNext
       /\ UNCHANGED <<part, shareVars, govVars, orgVars, talkVars, clockVars>>
    \/ /\ part = "governance" /\ GovNext
       /\ UNCHANGED <<part, shareVars, inviteVars, orgVars, talkVars, clockVars>>
    \/ /\ part = "organizers" /\ OrgNext
       /\ UNCHANGED <<part, shareVars, inviteVars, govVars, talkVars, clockVars>>
    \/ /\ part = "comments" /\ TalkNext
       /\ UNCHANGED <<part, shareVars, inviteVars, govVars, orgVars, clockVars>>
    \/ /\ part = "clock" /\ ClockNext
       /\ UNCHANGED <<part, shareVars, inviteVars, govVars, orgVars, talkVars>>

PeopleSpec == PeopleInit /\ [][PeopleNext]_peopleVars

PeopleSymmetry == Permutations(Voters) \cup Permutations(GovRequests)

-----------------------------------------------------------------------------

\* Every variable of the bill's modules keeps its shape.
PeopleTypeOK ==
    CASE part = "shares" -> SharesTypeOK
      [] part = "invite" -> InviteTypeOK
      [] part = "governance" -> GovTypeOK
      [] part = "organizers" -> OrgTypeOK
      [] part = "comments" -> TalkTypeOK
      [] part = "clock" -> ClockTypeOK

\* What a participant owes and when it hears of it follow from the bill: the shares add up
\* to it, evenly where that was chosen, what remains is the share less the payments and
\* nobody who paid is dropped; at most five reminders go out, a day apart, every one of
\* them counted, and the warning comes before the due date.
TermsFollowTheBill ==
    /\ part = "shares" => /\ SharesSumToTotal /\ EvenSharesAreFair
                          /\ RemainingFollows /\ PayersStay
    /\ part = "clock" => /\ NudgesAreSpaced /\ WarnedBeforeDue
                         /\ ReminderCountIsTrue /\ FiveNudgesAtMost

\* Who is on the bill, who runs it and who reads along agreed to it or was let in: an open
\* invitation can be answered and refusals are counted, a decision of the members rests on
\* their votes, an organiser answered, one row per invitee, and a comment reaches those it
\* is meant for and nobody else.
EverybodyWasAsked ==
    /\ part = "invite" => /\ InvitationIsAnswerable /\ DeclinesAreCounted /\ PayersSeeTheBill
    /\ part = "governance" => /\ DecisionIsBacked /\ TallyIsTrue
    /\ part = "organizers" => /\ OrganizersConsented /\ OneRowPerInvitee
    /\ part = "comments" => /\ ThreadKeepsAudience /\ ToldCanRead
                            /\ PrivateAmongMutuals /\ LikedIsListed

\* What somebody has answered stays answered: a row keeps its account, two refusals end the
\* invitations, a decision and an organiser's answer stand, and a cancelled bill is hidden
\* after its grace period only.
AnswersStand == [][AccountStays /\ TwoStrikes /\ DecisionStays /\ AnswerStands /\ HiddenAfterGrace]_peopleVars
=============================================================================
