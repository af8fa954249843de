------------------------- MODULE CampaignSupporters -------------------------
(***************************************************************************)
(* Who supports a campaign, and what a visitor is shown of it              *)
(* (campaign-interaction.service, campaign-save.service, the response of   *)
(* campaign.service): likes, saves and comments are looked for and then    *)
(* inserted; the card of a list and the page of one campaign are computed  *)
(* from the rows of the donations, the team and the champions.             *)
(***************************************************************************)
EXTENDS Integers, Sequences, FiniteSets, Functions

CONSTANTS
    Visitors,       \* users, the creator not among them
    MarkCalls,      \* requests served at the same time
    Sizes,          \* amounts of a donation
    MaxGifts        \* bound: donations

ASSUME VisitorsAssumption == IsFiniteSet(Visitors) /\ "nobody" \notin Visitors
ASSUME SizesAssumption == Sizes \subseteq Nat \ {0} /\ MaxGifts \in Nat

VARIABLES
    open,           \* the status of the campaign is active
    marks,          \* the rows of campaign_likes and campaign_saves: <<kind, user, which>>
    comments,       \* the users who have commented
    marking,        \* what each request is about to insert
    donations,      \* the rows of donations
    joined          \* <<role, user>>: the organisers, the team and the champions

supportVars == <<open, marks, comments, marking, donations, joined>>

Nobody0 == "nobody"
Roles == {"organizer", "participant", "champion"}
Donation == [donor : Visitors, amount : Sizes, anonymous : BOOLEAN, via : Visitors \cup {Nobody0}]
Mark == [op : {"none", "like", "save", "comment"}, user : Visitors \cup {Nobody0}]
NoMark == [op |-> "none", user |-> Nobody0]

SupportTypeOK ==
    /\ open \in BOOLEAN /\ marks \subseteq ({"like", "save"} \X Visitors \X (1..2)) /\ comments \subseteq Visitors
    /\ marking \in [MarkCalls -> Mark]
    /\ donations \in Seq(Donation) /\ Len(donations) <= MaxGifts
    /\ joined \subseteq (Roles \X Visitors)
    /\ \A i \in DOMAIN donations : donations[i].via # Nobody0 => <<"champion", donations[i].via>> \in joined

SupportInit ==
    /\ open = TRUE /\ marks = {} /\ comments = {} /\ marking = [r \in MarkCalls |-> NoMark]
    /\ donations = << >> /\ joined = {}

-----------------------------------------------------------------------------
(* Likes, saves, comments *)

MarksOf(kind, u) == {m \in marks : m[1] = kind /\ m[2] = u}

\* Only an active campaign is liked or commented on.
getApprovedCampaign == open

likeCampaign(r, u) ==
    /\ marking[r] = NoMark /\ getApprovedCampaign /\ MarksOf("like", u) = {}
    /\ marking' = [marking EXCEPT ![r] = [op |-> "like", user |-> u]]
    /\ UNCHANGED <<open, marks, comments, donations, joined>>
addComment(r, u) ==
    /\ marking[r] = NoMark /\ getApprovedCampaign
    /\ marking' = [marking EXCEPT ![r] = [op |-> "comment", user |-> u]]
    /\ UNCHANGED <<open, marks, comments, donations, joined>>
save(r, u) ==
    /\ marking[r] = NoMark /\ MarksOf("save", u) = {}
    /\ marking' = [marking EXCEPT ![r] = [op |-> "save", user |-> u]]
    /\ UNCHANGED <<open, marks, comments, donations, joined>>

\* A campaign is liked, and saved, once per user: a second insert fails.
InsertMark(r) ==
    LET m == marking[r] IN
    /\ m # NoMark /\ marking' = [marking EXCEPT ![r] = NoMark] /\ UNCHANGED <<open, donations, joined>>
    /\ \/ m.op # "comment" /\ marks' = marks \cup {<<m.op, m.user, 1>>} /\ UNCHANGED comments
       \/ m.op = "comment" /\ comments' = comments \cup {m.user} /\ UNCHANGED marks

unlikeCampaign(u) ==
    /\ MarksOf("like", u) # {} /\ marks' = marks \ {CHOOSE m \in MarksOf("like", u) : TRUE}
    /\ UNCHANGED <<open, comments, marking, donations, joined>>
unsave(u) ==
    /\ MarksOf("save", u) # {} /\ marks' = marks \ {CHOOSE m \in MarksOf("save", u) : TRUE}
    /\ UNCHANGED <<open, comments, marking, donations, joined>>

-----------------------------------------------------------------------------
(* Donations, the team and the status, as their services leave them *)

setStatus == open' = ~open /\ UNCHANGED <<marks, comments, marking, donations, joined>>

InsertDonation(d) ==
    /\ Len(donations) < MaxGifts /\ donations' = Append(donations, d)
    /\ d.via # Nobody0 => <<"champion", d.via>> \in joined
    /\ UNCHANGED <<open, marks, comments, marking, joined>>

join(role, u) == joined' = joined \cup {<<role, u>>} /\ UNCHANGED <<open, marks, comments, marking, donations>>
\* A champion stays one.
leave(role, u) ==
    /\ role # "champion" /\ joined' = joined \ {<<role, u>>}
    /\ UNCHANGED <<open, marks, comments, marking, donations>>

MarksNext ==
    \/ setStatus
    \/ \E r \in MarkCalls : InsertMark(r) \/ \E u \in Visitors : likeCampaign(r, u) \/ addComment(r, u) \/ save(r, u)
    \/ \E u \in Visitors : unlikeCampaign(u) \/ unsave(u)

GiftsNext ==
    \/ \E d \in Donation : InsertDonation(d)
    \/ \E role \in Roles, u \in Visitors : join(role, u) \/ leave(role, u)

SupportNext == MarksNext \/ GiftsNext

-----------------------------------------------------------------------------
(* What is shown *)

GivenBy(u) == {i \in DOMAIN donations : donations[i].donor = u}
Total(u) == FoldFunction(LAMBDA x, y : x + y, 0, [i \in GivenBy(u) |-> donations[i].amount])
Donors_ == {donations[i].donor : i \in DOMAIN donations}

\* Mutant of getTopDonor: one donation hides a donor's name.
getTopDonor_Hides ==
    {[donor |-> u, amount |-> Total(u), named |-> \A i \in GivenBy(u) : ~donations[i].anonymous] :
        u \in {v \in Donors_ : \A w \in Donors_ : Total(w) <= Total(v)}}

\* Whoever gave most in sum, any of them on a tie; the name is withheld when every one
\* of their donations is anonymous.
getTopDonor ==
    {[donor |-> u, amount |-> Total(u), named |-> \E i \in GivenBy(u) : ~donations[i].anonymous] :
        u \in {v \in Donors_ : \A w \in Donors_ : Total(w) <= Total(v)}}

getDistinctDonorsCount == Cardinality(Donors_)

\* Mutant of computeFinancialAccess: a champion must still be on the team.
computeFinancialAccess_Team(u) ==
    /\ \E role \in {"organizer", "participant"} : <<role, u>> \in joined
    /\ GivenBy(u) # {} \/ \E i \in DOMAIN donations : donations[i].via = u

\* An organiser's row whatever its status, the team, donors, and champions a donation
\* came through.
computeFinancialAccess(u) ==
    \/ \E role \in {"organizer", "participant"} : <<role, u>> \in joined
    \/ GivenBy(u) # {}
    \/ <<"champion", u>> \in joined /\ \E i \in DOMAIN donations : donations[i].via = u

\* The card of the lists: the counts are of rows.
mapToCard ==
    [donorsCount |-> Len(donations), likesCount |-> Cardinality({m \in marks : m[1] = "like"}), canSeeFinancials |-> FALSE]

\* The page of one campaign: the donors are counted once each.
mapToResponse(u) ==
    [donorsCount |-> getDistinctDonorsCount, likesCount |-> Cardinality({m \in marks : m[1] = "like"}),
     isLiked |-> MarksOf("like", u) # {}, isSaved |-> MarksOf("save", u) # {},
     canSeeFinancials |-> computeFinancialAccess(u), topDonor |-> getTopDonor]

-----------------------------------------------------------------------------

\* No interleaving of likes and unlikes counts a user twice: what the page says of the
\* likes is the number of users it says have liked (campaign.service mapToResponse).
LikesAreVisitors ==
    \A u \in Visitors : mapToResponse(u).likesCount = Cardinality({v \in Visitors : mapToResponse(v).isLiked})

\* The donor the page names gave the most of all in sum and at least once under their
\* name; one whose every donation is anonymous is not named.
TopDonorMayBeNamed ==
    \A t \in getTopDonor :
        /\ \A u \in Visitors : Total(u) <= t.amount
        /\ t.named <=> \E i \in DOMAIN donations : donations[i].donor = t.donor /\ ~donations[i].anonymous

\* The financials stay open to whoever gave or brought a donation: only leaving the team
\* takes the insight away, and only from those who did neither.
InsightIsKept ==
    [\A u \in Visitors :
       mapToResponse(u).canSeeFinancials /\ ~mapToResponse(u)'.canSeeFinancials =>
          GivenBy(u) = {} /\ \A i \in DOMAIN donations : donations[i].via # u]_supportVars
=============================================================================
