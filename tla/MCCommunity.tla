----------------------------- MODULE MCCommunity -----------------------------
(***************************************************************************)
(* Events and campaigns as the public sees them, one component at a time:  *)
(* an event with its seats and its gifts, a campaign's page, team, books,  *)
(* supporters and share links, the feed, the page for donors without an    *)
(* account.  They share no state: a behaviour is one of any of them, the   *)
(* others stay as they were.                                               *)
(***************************************************************************)
EXTENDS EventPage, EventMoney, ShareLink, CampaignTeam, CampaignBooks, CampaignPage,
        CampaignSupporters, Feed, ChampionPage, TLC

CONSTANTS c1, c2, c3

VARIABLE part

MCAge == (c1 :> 0) @@ (c2 :> 1) @@ (c3 :> 2)

CommunityParts == {"page", "money", "links", "team", "books", "campaign", "marks", "gifts", "feed", "donor"}

communityVars ==
    <<part, pageVars, moneyVars, linkVars, teamVars, bookVars, campaignVars, supportVars, feedVars, championVars>>

CommunityInit ==
    /\ part \in CommunityParts
    /\ PageInit /\ MoneyInit /\ LinkInit /\ TeamInit /\ BooksInit /\ CampaignInit /\ SupportInit /\ FeedInit
    /\ ChampionInit
    /\ part # "page" => page.public
    /\ part # "links" => active

CommunityNext ==
    \/ /\ part = "page" /\ PageNext
       /\ UNCHANGED <<part, moneyVars, linkVars, teamVars, bookVars, campaignVars, supportVars, feedVars, championVars>>
    \/ /\ part = "money" /\ MoneyNext
       /\ UNCHANGED <<part, pageVars, linkVars, teamVars, bookVars, campaignVars, supportVars, feedVars, championVars>>
    \/ /\ part = "links" /\ LinkNext
       /\ UNCHANGED <<part, pageVars, moneyVars, teamVars, bookVars, campaignVars, supportVars, feedVars, championVars>>
    \/ /\ part = "team" /\ TeamNext
       /\ UNCHANGED <<part, pageVars, moneyVars, linkVars, bookVars, campaignVars, supportVars, feedVars, championVars>>
    \/ /\ part = "books" /\ BooksNext
       /\ UNCHANGED <<part, pageVars, moneyVars, linkVars, teamVars, campaignVars, supportVars, feedVars, championVars>>
    \/ /\ part = "campaign" /\ CampaignNext
       /\ UNCHANGED <<part, pageVars, moneyVars, linkVars, teamVars, bookVars, supportVars, feedVars, championVars>>
    \/ /\ part = "marks" /\ MarksNext
       /\ UNCHANGED <<part, pageVars, moneyVars, linkVars, teamVars, bookVars, campaignVars, feedVars, championVars>>
    \/ /\ part = "gifts" /\ GiftsNext
       /\ UNCHANGED <<part, pageVars, moneyVars, linkVars, teamVars, bookVars, campaignVars, feedVars, championVars>>
    \/ /\ part = "donor" /\ ChampionNext
       /\ UNCHANGED <<part, pageVars, moneyVars, linkVars, teamVars, bookVars, campaignVars, supportVars, feedVars>>
    \/ /\ part = "feed" /\ FeedNext
       /\ UNCHANGED <<part, pageVars, moneyVars, linkVars, teamVars, bookVars, campaignVars, supportVars, championVars>>

CommunitySpec == CommunityInit /\ [][CommunityNext]_communityVars

\* The components share the names of their people, requests and things: what permutes
\* them in all components at once is a symmetry of each.
CommunitySymmetry ==
    Permutations(People) \cup Permutations(PageCalls) \cup Permutations(Shared)

-----------------------------------------------------------------------------

\* Every variable of the event and campaign modules keeps its shape.
CommunityTypeOK ==
    CASE part = "page" -> PageTypeOK
      [] part = "money" -> MoneyTypeOK
      [] part = "links" -> LinkTypeOK
      [] part = "team" -> TeamTypeOK
      [] part = "books" -> BooksTypeOK
      [] part = "campaign" -> CampaignTypeOK
      [] part \in {"marks", "gifts"} -> SupportTypeOK
      [] part = "feed" -> FeedTypeOK
      [] part = "donor" -> ChampionTypeOK

\* What the pages count is counted once: an event has raised the sum of its gifts, each of
\* them paid by its giver from money they had, a campaign what its donors gave; a person
\* has one seat, one invitation, one follow, one like, an organiser one row unless
\* one edit lists them twice, a resource one link unless two requests raced for it; a donor
\* without an account is booked to an account of their own and not turned away because of
\* their address, and each charge has its row.
CountedOnce ==
    /\ part = "page" => OneSeatPerPerson /\ OneRowPerOrganizer
    /\ part = "money" => RaisedIsSum /\ PaidByGiver /\ MoneyBehindGifts
    /\ part = "links" => OneLinkUnlessRaced
    /\ part = "team" => InvitedOnce /\ FollowedOnce
    /\ part = "campaign" => RaisedIsGiven
    /\ part = "marks" => LikesAreVisitors
    /\ part = "donor" => BookedToVisitor /\ AddressTurnsNobodyAway /\ ChargeHasARow

\* What the public is shown is what the rows say: no event is published half filled in and
\* a seat is listed while its event is, a link leads to its own resource and the projects
\* in memory to those of the table, only who agreed is on a team, a removed entry stays
\* removed and edits of different fields add up, a campaign has its tags and a named top
\* donor agreed to be named, the feed knows what the user did, as far back as a rebuild
\* reads, and leaves no campaign of its pool out.
PublicShowsTheRows ==
    /\ part = "page" => PublishedIsComplete /\ SeatIsListed
    /\ part = "links" => LinkLeadsHome /\ CacheFollowsTable
    /\ part = "team" => ListedByInvitee
    /\ part = "books" => RemovedIsGone /\ EditsAddUp
    /\ part = "campaign" => TagsAreThere
    /\ part = "gifts" => TopDonorMayBeNamed
    /\ part = "feed" => KnowsWhatIsOld /\ ScrolledToTheEnd

\* What was given is not taken back: no seat once the event has begun, no second answer to
\* an invitation, no other link for a campaign, no insight lost by being on the team.
NothingIsTakenBack == [][ClosedAtStart /\ FirstAnswerStands /\ LinkStays /\ InsightIsKept]_communityVars
=============================================================================
