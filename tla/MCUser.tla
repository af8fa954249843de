------------------------------- MODULE MCUser -------------------------------
(***************************************************************************)
(* What belongs to one user, one component at a time: the account, the PIN *)
(* of the wallet, the identity check, the refunds parked for the phone     *)
(* number, the points, friends and chat, notices and the inbox.  A         *)
(* behaviour is one of any of them, the others stay as they were: they     *)
(* share no column.  Account and the identity check share a row, users,    *)
(* which some requests save as a whole: each has these requests, with what *)
(* they do to its own columns.                                             *)
(***************************************************************************)
EXTENDS Account, TransactionPin, Kyc, Payout, Points, Social, Notices, Inbox, TLC

CONSTANTS u1, u2

VARIABLE part

MCChampionOf == [c \in Causes |-> {u1}]
MCToggles == {<<"campaignUpdates", "push">>, <<"campaignUpdates", "inApp">>, <<"paymentConfirmations", "sms">>}

UserParts ==
    {"account", "pin", "kyc", "payout", "points", "friends", "chat", "notices", "inbox"}

userVars ==
    <<part, accountVars, pinVars, kycVars, payoutVars, pointsVars, socialVars, noticeVars, inboxVars>>

UserInit ==
    /\ part \in UserParts
    /\ AccountInit /\ PinInit /\ KycInit /\ PayoutInit /\ PointsInit
    /\ SocialInit /\ NoticesInit /\ InboxInit
    /\ part # "kyc" => kycStrict
    /\ part # "payout" => strict /\ \A p \in Payouts : creatorOf[p] = "wallet"

UserNext ==
    \/ /\ part = "account" /\ AccountNext
       /\ UNCHANGED <<part, pinVars, kycVars, payoutVars, pointsVars, socialVars, noticeVars, inboxVars>>
    \/ /\ part = "pin" /\ PinNext
       /\ UNCHANGED <<part, accountVars, kycVars, payoutVars, pointsVars, socialVars, noticeVars, inboxVars>>
    \/ /\ part = "kyc" /\ KycNext
       /\ UNCHANGED <<part, accountVars, pinVars, payoutVars, pointsVars, socialVars, noticeVars, inboxVars>>
    \/ /\ part = "payout" /\ PayoutNext
       /\ UNCHANGED <<part, accountVars, pinVars, kycVars, pointsVars, socialVars, noticeVars, inboxVars>>
    \/ /\ part = "points" /\ PointsNext
       /\ UNCHANGED <<part, accountVars, pinVars, kycVars, payoutVars, socialVars, noticeVars, inboxVars>>
    \/ /\ part = "friends" /\ (FriendsNext \/ BlocksNext)
       /\ UNCHANGED <<part, accountVars, pinVars, kycVars, payoutVars, pointsVars, noticeVars, inboxVars>>
    \/ /\ part = "chat" /\ (ChatNext \/ BlocksNext)
       /\ UNCHANGED <<part, accountVars, pinVars, kycVars, payoutVars, pointsVars, noticeVars, inboxVars>>
    \/ /\ part = "notices" /\ NoticesNext
       /\ UNCHANGED <<part, accountVars, pinVars, kycVars, payoutVars, pointsVars, socialVars, inboxVars>>
    \/ /\ part = "inbox" /\ InboxNext
       /\ UNCHANGED <<part, accountVars, pinVars, kycVars, payoutVars, pointsVars, socialVars, noticeVars>>

UserSpec == UserInit /\ [][UserNext]_userVars

\* The components share the names of their requests and things: what permutes them in all
\* components at once is a symmetry of each.
UserSymmetry == Permutations(Calls) \cup Permutations(Payouts)

-----------------------------------------------------------------------------

\* Every variable of the user's modules keeps its shape.
UserTypeOK ==
    CASE part = "account" -> AccountTypeOK
      [] part = "pin" -> PinTypeOK
      [] part = "kyc" -> KycTypeOK
      [] part = "payout" -> PayoutTypeOK
      [] part = "points" -> PointsTypeOK
      [] part \in {"friends", "chat"} -> SocialTypeOK
      [] part = "notices" -> NoticesTypeOK
      [] part = "inbox" -> InboxTypeOK

\* Nobody is credited twice, or for somebody else: a parked refund is closed when it is
\* paid, once; points are awarded once for a payment, to its giver and to the champion of
\* its campaign, unless rules were edited.
CreditedOnce ==
    /\ part = "payout" => ClosedWhenCredited /\ NeverCreditedTwice
    /\ part = "points" => AwardedOnce /\ ChampionsOthersDonations /\ EarnedWhenUndisturbed

\* What a user has proven, agreed to and asked for: a code counts once, a second factor can
\* be answered, each wrong PIN is counted, the flag of the identity check follows its
\* levels; friends agreed and who is blocked is no friend; preferences are those last asked
\* for, what matters is in the inbox, what is switched off silent, and paging shows it all.
OwnSayIsKept ==
    /\ part = "account" => CodeIsSpent /\ TwoFactorCanBeAnswered
    /\ part = "pin" => FailuresAreCounted
    /\ part = "kyc" => Level1BeforeLevel2 /\ FlagFollowsLevel2
    /\ part \in {"friends", "chat"} => BlockedAreStrangers /\ FriendsAgreed /\ OneRowPerPair
    /\ part = "notices" => ChangesAreKept /\ AlwaysInTheInbox /\ SilentWhenOff
    /\ part = "inbox" => PagedToTheEnd

\* What was decided stays: an address is verified by the newest code and its flag stays, a
\* locked PIN is not tried, an approval not withdrawn, an edited rule not reset by a start
\* of the server, no message passes a block.
DecidedStays ==
    [][VerifiedByNewestCode /\ FlagsStay /\ LockHolds /\ ApprovalStands /\ EditsStick /\ NoMessageThroughBlock]_userVars
=============================================================================
