---------------------------- MODULE CampaignPage ----------------------------
(***************************************************************************)
(* The row of one campaign (campaign.service, campaign-tagging.service)    *)
(* and the donations that raise its amount (donation.service).  Creation   *)
(* is a series of best-effort steps after the row is committed; the        *)
(* creator's edits load the row and save all of it, with donations,        *)
(* taggings and other edits in between; a donation adds to the amount in   *)
(* one statement and announces the milestones of the target.               *)
(***************************************************************************)
EXTENDS Naturals, FiniteSets

CONSTANTS
    CampaignStatus, \* the status values the creator may set, "active" among them
    PageEditors,    \* requests of the creator served at the same time
    Donors,         \* donations under way at the same time
    Titles,         \* the words the tags are derived from
    GiftSizes,      \* amounts of a donation
    Goal,           \* the campaign's target
    MaxGiven        \* bound: what is donated

ASSUME StatusAssumption == "active" \in CampaignStatus
ASSUME TitlesAssumption == "null" \notin Titles /\ {} \notin Titles
ASSUME GiftsAssumption == GiftSizes \subseteq Nat \ {0} /\ MaxGiven \in Nat

VARIABLES
    campaign,       \* the row, << >> before it is created
    creating,       \* how far its creation got
    tagging,        \* the title a tagging has read, {} when none is under way
    editing,        \* each edit: the row as it will be saved
    donating,         \* each donation: the amount it was begun with, 0 when none
    given,          \* history: the sum of the donations committed
    crossedColumns, \* history: columns written while an edit had the row loaded
    missed,         \* history: the tagging failed, and no boot has made up for it
    told            \* history: the milestone last announced, with what had been raised

campaignVars == <<campaign, creating, tagging, editing, donating, given, crossedColumns, missed, told>>

NoTags == "null"
Campaign == [status : CampaignStatus, amount : 0..MaxGiven, title : Titles, tags : Titles \cup {NoTags}, link : BOOLEAN]
Columns == {"status", "amount", "title", "tags", "link"}
Watched == {"amount", "tags", "link"}

CampaignTypeOK ==
    /\ campaign = << >> \/ (campaign \in Campaign /\ given \in 0..MaxGiven)
    /\ creating \in {"no", "saved", "tagged", "done"} /\ (tagging = {} \/ tagging \in Titles)
    /\ \A r \in PageEditors : editing[r] = << >> \/ editing[r] \in Campaign
    /\ donating \in [Donors -> GiftSizes \cup {0}]
    /\ crossedColumns \subseteq Watched /\ missed \in BOOLEAN
    /\ told = << >> \/ told \in {50, 100} \X (0..MaxGiven)
    /\ campaign = << >> => creating = "no" /\ given = 0

CampaignInit ==
    /\ campaign = << >> /\ creating = "no" /\ tagging = {} /\ editing = [r \in PageEditors |-> << >>]
    /\ donating = [d \in Donors |-> 0] /\ given = 0 /\ crossedColumns = {}
    /\ missed = FALSE /\ told = << >>

\* The columns a step has changed, when another edit has the row loaded.
Crossing(by) ==
    crossedColumns' = IF \A q \in PageEditors \ by : editing[q] = << >> THEN crossedColumns
                      ELSE crossedColumns \cup {c \in Watched : campaign'[c] # campaign[c]}

-----------------------------------------------------------------------------
(* Creation *)

\* The row is saved and committed: live at once.
create(title) ==
    /\ campaign = << >> /\ creating' = "saved"
    /\ campaign' = [status |-> "active", amount |-> 0, title |-> title, tags |-> NoTags, link |-> FALSE]
    /\ UNCHANGED <<tagging, editing, donating, given, crossedColumns, missed, told>>

\* The tags are derived from the row as it is read; a failure is logged.
retagCampaign ==
    /\ creating = "saved" /\ tagging = {} /\ creating' = "tagged"
    /\ \/ tagging' = campaign.title /\ UNCHANGED missed
       \/ missed' = TRUE /\ UNCHANGED tagging
    /\ UNCHANGED <<campaign, editing, donating, given, crossedColumns, told>>

\* One column is updated.
WriteTags ==
    /\ tagging # {} /\ campaign' = [campaign EXCEPT !.tags = tagging] /\ tagging' = {}
    /\ missed' = FALSE /\ Crossing({})
    /\ UNCHANGED <<creating, editing, donating, given, told>>

\* The short link is stored, if there is one.
StoreLink ==
    /\ creating = "tagged" /\ tagging = {} /\ creating' = "done"
    /\ \/ campaign' = [campaign EXCEPT !.link = TRUE] /\ Crossing({})
       \/ UNCHANGED <<campaign, crossedColumns>>
    /\ UNCHANGED <<tagging, editing, donating, given, missed, told>>

\* The server stops: what was left of the creation, and every edit, is gone.
Restart ==
    /\ campaign # << >> /\ creating' = "done" /\ tagging' = {} /\ editing' = [r \in PageEditors |-> << >>]
    /\ missed' = (missed \/ creating = "saved" \/ tagging # {})
    /\ UNCHANGED <<campaign, donating, given, crossedColumns, told>>

\* Five seconds after a boot the rows without tags are tagged.
backfillMissingTags ==
    /\ creating = "done" /\ tagging = {} /\ campaign.tags = NoTags /\ tagging' = campaign.title
    /\ UNCHANGED <<campaign, creating, editing, donating, given, crossedColumns, missed, told>>

-----------------------------------------------------------------------------
(* The creator's edits *)

\* Mutant of LoadForEdit: the row is not loaded.
LoadForEdit_Blind(r, change) ==
    /\ campaign # << >> /\ editing[r] = << >> /\ editing' = [editing EXCEPT ![r] = change]
    /\ UNCHANGED <<campaign, creating, tagging, donating, given, crossedColumns, missed, told>>

LoadForEdit(r, change) ==
    /\ campaign # << >> /\ editing[r] = << >>
    /\ editing' = [editing EXCEPT ![r] = [c \in Columns |-> IF c \in DOMAIN change THEN change[c] ELSE campaign[c]]]
    /\ UNCHANGED <<campaign, creating, tagging, donating, given, crossedColumns, missed, told>>

\* Any status follows any other.
updateStatus(r, status) == LoadForEdit(r, [status |-> status])

update(r, title) == LoadForEdit(r, [title |-> title])

\* Every column that differs from the row by now is written.
SaveCampaign(r) ==
    /\ editing[r] # << >> /\ campaign' = editing[r] /\ editing' = [editing EXCEPT ![r] = << >>]
    /\ Crossing({r}) /\ UNCHANGED <<creating, tagging, donating, given, missed, told>>

-----------------------------------------------------------------------------
(* Donations *)

\* From the wallet or through Paystack: only the beginning looks at the status.
donate(d, amount) ==
    /\ campaign # << >> /\ campaign.status = "active" /\ donating[d] = 0 /\ given + amount <= MaxGiven
    /\ donating' = [donating EXCEPT ![d] = amount]
    /\ UNCHANGED <<campaign, creating, tagging, editing, given, crossedColumns, missed, told>>

\* The milestones, from the row that holds the donation already, and the donation.
triggerDonationEvents(raised, amount) ==
    LET hits(part) == 100 * raised < part * Goal /\ 100 * (raised + amount) >= part * Goal IN
    told' = IF hits(100) THEN <<100, raised>> ELSE IF hits(50) THEN <<50, raised>> ELSE told

\* Mutant of CommitDonation: the amount is the one read when the donation began.
CommitDonation_Sets(d) ==
    /\ donating[d] # 0 /\ given + donating[d] <= MaxGiven /\ given' = given + donating[d]
    /\ campaign' = [campaign EXCEPT !.amount = donating[d]] /\ donating' = [donating EXCEPT ![d] = 0]
    /\ triggerDonationEvents(campaign'.amount, donating[d])
    /\ Crossing({}) /\ UNCHANGED <<creating, tagging, editing, missed>>

\* The amount is added in the statement; whatever the status is by now.
CommitDonation(d) ==
    /\ donating[d] # 0 /\ given + donating[d] <= MaxGiven /\ given' = given + donating[d]
    /\ campaign' = [campaign EXCEPT !.amount = @ + donating[d]] /\ donating' = [donating EXCEPT ![d] = 0]
    /\ triggerDonationEvents(campaign'.amount, donating[d])
    /\ Crossing({}) /\ UNCHANGED <<creating, tagging, editing, missed>>

CampaignNext ==
    \/ \E t \in Titles : create(t)
    \/ retagCampaign \/ WriteTags \/ StoreLink \/ Restart \/ backfillMissingTags
    \/ \E r \in PageEditors :
        SaveCampaign(r) \/ (\E s \in CampaignStatus : updateStatus(r, s)) \/ \E t \in Titles : update(r, t)
    \/ \E d \in Donors : CommitDonation(d) \/ \E a \in GiftSizes : donate(d, a)

-----------------------------------------------------------------------------

\* The amount shown is what was donated, unless a donation committed while an edit had
\* the row loaded: the edit's save then writes the old amount (campaign.service:325).
RaisedIsGiven == campaign # << >> /\ "amount" \notin crossedColumns => campaign.amount = given

\* A campaign has its tags from creation on; they are missing only until the next boot
\* has looked for rows without, or where an edit had the row loaded when they came.
TagsAreThere ==
    campaign # << >> /\ creating \in {"tagged", "done"} /\ tagging = {} /\ ~missed /\ "tags" \notin crossedColumns
    => campaign.tags # NoTags

\* The share link goes only with an edit that had loaded the row before it was stored.
LinkStays ==
    [campaign # << >> /\ campaign.link /\ ~campaign'.link => "link" \in crossedColumns]_campaignVars

\* The notification says that the campaign "has hit 100% of its target".  It need not have:
\* the donation is counted twice, for this milestone as for the one of 50%.
MilestoneReached == told # << >> /\ told[1] = 100 => told[2] >= Goal
=============================================================================
