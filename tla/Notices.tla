------------------------------- MODULE Notices -------------------------------
(***************************************************************************)
(* What one user is told: the events of the other components and where     *)
(* each goes (notification.listener), the channels of one notice, tried    *)
(* one after the other (notification.service notify), and the preferences  *)
(* they obey (settings.service).                                           *)
(***************************************************************************)
EXTENDS Naturals

CONSTANTS
    Editors,        \* requests that change the preferences at the same time
    Toggles,        \* the preferences that are changed: <<category, channel>>
    MaxChanges      \* bound: changes of the preferences

VARIABLES
    prefs,          \* the settings row: category |-> channels that are on
    editor,         \* each request that changes it: the copy it read, its change
    wanted,         \* history: what was last asked for each preference
    crossed,        \* history: preferences asked for while another request held a copy
    changes,        \* counter of the bound
    notice          \* the notice being sent: its route and preferences, its step, the
                    \* channels it has left by, its rows and the inserts that failed

noticeVars == <<prefs, editor, wanted, crossed, changes, notice>>

-----------------------------------------------------------------------------
(* notification.listener: category of the preferences, type, what the metadata carries *)

Route(category, type, carries) == [category |-> category, type |-> type, carries |-> carries]

AccountRoutes ==
    LET code == Route("securityAlerts", "auth", {"phone", "email"})
        alert == Route("securityAlerts", "security", {"phone", "push"}) IN
    [user_created |-> [code EXCEPT !.type = "account"], verify_otp |-> code,
     password_reset_otp |-> code, login |-> alert]

CampaignRoutes ==
    LET update == Route("campaignUpdates", "campaign", {"phone", "push"}) IN
    [campaign_live |-> update, campaign_milestone |-> update,
     donation_received |-> [update EXCEPT !.carries = {"push"}],
     donation_receipt |-> Route("paymentConfirmations", "transaction", {"push"})]

PasswordRoutes == [password_changed |-> Route("securityAlerts", "security", {"phone", "push", "email"})]

KycRoutes ==
    LET outcome == Route("securityAlerts", "kyc", {"phone", "push"}) IN
    [kyc_approved |-> outcome, kyc_declined |-> outcome, kyc_in_review |-> outcome,
     kyc_name_mismatch |-> outcome, kyc_dob_mismatch |-> outcome]

Share == Route("paymentConfirmations", "split_bill", {"phone", "push"})

\* A guest has no inbox: invited or reminded, they are sent a text message and nothing else.
BillRoutes ==
    [participant_added |-> Share, participant_accepted |-> Share, participant_declined |-> Share,
     payment_received |-> Share]

ShareRoutes ==
    [reminder |-> Share, query_raised |-> [Share EXCEPT !.carries = {"push"}],
     paid_on_your_behalf |-> [Share EXCEPT !.carries = {}]]

MoneyRoutes ==
    LET paid == Route("paymentConfirmations", "transaction", {}) IN
    [wallet_funded |-> paid, withdrawal_completed |-> paid,
     withdrawal_failed |-> [paid EXCEPT !.category = "securityAlerts"],
     contribution_created |-> Route("socialInteractions", "event_contribution", {"push"})]

Routes ==
    {AccountRoutes, CampaignRoutes, PasswordRoutes, KycRoutes, BillRoutes, ShareRoutes, MoneyRoutes}
RouteOf(event) == (CHOOSE table \in Routes : event \in DOMAIN table)[event]
Told == UNION {DOMAIN table : table \in Routes}

\* A contribution comes without its event, so that its notice is addressed to the id of
\* the event: that has no preferences, and the contributor's own notice is not reached.
Misaddressed == {"contribution_created"}

Sensitive == {"auth", "account"}
AlwaysKept == {"security", "kyc", "transaction", "split_bill", "campaign", "event"}

-----------------------------------------------------------------------------
(* The preferences *)

On(channels) == [push |-> "push" \in channels, sms |-> "sms" \in channels, inApp |-> "inApp" \in channels]

\* The row a user is given when they register.  A donor the champion page creates has
\* none, and is sent nothing.
createDefaultSettings ==
    [campaignUpdates |-> On({"push", "inApp"}), paymentConfirmations |-> On({"push", "inApp", "sms"}),
     socialInteractions |-> On({"push", "inApp"}), securityAlerts |-> On({"push", "inApp", "sms"})]

Channels == {"push", "sms", "inApp"}
ASSUME TogglesAssumption == Toggles \subseteq (DOMAIN createDefaultSettings) \X Channels /\ MaxChanges \in Nat

NoEdit == [at |-> "idle"]
NoNotice == [at |-> "idle"]

NoticesInit ==
    /\ prefs = createDefaultSettings
    /\ editor = [d \in Editors |-> NoEdit]
    /\ wanted = << >> /\ crossed = {} /\ changes = 0
    /\ notice = NoNotice

Holding == {d \in Editors : editor[d].at = "read"}

\* updateSettings reads the row.
ReadSettings(d, toggle, on) ==
    /\ editor[d].at = "idle" /\ changes < MaxChanges /\ changes' = changes + 1
    /\ editor' = [editor EXCEPT ![d] = [at |-> "read", copy |-> prefs, change |-> toggle, on |-> on]]
    /\ crossed' = IF Holding = {} THEN crossed ELSE crossed \cup {toggle} \cup {editor[x].change : x \in Holding}
    /\ UNCHANGED <<prefs, wanted, notice>>

Asked(d) == [x \in DOMAIN wanted \cup {editor[d].change} |-> IF x = editor[d].change THEN editor[d].on ELSE wanted[x]]

\* Mutant of updatePreferences: a category is replaced by what the request says of it.
updatePreferences_Replaces(d) ==
    /\ editor[d].at = "read" /\ wanted' = Asked(d)
    /\ prefs' = [prefs EXCEPT ![editor[d].change[1]] = [On({}) EXCEPT ![editor[d].change[2]] = editor[d].on]]
    /\ editor' = [editor EXCEPT ![d] = NoEdit] /\ UNCHANGED <<crossed, changes, notice>>

\* It merges the change into its copy of the category, and saves the copy of them all.
updatePreferences(d) ==
    /\ editor[d].at = "read" /\ wanted' = Asked(d)
    /\ prefs' = [editor[d].copy EXCEPT ![editor[d].change[1]][editor[d].change[2]] = editor[d].on]
    /\ editor' = [editor EXCEPT ![d] = NoEdit] /\ UNCHANGED <<crossed, changes, notice>>

-----------------------------------------------------------------------------
(* One notice *)

Pref(channel) == notice.copy[channel]
Carries(what) == what \in notice.route.carries
IsSensitive == notice.route.type \in Sensitive
InApp == notice.route.type \in AlwaysKept \/ Pref("inApp")

\* The preferences of the category are read before anything is sent.
notifyUser(event) ==
    /\ notice.at = "idle" /\ event \notin Misaddressed
    /\ notice' = [at |-> "first", route |-> RouteOf(event), copy |-> prefs[RouteOf(event).category],
                  left |-> {}, rows |-> 0, lost |-> 0]
    /\ UNCHANGED <<prefs, editor, wanted, crossed, changes>>

\* A row is inserted, or the insert fails, and the notice goes on.
InsertNotice(kept, to) ==
    /\ UNCHANGED <<prefs, editor, wanted, crossed, changes>>
    /\ \/ ~kept /\ notice' = [notice EXCEPT !.at = to]
       \/ kept /\ notice' = [notice EXCEPT !.at = to, !.rows = @ + 1]
       \/ kept /\ notice' = [notice EXCEPT !.at = to, !.lost = @ + 1]

\* Kept unless it holds a code.
FirstCopy == notice.at = "first" /\ InsertNotice(~IsSensitive /\ InApp, "second")

\* And kept, again, whatever it holds.
SecondCopy == notice.at = "second" /\ InsertNotice(InApp, "push")

\* A channel that is not called, or that fails, does not stop the next.
Leaves(channel, called, to) ==
    /\ notice.at = channel /\ UNCHANGED <<prefs, editor, wanted, crossed, changes>>
    /\ \/ notice' = [notice EXCEPT !.at = to]
       \/ called /\ notice' = [notice EXCEPT !.at = to, !.left = @ \cup {channel}]

SendPush == Leaves("push", Pref("push") /\ Carries("push"), "sms")

SendSms == Leaves("sms", Pref("sms") /\ Carries("phone"), "whatsapp")

\* WhatsApp is not a preference; codes are mailed as well.
SendWhatsApp == Leaves("whatsapp", Carries("phone"), "email")
SendEmail == Leaves("email", IsSensitive /\ Carries("email"), "ended")

Ended == notice.at = "ended" /\ notice' = NoNotice /\ UNCHANGED <<prefs, editor, wanted, crossed, changes>>

NoticesNext ==
    \/ \E d \in Editors : updatePreferences(d) \/ \E toggle \in Toggles, on \in BOOLEAN : ReadSettings(d, toggle, on)
    \/ \E event \in Told : notifyUser(event)
    \/ FirstCopy \/ SecondCopy \/ SendPush \/ SendSms \/ SendWhatsApp \/ SendEmail \/ Ended

-----------------------------------------------------------------------------

NoticesTypeOK ==
    /\ prefs \in [DOMAIN createDefaultSettings -> [push : BOOLEAN, sms : BOOLEAN, inApp : BOOLEAN]]
    /\ DOMAIN wanted \subseteq Toggles /\ crossed \subseteq Toggles /\ changes \in 0..MaxChanges
    /\ \A d \in Holding : editor[d].change \in Toggles /\ editor[d].on \in BOOLEAN
    /\ notice.at # "idle" => notice.rows + notice.lost <= (IF IsSensitive THEN 1 ELSE 2)

\* A preference is what was last asked for it, unless two requests overlapped: a change of
\* one channel leaves the others of its category, and the other categories, as they were.
ChangesAreKept ==
    \A toggle \in DOMAIN wanted \ crossed : prefs[toggle[1]][toggle[2]] = wanted[toggle]

\* Money, identity, bills and campaigns are kept in the inbox whatever the preferences say
\* and whichever channel fails: such a notice has a row unless both inserts failed.
AlwaysInTheInbox ==
    notice.at = "ended" /\ notice.route.type \in AlwaysKept => notice.rows > 0 \/ notice.lost = 2

\* A channel that was switched off when the notice was sent stays silent, and a code is
\* never pushed to a locked screen.
SilentWhenOff ==
    notice.at # "idle" =>
        \A channel \in notice.left \cap {"push", "sms"} : Pref(channel) /\ ~(channel = "push" /\ IsSensitive)
=============================================================================
