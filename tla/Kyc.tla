-------------------------------- MODULE Kyc --------------------------------
(***************************************************************************)
(* A user's identity verification (kyc.service.ts): the BVN (level 1),     *)
(* documents or a Didit session (level 2), and Didit's webhooks, which     *)
(* come in any order, several at a time and more than once.  What a        *)
(* handler reads, it reads without a lock, before it writes.               *)
(***************************************************************************)
EXTENDS Naturals, FiniteSets

CONSTANTS
    Handlers,       \* requests and webhooks handled at the same time
    MaxHandled      \* bound: requests and webhooks

ASSUME HandledAssumption == MaxHandled \in Nat

VARIABLES
    level1, level2, \* the rows of kycs
    hasCompletedKyc, \* the column of the user
    matches,        \* the registered name and birth date are those of the document
    sessions,       \* Didit sessions opened
    handling,       \* what each handler does and has read
    kycStrict,      \* the database refuses a row without a document type
    approved,       \* history: an approval was handled
    mixed,          \* history: handlers overlapped, a stale flag was saved, or a verdict
                    \* followed an approval
    declaredDone,   \* history: completeKyc was called
    handled         \* counter of the bound

kycVars == <<level1, level2, hasCompletedKyc, matches, sessions, handling, kycStrict,
             approved, mixed, declaredDone, handled>>

KycStatus == {"none", "pending", "verified", "rejected"}
Verdict == {"Approved", "Declined", "In Review"}
Level2Row == [status : KycStatus, attempts : Nat]
\* What the user is told.
getKycStatus == level1 = "verified" /\ level2.status = "verified"

NotHandling == [op |-> "none", matched |-> FALSE, row |-> [status |-> "none", attempts |-> 0], flag |-> FALSE]

KycTypeOK ==
    /\ level1 \in {"none", "verified"} /\ level2 \in Level2Row
    /\ hasCompletedKyc \in BOOLEAN /\ matches \in BOOLEAN /\ kycStrict \in BOOLEAN
    /\ approved \in BOOLEAN /\ mixed \in BOOLEAN /\ declaredDone \in BOOLEAN
    /\ sessions \in Nat /\ handled \in 0..MaxHandled
    /\ handling \in [Handlers -> [op : {"none", "submitKyc", "clearFlag", "saveUser", "completeKyc"} \cup Verdict,
                                  matched : BOOLEAN, row : Level2Row, flag : BOOLEAN]]
    /\ level2.status = "none" => level2.attempts = 0
    /\ level2.attempts = 0 /\ level2.status # "none" =>
           level2.status = "pending" /\ ~kycStrict /\ \E h \in Handlers : handling[h].op = "submitKyc"

KycInit ==
    /\ level1 = "none" /\ level2 = [status |-> "none", attempts |-> 0] /\ hasCompletedKyc = FALSE
    /\ matches = TRUE /\ sessions = 0 /\ handling = [h \in Handlers |-> NotHandling]
    /\ kycStrict \in BOOLEAN
    /\ approved = FALSE /\ mixed = FALSE /\ declaredDone = FALSE /\ handled = 0

Handle == handled < MaxHandled /\ handled' = handled + 1 /\ UNCHANGED kycStrict
Idling(h) == handling[h].op = "none"
Reads(h, op, matched, row) ==
    /\ Idling(h) /\ Handle
    /\ handling' = [handling EXCEPT ![h] = [op |-> op, matched |-> matched, row |-> row, flag |-> hasCompletedKyc]]
    /\ UNCHANGED <<level1, hasCompletedKyc, matches, sessions, approved, declaredDone>>
Overlaps(h) == handling[h].row # level2 \/ handling[h].flag # hasCompletedKyc
Finish(h) == handling' = [handling EXCEPT ![h] = NotHandling]

-----------------------------------------------------------------------------
(* The user's requests *)

\* Level 1 is done as soon as a BVN is given.
submitBvn ==
    /\ level1 # "verified" /\ Handle
    /\ level1' = "verified"
    /\ UNCHANGED <<level2, hasCompletedKyc, matches, sessions, handling, approved, mixed, declaredDone>>

createKycSession ==
    /\ level1 = "verified" /\ Handle
    /\ sessions' = sessions + 1
    /\ UNCHANGED <<level1, level2, hasCompletedKyc, matches, handling, approved, mixed, declaredDone>>

\* Mutant of submitKyc: documents are taken again after an approval.
submitKyc_Verified(h) ==
    /\ level2.status = "none" => ~kycStrict
    /\ level2' = IF level2.status = "none" THEN [status |-> "pending", attempts |-> 0] ELSE level2
    /\ Reads(h, "submitKyc", matches, level2') /\ UNCHANGED mixed

\* A first submission inserts the row before the document is on it, which a strict
\* MySQL refuses: the request fails.
submitKyc(h) ==
    /\ level2.status # "verified"
    /\ level2.status = "none" => ~kycStrict
    /\ level2' = IF level2.status = "none" THEN [status |-> "pending", attempts |-> 0] ELSE level2
    /\ Reads(h, "submitKyc", matches, level2') /\ UNCHANGED mixed

\* The whole row is saved: what came meanwhile is undone.
SaveDocuments(h) ==
    /\ handling[h].op = "submitKyc"
    /\ level2' = [status |-> "pending", attempts |-> handling[h].row.attempts + 1]
    /\ mixed' = (mixed \/ Overlaps(h))
    /\ IF handling[h].flag THEN handling' = [handling EXCEPT ![h].op = "clearFlag"] ELSE Finish(h)
    /\ UNCHANGED <<level1, hasCompletedKyc, matches, sessions, approved, declaredDone, handled, kycStrict>>

\* The user that was loaded to authenticate the request is saved, the names with it.
ClearFlag(h) ==
    /\ handling[h].op = "clearFlag"
    /\ hasCompletedKyc' = FALSE /\ matches' = handling[h].matched /\ Finish(h)
    /\ mixed' = (mixed \/ level2.status = "verified")
    /\ UNCHANGED <<level1, level2, sessions, approved, declaredDone, handled, kycStrict>>

-----------------------------------------------------------------------------
(* Who else writes the flag *)

\* Requests of Account, and updateProfile, load the user, the flag with it.
LoadUser(h) == Reads(h, "saveUser", matches, level2) /\ UNCHANGED <<level2, mixed>>

\* They save what they have loaded: a stale flag, and names that are new, or old.
SaveUser(h) ==
    /\ handling[h].op = "saveUser"
    /\ hasCompletedKyc' = handling[h].flag /\ matches' \in BOOLEAN /\ Finish(h)
    /\ mixed' = (mixed \/ handling[h].flag # hasCompletedKyc)
    /\ UNCHANGED <<level1, level2, sessions, approved, declaredDone, handled, kycStrict>>

LoadToComplete(h) ==
    /\ ~hasCompletedKyc
    /\ Reads(h, "completeKyc", matches, level2) /\ UNCHANGED <<level2, mixed>>

\* The flag, whatever the levels are.
DeclareComplete(h) ==
    /\ handling[h].op = "completeKyc"
    /\ hasCompletedKyc' = TRUE /\ declaredDone' = TRUE /\ matches' = handling[h].matched /\ Finish(h)
    /\ UNCHANGED <<level1, level2, sessions, approved, mixed, handled, kycStrict>>

-----------------------------------------------------------------------------
(* Didit's webhooks *)

handleKycVerificationWebhook(h) ==
    /\ sessions > 0
    /\ \E verdict \in Verdict :
         /\ Reads(h, verdict, matches, level2) /\ UNCHANGED level2
         /\ mixed' = (mixed \/ approved)

\* A transaction reads the row once more and writes it and the flag together.
handleApproved(h) ==
    /\ handling[h].op = "Approved" /\ handling[h].matched
    /\ level2' = [status |-> "verified", attempts |-> level2.attempts + 1]
    /\ hasCompletedKyc' = TRUE /\ approved' = TRUE /\ Finish(h) /\ UNCHANGED mixed
    /\ UNCHANGED <<level1, matches, sessions, declaredDone, handled, kycStrict>>

\* Declined, or approved with another name or birth date.  A row that has come into
\* being since makes the insert fail, and the webhook is lost.
updateLevel2Status(h) ==
    /\ handling[h].op = "Declined" \/ (handling[h].op = "Approved" /\ ~handling[h].matched)
    /\ level2' = IF handling[h].row.status = "none" /\ level2.status # "none" THEN level2
                 ELSE [status |-> "rejected", attempts |-> handling[h].row.attempts + 1]
    /\ mixed' = (mixed \/ Overlaps(h)) /\ Finish(h)
    /\ UNCHANGED <<level1, hasCompletedKyc, matches, sessions, approved, declaredDone, handled, kycStrict>>

\* In its own transaction; attempts are not counted here.
handleInReview(h) ==
    /\ handling[h].op = "In Review"
    /\ level2' = [status |-> "pending", attempts |-> IF level2.status = "none" THEN 1 ELSE level2.attempts]
    /\ mixed' = (mixed \/ Overlaps(h)) /\ Finish(h)
    /\ UNCHANGED <<level1, hasCompletedKyc, matches, sessions, approved, declaredDone, handled, kycStrict>>

KycNext ==
    \/ submitBvn \/ createKycSession
    \/ \E h \in Handlers :
         \/ submitKyc(h) \/ SaveDocuments(h) \/ ClearFlag(h)
         \/ LoadUser(h) \/ SaveUser(h) \/ LoadToComplete(h) \/ DeclareComplete(h)
         \/ handleKycVerificationWebhook(h)
         \/ handleApproved(h) \/ updateLevel2Status(h) \/ handleInReview(h)

-----------------------------------------------------------------------------
(* Properties *)

\* The two answers to "is this user verified", the flag and the levels, agree while no
\* handlers overlap (requests that save the user they loaded before a verdict among them),
\* no verdict follows an approval, and completeKyc is not called.
FlagFollowsLevel2 ==
    ~mixed /\ ~declaredDone /\ (\A h \in Handlers : handling[h].op # "clearFlag")
    => (hasCompletedKyc <=> getKycStatus)

\* Nobody is verified at level 2 without level 1, in whatever order webhooks come.
Level1BeforeLevel2 == level2.status = "verified" => level1 = "verified"

\* An approval is not undone by a verdict that it overtook, unless handlers overlap
\* with it or a later verdict says so.
ApprovalStands ==
    [level2.status = "verified" => level2'.status = "verified" \/ mixed']_kycVars
=============================================================================
