------------------------------ MODULE Account ------------------------------
(***************************************************************************)
(* One user's account (auth.service.ts, otp-auth.service.ts, and           *)
(* settings.service.ts as far as two-factor login goes): the codes that    *)
(* verify the phone and reset the password, and the flags of registration. *)
(* A request reads the row, checks it and later writes: some handlers save *)
(* the whole row they have read, others update a few columns.  One column  *)
(* of the row, the flag of the identity check, is in Kyc, with these       *)
(* requests as its SaveUser.                                               *)
(***************************************************************************)
EXTENDS Naturals, FiniteSets

CONSTANTS
    Calls,          \* requests served at the same time
    MaxCalls,       \* bound: requests
    MaxSent         \* bound: codes, tokens and secrets generated

ASSUME SentAssumption == MaxCalls \in Nat /\ MaxSent \in Nat \ {0}

VARIABLES
    user,           \* the row of users
    twoFactor,      \* the two-factor columns of the row of settings
    calling,        \* what each request does and the rows it has read
    sent,           \* codes, tokens and secrets generated so far: the last one's number
    phoneCode,      \* history: the last code sent to the phone
    spent,          \* history: codes and reset tokens that were accepted
    twice,          \* history: one of them was accepted again
    stale,          \* history: a request wrote on a row that had changed since it read it
    clobbered,      \* history: a save of a whole row undid such a change
    calls           \* counter of the bound

accountVars == <<user, twoFactor, calling, sent, phoneCode, spent, twice, stale, clobbered, calls>>

None == 0           \* no code, no token, no secret
UserRow == [verified : BOOLEAN, basicInfo : BOOLEAN, phoneOtp : Nat, emailOtp : Nat,
            otpExpiration : {"none", "live", "past"}, reset : Nat, resetLive : BOOLEAN]
TwoFactorRow == [enabled : BOOLEAN, secret : Nat]
CallOps == {"none", "login", "loginWithPin", "verifyOtp", "resendOtp", "forgotPassword", "verifyResetOtp",
            "resetPassword", "submitBasicInfo", "completeKyc", "updateProfile", "verify2FA", "disable2FA", "updateSettings"}
NewUser == [verified |-> FALSE, basicInfo |-> FALSE, phoneOtp |-> 1, emailOtp |-> 1,
            otpExpiration |-> "live", reset |-> None, resetLive |-> FALSE]
NewTwoFactor == [enabled |-> FALSE, secret |-> None]
NoCall == [op |-> "none", row |-> NewUser, settings |-> NewTwoFactor, code |-> None]

AccountTypeOK ==
    /\ user \in UserRow /\ twoFactor \in TwoFactorRow
    /\ calling \in [Calls -> [op : CallOps, row : UserRow, settings : TwoFactorRow, code : Nat]]
    /\ sent \in 0..MaxSent /\ phoneCode \in 0..sent /\ spent \in SUBSET (1..sent)
    /\ user.phoneOtp \in 0..sent /\ user.emailOtp \in 0..sent /\ user.reset \in 0..sent
    /\ twoFactor.secret \in 0..sent
    /\ user.otpExpiration # "none" => user.phoneOtp # None
    /\ twice \in BOOLEAN /\ stale \in BOOLEAN /\ clobbered \in BOOLEAN /\ calls \in 0..MaxCalls

\* signup: the same code goes to the phone and the mailbox.
AccountInit ==
    /\ user = NewUser /\ twoFactor = NewTwoFactor
    /\ calling = [r \in Calls |-> NoCall]
    /\ sent = 1 /\ phoneCode = 1 /\ spent = {} /\ twice = FALSE /\ stale = FALSE /\ clobbered = FALSE /\ calls = 0

Call(r, op, code) ==
    /\ calling[r].op = "none" /\ calls < MaxCalls /\ calls' = calls + 1
    /\ calling' = [calling EXCEPT ![r] = [op |-> op, row |-> user, settings |-> twoFactor, code |-> code]]
    /\ UNCHANGED <<user, twoFactor, sent, phoneCode, spent, twice, stale, clobbered>>

Returns(r, op) ==
    /\ calling[r].op = op
    /\ stale' = (stale \/ calling[r].row # user \/ calling[r].settings # twoFactor)
    /\ calling' = [calling EXCEPT ![r] = NoCall]
    /\ UNCHANGED calls

\* save(user): every column goes back to what was read, but for those that were set.
SaveRow(r, row) ==
    /\ user' = row
    /\ clobbered' = (clobbered \/ calling[r].row # user)
    /\ UNCHANGED twoFactor

UpdateColumns(row) == user' = row /\ UNCHANGED <<twoFactor, clobbered>>

Spend(code) == spent' = spent \cup {code} /\ twice' = (twice \/ code \in spent)
Generate == sent < MaxSent /\ sent' = sent + 1
Generated(toPhone) == Generate /\ phoneCode' = IF toPhone THEN sent' ELSE phoneCode
NothingSent == UNCHANGED <<sent, phoneCode>>
NothingSpent == UNCHANGED <<spent, twice>>

-----------------------------------------------------------------------------
(* Verifying the phone *)

\* A login before the phone is verified sends a code, to the phone alone; the row
\* was read in part, and what was read is written back.
login(r) == ~user.verified /\ Call(r, "login", None)
loginWithPin(r) == ~user.verified /\ Call(r, "loginWithPin", None)

SendLoginCode(r) ==
    /\ Returns(r, "login") \/ Returns(r, "loginWithPin")
    /\ Generated(TRUE)
    /\ user' = [user EXCEPT !.phoneOtp = sent', !.otpExpiration = "live", !.verified = FALSE]
    /\ clobbered' = (clobbered \/ user.verified)
    /\ NothingSpent /\ UNCHANGED twoFactor

verifyOtp(r) ==
    /\ user.otpExpiration = "live"
    /\ Call(r, "verifyOtp", user.phoneOtp)

WriteVerified(r) ==
    /\ Returns(r, "verifyOtp")
    /\ SaveRow(r, [calling[r].row EXCEPT !.verified = TRUE, !.otpExpiration = "none"])
    /\ Spend(calling[r].code) /\ NothingSent

resendOtp(r) == ~user.verified /\ Call(r, "resendOtp", None)
forgotPassword(r) == Call(r, "forgotPassword", None)

\* Both send one code to the phone and the mailbox.
SendCode(r) ==
    /\ Returns(r, "resendOtp") \/ Returns(r, "forgotPassword")
    /\ Generated(TRUE)
    /\ SaveRow(r, [calling[r].row EXCEPT !.phoneOtp = sent', !.emailOtp = sent', !.otpExpiration = "live"])
    /\ NothingSpent

-----------------------------------------------------------------------------
(* Resetting the password *)

\* Either code will do, the phone's or the mailbox's.
verifyResetOtp(r) ==
    /\ user.otpExpiration = "live"
    /\ \E code \in {user.phoneOtp, user.emailOtp} \ {None} : Call(r, "verifyResetOtp", code)

IssueResetToken(r) ==
    /\ Returns(r, "verifyResetOtp")
    /\ Generated(FALSE)
    /\ UpdateColumns([user EXCEPT !.phoneOtp = None, !.emailOtp = None, !.otpExpiration = "none",
                                  !.reset = sent', !.resetLive = TRUE])
    /\ Spend(calling[r].code)

\* A token that has expired is cleared at once.
resetPassword(r) ==
    \/ user.reset # None /\ user.resetLive /\ Call(r, "resetPassword", user.reset)
    \/ /\ user.reset # None /\ ~user.resetLive
       /\ UpdateColumns([user EXCEPT !.reset = None])
       /\ NothingSent /\ NothingSpent /\ UNCHANGED <<calling, calls, stale>>

WriteNewPassword(r) ==
    /\ Returns(r, "resetPassword")
    /\ UpdateColumns([user EXCEPT !.reset = None, !.resetLive = FALSE])
    /\ Spend(calling[r].code) /\ NothingSent

-----------------------------------------------------------------------------
(* Registration *)

submitBasicInfo(r) == Call(r, "submitBasicInfo", None)
SaveBasicInfo(r) ==
    /\ Returns(r, "submitBasicInfo")
    /\ SaveRow(r, [calling[r].row EXCEPT !.basicInfo = TRUE])
    /\ NothingSent /\ NothingSpent

\* It sets the flag of the identity check, and writes back the rest.
completeKyc(r) == Call(r, "completeKyc", None)
SaveKyc(r) ==
    /\ Returns(r, "completeKyc")
    /\ SaveRow(r, calling[r].row)
    /\ NothingSent /\ NothingSpent

\* updateProfile, and submitKyc where it clears the flag of the identity check, save the
\* user that was loaded to authenticate the request: the flags, not the codes.
updateProfile(r) == Call(r, "updateProfile", None)
SaveProfile(r) ==
    /\ Returns(r, "updateProfile")
    /\ user' = [user EXCEPT !.verified = calling[r].row.verified, !.basicInfo = calling[r].row.basicInfo]
    /\ clobbered' = (clobbered \/ user' # user)
    /\ NothingSent /\ NothingSpent /\ UNCHANGED twoFactor

Expiry ==
    /\ \/ user.otpExpiration = "live" /\ user' = [user EXCEPT !.otpExpiration = "past"]
       \/ user.resetLive /\ user' = [user EXCEPT !.resetLive = FALSE]
    /\ UNCHANGED <<twoFactor, calling, sent, phoneCode, spent, twice, stale, clobbered, calls>>

-----------------------------------------------------------------------------
(* Two-factor login *)

\* A new secret; login asks for it after it was verified.
enable2FA ==
    /\ Generate /\ calls < MaxCalls /\ calls' = calls + 1
    /\ twoFactor' = [enabled |-> FALSE, secret |-> sent']
    /\ UNCHANGED <<user, calling, phoneCode, spent, twice, stale, clobbered>>

verify2FA(r) == twoFactor.secret # None /\ Call(r, "verify2FA", None)

WriteVerified2FA(r) ==
    /\ Returns(r, "verify2FA")
    /\ twoFactor' = [twoFactor EXCEPT !.enabled = TRUE]
    /\ NothingSent /\ NothingSpent /\ UNCHANGED <<user, clobbered>>

disable2FA(r) == twoFactor.enabled /\ twoFactor.secret # None /\ Call(r, "disable2FA", None)

WriteDisabled2FA(r) ==
    /\ Returns(r, "disable2FA")
    /\ twoFactor' = [enabled |-> FALSE, secret |-> None]
    /\ NothingSent /\ NothingSpent /\ UNCHANGED <<user, clobbered>>

\* Preferences: the whole row of settings is saved.
updateSettings(r) == Call(r, "updateSettings", None)
SaveSettings(r) ==
    /\ Returns(r, "updateSettings")
    /\ twoFactor' = calling[r].settings
    /\ clobbered' = (clobbered \/ calling[r].settings # twoFactor)
    /\ NothingSent /\ NothingSpent /\ UNCHANGED user

AccountNext ==
    \/ \E r \in Calls :
         \/ login(r) \/ SendLoginCode(r) \/ loginWithPin(r) \/ verifyOtp(r) \/ WriteVerified(r)
         \/ resendOtp(r) \/ forgotPassword(r) \/ SendCode(r)
         \/ verifyResetOtp(r) \/ IssueResetToken(r) \/ resetPassword(r) \/ WriteNewPassword(r)
         \/ submitBasicInfo(r) \/ SaveBasicInfo(r) \/ completeKyc(r) \/ SaveKyc(r)
         \/ updateProfile(r) \/ SaveProfile(r)
         \/ verify2FA(r) \/ WriteVerified2FA(r) \/ disable2FA(r) \/ WriteDisabled2FA(r)
         \/ updateSettings(r) \/ SaveSettings(r)
    \/ Expiry \/ enable2FA

-----------------------------------------------------------------------------
(* Properties *)

\* A code that verified the phone or was exchanged for a reset token, and a token
\* that changed the password, is not accepted again, although the two flows share
\* the columns of the codes and a login extends their life: unless requests overlap.
CodeIsSpent == ~stale => ~twice

\* The phone is verified with the last code sent to it.
VerifiedByNewestCode ==
    [\A r \in Calls : WriteVerified(r) /\ ~stale' => calling[r].code = phoneCode]_accountVars

\* What a user has gone through stays: a verified phone and submitted basic information
\* go back only where a saved row undoes what another request wrote meanwhile.
FlagsStay ==
    [/\ user.verified => user'.verified
     /\ user.basicInfo => user'.basicInfo
     \/ clobbered']_accountVars

\* Two-factor login that is on can be answered: there is a secret, unless an answer
\* or a save of the settings crossed disabling it.
TwoFactorCanBeAnswered == twoFactor.enabled /\ ~stale => twoFactor.secret # None
=============================================================================
