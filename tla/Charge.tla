------------------------------- MODULE Charge -------------------------------
(***************************************************************************)
(* One Paystack charge from its initialisation to its effect: the          *)
(* charge.success webhook (dispatch and the handlers it routes to) and the *)
(* verify endpoints that clients call when they return from the hosted     *)
(* page (payment-webhook.service.ts, wallet.service.ts).                   *)
(*                                                                         *)
(*   card          wallet top-up, its transaction row inserted beforehand  *)
(*   dva           bank transfer to the wallet's virtual account, no row   *)
(*   donation      campaign donation, its row inserted beforehand          *)
(*   contribution  event contribution, the webhook inserts the row         *)
(*                                                                         *)
(* Reads, calls of Paystack and transactions are steps of their own.       *)
(***************************************************************************)
EXTENDS Naturals, FiniteSets

CONSTANTS
    Kinds,          \* the kinds of charge a run looks at
    Dvas,           \* whether the payer has a virtual account
    UniqueLogs,     \* whether webhook_logs.gateway_reference is unique: it is in
                    \* AddWalletSystem, it is not in webhook-log.entity.ts
    Deliveries,     \* webhook requests handled at the same time
    Verifies,       \* verify requests handled at the same time
    MaxDups,        \* bound: superfluous deliveries
    MaxFailures,    \* bound: calls and transactions that fail
    MaxCrashes      \* bound: crashes of the server

AllKinds == {"card", "dva", "donation", "contribution"}

ASSUME KindsAssumption == Kinds \subseteq AllKinds
ASSUME FlagsAssumption == Dvas \subseteq BOOLEAN /\ UniqueLogs \subseteq BOOLEAN
ASSUME HandlersAssumption == Deliveries \cap Verifies = {}
ASSUME BoundsAssumption == {MaxDups, MaxFailures, MaxCrashes} \subseteq Nat

VARIABLES
    kind,       \* what the charge is for
    hasDva,     \* the payer has a virtual account
    uniqueLog,  \* the schema in use
    paid,       \* Paystack has taken the money
    acked,      \* Paystack was answered 200 for charge.success
    tx,         \* status of the transaction row with the charge's reference
    effects,    \* wallet credits, donations or contributions recorded
    pc,         \* where each handler is
    row,        \* the webhook log row a delivery works on
    logs,       \* webhook log rows, by the delivery that inserted them
    refused,    \* verify requests that Paystack confirmed and that ended in an error
    dups, failures, crashes     \* counters of the bounds

setup == <<kind, hasDva, uniqueLog>>
bounds == <<dups, failures, crashes>>
db == <<tx, effects>>
vars == <<setup, paid, acked, db, pc, row, logs, refused, bounds>>

Handlers == Deliveries \cup Verifies

TypeOK ==
    /\ kind \in Kinds /\ hasDva \in Dvas /\ uniqueLog \in UniqueLogs
    /\ paid \in BOOLEAN /\ acked \in BOOLEAN
    /\ tx \in {"none", "pending", "completed", "failed"}
    /\ effects \in Nat
    /\ pc \in [Handlers -> {"idle", "lookup", "insert", "confirm", "find", "claim", "creditDva",
                            "donate", "contribute", "mark", "markFailed"}]
    /\ row \in [Deliveries -> Deliveries]
    /\ logs \in [Deliveries -> {"none", "open", "done"}]
    /\ refused \in BOOLEAN
    /\ dups \in 0..MaxDups /\ failures \in 0..MaxFailures /\ crashes \in 0..MaxCrashes

\* initiateWalletFunding and initializePaystackDonation insert the row first.
Init ==
    /\ kind \in Kinds /\ hasDva \in Dvas /\ uniqueLog \in UniqueLogs
    /\ kind = "dva" => hasDva
    /\ paid = FALSE /\ acked = FALSE
    /\ tx = IF kind \in {"card", "donation"} THEN "pending" ELSE "none"
    /\ effects = 0
    /\ pc = [h \in Handlers |-> "idle"]
    /\ row = [d \in Deliveries |-> d]
    /\ logs = [d \in Deliveries |-> "none"]
    /\ refused = FALSE
    /\ dups = 0 /\ failures = 0 /\ crashes = 0

At(h, label) == pc[h] = label
GoTo(h, label) == pc' = [pc EXCEPT ![h] = label]

-----------------------------------------------------------------------------
(* Paystack *)

Pay ==
    /\ ~paid /\ paid' = TRUE
    /\ UNCHANGED <<setup, acked, db, pc, row, logs, refused, bounds>>

\* charge.success is delivered until it is answered 200, now and then twice.
Deliver(d) ==
    /\ At(d, "idle") /\ paid
    /\ IF acked \/ \E x \in Deliveries : ~At(x, "idle")
       THEN dups < MaxDups /\ dups' = dups + 1
       ELSE UNCHANGED dups
    /\ GoTo(d, "lookup")
    /\ UNCHANGED <<setup, paid, acked, db, row, logs, refused, failures, crashes>>

-----------------------------------------------------------------------------
(* dispatch(), as for transfers, but an error is answered 500 *)

Answer(d) == GoTo(d, "idle") /\ acked' = TRUE

LookupLog(d) ==
    /\ At(d, "lookup")
    /\ IF \A x \in Deliveries : logs[x] = "none"
       THEN GoTo(d, "insert") /\ UNCHANGED <<acked, row>>
       ELSE \E x \in Deliveries :
              \/ /\ logs[x] = "done"
                 /\ Answer(d)
                 /\ UNCHANGED row
              \/ /\ logs[x] = "open"
                 /\ row' = [row EXCEPT ![d] = x]
                 /\ GoTo(d, "confirm")
                 /\ UNCHANGED acked
    /\ UNCHANGED <<setup, paid, db, logs, refused, bounds>>

InsertLog(d) ==
    /\ At(d, "insert")
    /\ IF uniqueLog /\ \E x \in Deliveries : logs[x] # "none"
       THEN GoTo(d, "idle") /\ UNCHANGED <<row, logs>>
       ELSE /\ logs' = [logs EXCEPT ![d] = "open"]
            /\ row' = [row EXCEPT ![d] = d]
            /\ GoTo(d, "confirm")
    /\ UNCHANGED <<setup, paid, acked, db, refused, bounds>>

MarkProcessed(d) ==
    /\ At(d, "mark")
    /\ IF d \in Deliveries
       THEN logs' = [logs EXCEPT ![row[d]] = "done"] /\ Answer(d)
       ELSE GoTo(d, "idle") /\ UNCHANGED <<logs, acked>>
    /\ UNCHANGED <<setup, paid, db, row, refused, bounds>>

\* A call of Paystack or a transaction fails: it is rolled back, a delivery is
\* answered 500 and its log row stays open.
Fails(h) ==
    /\ pc[h] \in {"confirm", "claim", "creditDva", "donate", "contribute"}
    /\ h \in Verifies => kind = "donation"
    /\ failures < MaxFailures /\ failures' = failures + 1
    /\ GoTo(h, "idle")
    /\ UNCHANGED <<setup, paid, acked, db, row, logs, refused, dups, crashes>>

-----------------------------------------------------------------------------
(* verifyAndCreditFunding and finalizeCampaignDonationByReference *)

VerifyReads(v) ==
    /\ At(v, "idle")
    /\ kind \in {"card", "donation"} /\ tx = "pending"
    /\ GoTo(v, "confirm")
    /\ UNCHANGED <<setup, paid, acked, db, row, logs, refused, bounds>>

\* verifyTransaction of Paystack returns: handleChargeSuccess, and the
\* donation's verify, go on to the handler of the charge.
Confirmed(h) ==
    /\ At(h, "confirm") /\ paid
    /\ h \in Verifies => kind = "donation"
    /\ GoTo(h, "find")
    /\ UNCHANGED <<setup, paid, acked, db, row, logs, refused, bounds>>

FundingVerifyThrows_StatusKept(v) ==
    /\ At(v, "confirm") /\ kind = "card" /\ paid
    /\ refused' = TRUE
    /\ tx' = "completed"
    /\ GoTo(v, "idle")
    /\ UNCHANGED <<setup, paid, acked, effects, row, logs, bounds>>

\* The transaction of verifyAndCreditFunding names a column that Transaction
\* does not have (paymentGateway): it throws, whatever Paystack confirmed.
FundingVerifyThrows(v) ==
    /\ At(v, "confirm") /\ kind = "card" /\ paid
    /\ refused' = TRUE
    /\ GoTo(v, "idle")
    /\ UNCHANGED <<setup, paid, acked, db, row, logs, bounds>>

\* Paystack says the charge is not successful.  The funding's verify goes on to
\* mark the row, the donation's verify throws.
VerifyUnpaid(v) ==
    /\ At(v, "confirm") /\ ~paid
    /\ GoTo(v, IF kind = "card" THEN "markFailed" ELSE "idle")
    /\ UNCHANGED <<setup, paid, acked, db, row, logs, refused, bounds>>

\* Any error of the call is taken for the same answer.
VerifyCallFails(v) ==
    /\ At(v, "confirm") /\ kind = "card"
    /\ failures < MaxFailures /\ failures' = failures + 1
    /\ GoTo(v, "markFailed")
    /\ UNCHANGED <<setup, paid, acked, db, row, logs, refused, dups, crashes>>

\* An update by id, whatever the status is by now.
VerifyMarksFailed(v) ==
    /\ At(v, "markFailed")
    /\ tx' = "failed"
    /\ GoTo(v, "idle")
    /\ UNCHANGED <<setup, paid, acked, effects, row, logs, refused, bounds>>

-----------------------------------------------------------------------------
(* The handlers of charge.success *)

FindTransaction_AnyStatus(h) ==
    /\ At(h, "find")
    /\ \/ /\ kind \in {"card", "dva"}
          /\ GoTo(h, IF tx = "pending" THEN "claim" ELSE IF hasDva THEN "creditDva" ELSE "mark")
       \/ kind = "donation" /\ GoTo(h, "donate")
       \/ kind = "contribution" /\ GoTo(h, "contribute")
    /\ UNCHANGED <<setup, paid, acked, db, row, logs, refused, bounds>>

\* Each handler first looks for the transaction row, without a lock: pending
\* for a top-up or a donation, completed for a contribution.
FindTransaction(h) ==
    /\ At(h, "find")
    /\ \/ /\ kind \in {"card", "dva"}
          /\ GoTo(h, IF tx = "pending" THEN "claim" ELSE IF hasDva THEN "creditDva" ELSE "mark")
       \/ /\ kind = "donation"
          /\ GoTo(h, IF tx = "pending" THEN "donate" ELSE "mark")
       \/ /\ kind = "contribution"
          /\ GoTo(h, IF tx = "completed" THEN "mark" ELSE "contribute")
    /\ UNCHANGED <<setup, paid, acked, db, row, logs, refused, bounds>>

ClaimAndCredit_Unconditional(h) ==
    /\ At(h, "claim")
    /\ tx' = "completed" /\ effects' = effects + 1
    /\ GoTo(h, "mark")
    /\ UNCHANGED <<setup, paid, acked, row, logs, refused, bounds>>

ClaimAndCredit_StaysProcessing(h) ==
    /\ At(h, "claim")
    /\ IF tx = "pending" THEN tx' = "processing" /\ effects' = effects + 1
                         ELSE UNCHANGED db
    /\ GoTo(h, "mark")
    /\ UNCHANGED <<setup, paid, acked, row, logs, refused, bounds>>

\* UPDATE ... WHERE status = PENDING, the credit and COMPLETED: one transaction.
ClaimAndCredit(h) ==
    /\ At(h, "claim")
    /\ IF tx = "pending" THEN tx' = "completed" /\ effects' = effects + 1
                         ELSE UNCHANGED db
    /\ GoTo(h, "mark")
    /\ UNCHANGED <<setup, paid, acked, row, logs, refused, bounds>>

\* No pending row: taken for a transfer to the virtual account and credited
\* under a new random reference.
CreditVirtualAccount(h) ==
    /\ At(h, "creditDva")
    /\ effects' = effects + 1
    /\ GoTo(h, "mark")
    /\ UNCHANGED <<setup, paid, acked, tx, row, logs, refused, bounds>>

\* processCampaignDonationWebhook saves the row it read, inserts the donation
\* and adds to current_amount.
RecordDonation(h) ==
    /\ At(h, "donate")
    /\ tx' = "completed" /\ effects' = effects + 1
    /\ GoTo(h, "mark")
    /\ UNCHANGED <<setup, paid, acked, row, logs, refused, bounds>>

\* processEventContributionWebhook inserts under the charge's own reference,
\* which is unique: the second insert throws and is answered 500.
RecordContribution(h) ==
    /\ At(h, "contribute")
    /\ IF tx = "none" THEN tx' = "completed" /\ effects' = effects + 1 /\ GoTo(h, "mark")
                      ELSE GoTo(h, "idle") /\ UNCHANGED db
    /\ UNCHANGED <<setup, paid, acked, row, logs, refused, bounds>>

Crash ==
    /\ crashes < MaxCrashes /\ crashes' = crashes + 1
    /\ pc' = [h \in Handlers |-> "idle"]
    /\ UNCHANGED <<setup, paid, acked, db, row, logs, refused, dups, failures>>

-----------------------------------------------------------------------------
Continue(h) ==
    \/ Confirmed(h)
    \/ FindTransaction(h)
    \/ ClaimAndCredit(h)
    \/ CreditVirtualAccount(h)
    \/ RecordDonation(h)
    \/ RecordContribution(h)
    \/ MarkProcessed(h)

Webhook(d) == LookupLog(d) \/ InsertLog(d)

Verify(v) ==
    \/ VerifyUnpaid(v)
    \/ VerifyCallFails(v)
    \/ VerifyMarksFailed(v)
    \/ FundingVerifyThrows(v)

Next ==
    \/ Pay
    \/ \E d \in Deliveries : Deliver(d) \/ Webhook(d)
    \/ \E v \in Verifies : VerifyReads(v) \/ Verify(v)
    \/ \E h \in Handlers : Continue(h) \/ Fails(h)
    \/ Crash

Spec == Init /\ [][Next]_vars

\* Paystack delivers until it is answered, and what was started is run.
Fairness ==
    /\ SF_vars(~acked /\ \E d \in Deliveries : Deliver(d))
    /\ \A d \in Deliveries : WF_vars(Webhook(d))
    /\ \A v \in Verifies : WF_vars(Verify(v))
    /\ \A h \in Handlers : WF_vars(Continue(h))

FairSpec == Spec /\ Fairness

-----------------------------------------------------------------------------
(* Properties *)

Promise == INSTANCE ChargeOnce WITH paid <- paid, effects <- effects

\* The charge keeps the promise of ChargeOnce, safety and liveness: its effect
\* is recorded, once, and only after it was paid for.
KeepsPromise == Promise!Spec

\* "Payment was not completed. No funds have been deducted." (verifyFunding,
\* on a failed row): money that was taken is recorded in the end.
PaidIsRecorded == paid ~> effects > 0

\* The claim of the pending row, or a unique reference, guards the effect, and
\* nothing is taken for a bank transfer to a virtual account.
RowGuards == kind = "contribution" \/ (kind = "card" /\ ~hasDva)

\* However webhook, redelivery, verify, failure and restart meet, an effect that
\* its row guards is recorded once.
RecordedOnce == RowGuards => effects <= 1

\* "Webhook ignored: Payment ... already processed" (the handlers of
\* charge.success): a donation or a bank transfer is not recorded twice either.
NeverRecordedTwice == effects <= 1

\* A row that says COMPLETED has its effect, in every order and after every
\* crash: the fallbacks that return on COMPLETED lose nothing.
CompletedIsRecorded == tx = "completed" => effects > 0

\* "If the webhook already processed this reference -> transaction is COMPLETED"
\* (verifyAndCreditFunding): the row of a credited charge stays completed.
CompletedStays == [][tx = "completed" => tx' = "completed"]_vars

\* "If the webhook hasn't fired yet -> verify with Paystack directly and credit
\* the wallet ourselves" (verifyAndCreditFunding).
VerifyCredits == refused => effects > 0
=============================================================================
