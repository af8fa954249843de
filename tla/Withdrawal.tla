----------------------------- MODULE Withdrawal -----------------------------
(***************************************************************************)
(* One bank withdrawal: requestWithdrawal debits the wallet and leaves     *)
(* processWithdrawalTransfer running behind the answer, Paystack decides,  *)
(* and its transfer webhooks settle the withdrawal or give the money back  *)
(* (wallet.service.ts, payment-webhook.service.ts).                        *)
(*                                                                         *)
(* Every await of the code is a step boundary: the worker and the webhook  *)
(* deliveries interleave, and a delivery decides on what it read earlier.  *)
(* Only the refund is one database transaction.  A crash of the server     *)
(* forgets the worker and every delivery in progress; Paystack redelivers  *)
(* an event until it is answered, may deliver it once too often, and gives *)
(* no order between events.                                                *)
(***************************************************************************)
EXTENDS Naturals, FiniteSets

CONSTANTS
    Deliveries,     \* webhook requests the server handles at the same time
    UniqueLogs,     \* whether webhook_logs.gateway_reference is unique: it is in
                    \* AddWalletSystem, it is not in webhook-log.entity.ts
    CallsFail,      \* the call of the Transfer API may fail
    Freezes,        \* the wallet may be frozen
    MaxDups,        \* bound: superfluous deliveries
    MaxErrors,      \* bound: errors a handler answers "Acknowledged with error"
    MaxCrashes      \* bound: crashes of the server

ASSUME DeliveriesAssumption == IsFiniteSet(Deliveries)
ASSUME BooleansAssumption ==
    UniqueLogs \subseteq BOOLEAN /\ {CallsFail, Freezes} \subseteq BOOLEAN
ASSUME BoundsAssumption == {MaxDups, MaxErrors, MaxCrashes} \subseteq Nat

VARIABLES
    wd,         \* withdrawal_requests.status
    tx,         \* status of the withdrawal's row in transactions
    code,       \* payment_transfer_code is saved
    refunds,    \* reversal transactions credited to the wallet
    frozen,     \* the wallet is frozen
    worker,     \* where processWithdrawalTransfer is
    gateway,    \* Paystack's transfer
    sent,       \* events Paystack has emitted for it
    acked,      \* events it was answered 200 for
    pc,         \* where each delivery's handler is
    evt,        \* the event it carries
    row,        \* the webhook log row it works on
    logs,       \* webhook log rows, by the delivery that inserted them
    uniqueLog,  \* the schema in use
    dups,       \* superfluous deliveries made (bound)
    errors,     \* handlers that threw (bound, and history)
    crashes     \* crashes (bound)

db == <<wd, tx, code, refunds, frozen>>
paystack == <<gateway, sent, acked, dups>>
handler == <<pc, evt, row, logs, uniqueLog>>
faults == <<errors, crashes>>
vars == <<db, worker, paystack, handler, faults>>

Events == {"success", "failed", "reversed"}
Final == {"completed", "failed"}

TypeOK ==
    /\ wd \in {"none", "approved", "processing"} \cup Final
    /\ tx \in {"none", "pending", "processing"} \cup Final
    /\ code \in BOOLEAN /\ frozen \in BOOLEAN
    /\ refunds \in Nat /\ dups \in 0..MaxDups
    /\ errors \in 0..MaxErrors /\ crashes \in 0..MaxCrashes
    /\ worker \in {"idle", "markWd", "markTx", "call", "saveCode", "error", "done", "lost"}
    /\ gateway \in {"none", "pending"} \cup Events
    /\ sent \subseteq Events /\ acked \subseteq Events
    /\ pc \in [Deliveries -> {"idle", "lookup", "insert", "find", "completeWd",
                              "completeTx", "refund", "mark"}]
    /\ evt \in [Deliveries -> Events]
    /\ row \in [Deliveries -> Deliveries]
    /\ logs \in [Deliveries -> {"none", "open", "done"}]
    /\ uniqueLog \in UniqueLogs

Init ==
    /\ wd = "none" /\ tx = "none" /\ code = FALSE /\ refunds = 0 /\ frozen = FALSE
    /\ worker = "idle"
    /\ gateway = "none" /\ sent = {} /\ acked = {} /\ dups = 0
    /\ pc = [d \in Deliveries |-> "idle"]
    /\ evt = [d \in Deliveries |-> "success"]
    /\ row = [d \in Deliveries |-> d]
    /\ logs = [d \in Deliveries |-> "none"]
    /\ uniqueLog \in UniqueLogs
    /\ errors = 0 /\ crashes = 0

-----------------------------------------------------------------------------
(* The request and its background worker *)

\* The committed transaction: balance debited, request approved, worker started.
requestWithdrawal ==
    /\ wd = "none" /\ ~frozen
    /\ wd' = "approved" /\ tx' = "pending"
    /\ worker' = "markWd"
    /\ UNCHANGED <<code, refunds, frozen, paystack, handler, faults>>

WorkerMarksWithdrawal ==
    /\ worker = "markWd"
    /\ wd' = "processing" /\ worker' = "markTx"
    /\ UNCHANGED <<tx, code, refunds, frozen, paystack, handler, faults>>

WorkerMarksTransaction_WithdrawalStatus ==
    /\ worker = "markTx"
    /\ tx' = "approved" /\ worker' = "call"
    /\ UNCHANGED <<wd, code, refunds, frozen, paystack, handler, faults>>

WorkerMarksTransaction ==
    /\ worker = "markTx"
    /\ tx' = "processing" /\ worker' = "call"
    /\ UNCHANGED <<wd, code, refunds, frozen, paystack, handler, faults>>

\* Paystack accepts the transfer and the answer arrives.
WorkerInitiatesTransfer ==
    /\ worker = "call"
    /\ gateway' = "pending" /\ worker' = "saveCode"
    /\ UNCHANGED <<db, sent, acked, dups, handler, faults>>

WorkerCallFails_Refunds ==
    /\ CallsFail
    /\ worker = "call"
    /\ gateway' \in {"none", "pending"} /\ worker' = "error"
    /\ wd' = "failed" /\ tx' = "failed" /\ refunds' = refunds + 1
    /\ UNCHANGED <<code, frozen, sent, acked, dups, handler, faults>>

\* The call throws: Paystack rejected it, or took it and the answer was lost.
\* Everything stays as it is.
WorkerCallFails ==
    /\ CallsFail
    /\ worker = "call"
    /\ gateway' \in {"none", "pending"} /\ worker' = "error"
    /\ UNCHANGED <<db, sent, acked, dups, handler, faults>>

WorkerSavesCode_MarksAgain ==
    /\ worker = "saveCode"
    /\ code' = TRUE /\ worker' = "markTx"
    /\ UNCHANGED <<wd, tx, refunds, frozen, paystack, handler, faults>>

WorkerSavesCode ==
    /\ worker = "saveCode"
    /\ code' = TRUE /\ worker' = "done"
    /\ UNCHANGED <<wd, tx, refunds, frozen, paystack, handler, faults>>

\* One of the worker's own updates throws: caught and logged, all of them alike.
WorkerUpdateFails ==
    /\ CallsFail
    /\ worker \in {"markWd", "markTx", "saveCode"}
    /\ worker' = "error"
    /\ UNCHANGED <<db, paystack, handler, faults>>

freezeWallet ==
    /\ Freezes
    /\ frozen' = ~frozen
    /\ UNCHANGED <<wd, tx, code, refunds, worker, paystack, handler, faults>>

-----------------------------------------------------------------------------
(* Paystack *)

GatewayEmits(from, e) ==
    /\ gateway = from
    /\ gateway' = e /\ sent' = sent \cup {e}
    /\ UNCHANGED <<db, worker, acked, dups, handler, faults>>

GatewayDecides == GatewayEmits("pending", "success") \/ GatewayEmits("pending", "failed")

GatewayReverses == GatewayEmits("success", "reversed")

InFlight(e) == \E d \in Deliveries : pc[d] # "idle" /\ evt[d] = e

Deliver(d, e) ==
    /\ pc[d] = "idle" /\ e \in sent
    /\ IF e \in acked \/ InFlight(e) THEN dups < MaxDups /\ dups' = dups + 1
                                     ELSE UNCHANGED dups
    /\ pc' = [pc EXCEPT ![d] = "lookup"]
    /\ evt' = [evt EXCEPT ![d] = e]
    /\ UNCHANGED <<db, worker, gateway, sent, acked, row, logs, uniqueLog, faults>>

-----------------------------------------------------------------------------
(* dispatch() and the transfer handlers *)

\* Every outcome of a transfer event is answered 200, also "with error".
Answer(d) ==
    /\ pc' = [pc EXCEPT ![d] = "idle"]
    /\ acked' = acked \cup {evt[d]}

\* upsertWebhookLog, the findOne: all events of a transfer share one reference,
\* its transfer_code.
LookupLog(d) ==
    /\ pc[d] = "lookup"
    /\ IF \A x \in Deliveries : logs[x] = "none"
       THEN /\ pc' = [pc EXCEPT ![d] = "insert"]
            /\ UNCHANGED <<acked, row>>
       ELSE \E x \in Deliveries :
               \/ logs[x] = "done" /\ Answer(d) /\ UNCHANGED row
               \/ /\ logs[x] = "open"
                  /\ row' = [row EXCEPT ![d] = x]
                  /\ pc' = [pc EXCEPT ![d] = "find"]
                  /\ UNCHANGED acked
    /\ UNCHANGED <<db, worker, gateway, sent, dups, evt, logs, uniqueLog, faults>>

InsertLog_Processed(d) ==
    /\ pc[d] = "insert"
    /\ IF uniqueLog /\ \E x \in Deliveries : logs[x] # "none"
       THEN Answer(d) /\ UNCHANGED <<row, logs>>
       ELSE /\ logs' = [logs EXCEPT ![d] = "done"]
            /\ row' = [row EXCEPT ![d] = d]
            /\ pc' = [pc EXCEPT ![d] = "find"]
            /\ UNCHANGED acked
    /\ UNCHANGED <<db, worker, gateway, sent, dups, evt, uniqueLog, faults>>

\* upsertWebhookLog, the save: it throws when the index is unique and taken.
InsertLog(d) ==
    /\ pc[d] = "insert"
    /\ IF uniqueLog /\ \E x \in Deliveries : logs[x] # "none"
       THEN Answer(d) /\ UNCHANGED <<row, logs>>
       ELSE /\ logs' = [logs EXCEPT ![d] = "open"]
            /\ row' = [row EXCEPT ![d] = d]
            /\ pc' = [pc EXCEPT ![d] = "find"]
            /\ UNCHANGED acked
    /\ UNCHANGED <<db, worker, gateway, sent, dups, evt, uniqueLog, faults>>

FindWithdrawal_TrustsLog(d) ==
    /\ pc[d] = "find"
    /\ pc' = [pc EXCEPT ![d] =
                IF ~code THEN "mark"
                ELSE IF evt[d] = "success" THEN "completeWd" ELSE "refund"]
    /\ UNCHANGED <<db, worker, paystack, evt, row, logs, uniqueLog, faults>>

\* The handlers' findOne by transfer code and their early returns.
FindWithdrawal(d) ==
    /\ pc[d] = "find"
    /\ pc' = [pc EXCEPT ![d] =
                IF ~code THEN "mark"
                ELSE IF evt[d] = "success"
                     THEN IF wd = "completed" THEN "mark" ELSE "completeWd"
                     ELSE IF wd = "failed" THEN "mark" ELSE "refund"]
    /\ UNCHANGED <<db, worker, paystack, evt, row, logs, uniqueLog, faults>>

\* handleTransferSuccess: two updates, not in a transaction.
CompleteWithdrawal(d) ==
    /\ pc[d] = "completeWd"
    /\ wd' = "completed"
    /\ pc' = [pc EXCEPT ![d] = "completeTx"]
    /\ UNCHANGED <<tx, code, refunds, frozen, worker, paystack, evt, row, logs, uniqueLog, faults>>

CompleteTransaction(d) ==
    /\ pc[d] = "completeTx"
    /\ tx' = "completed"
    /\ pc' = [pc EXCEPT ![d] = "mark"]
    /\ UNCHANGED <<wd, code, refunds, frozen, worker, paystack, evt, row, logs, uniqueLog, faults>>

Refund_MarksWhenFrozen(d) ==
    /\ pc[d] = "refund"
    /\ refunds' = IF frozen THEN refunds ELSE refunds + 1
    /\ wd' = "failed" /\ tx' = "failed"
    /\ pc' = [pc EXCEPT ![d] = "mark"]
    /\ UNCHANGED <<code, frozen, worker, paystack, evt, row, logs, uniqueLog, faults>>

\* handleTransferFailed, also for a reversal: one transaction, rolled back when
\* creditWallet finds the wallet frozen.
Refund(d) ==
    /\ pc[d] = "refund"
    /\ IF frozen
       THEN Answer(d) /\ UNCHANGED <<wd, tx, refunds>>
       ELSE /\ refunds' = refunds + 1
            /\ wd' = "failed" /\ tx' = "failed"
            /\ pc' = [pc EXCEPT ![d] = "mark"]
            /\ UNCHANGED acked
    /\ UNCHANGED <<code, frozen, worker, gateway, sent, dups, evt, row, logs, uniqueLog, faults>>

\* isProcessed, then the answer.
MarkProcessed(d) ==
    /\ pc[d] = "mark"
    /\ logs' = [logs EXCEPT ![row[d]] = "done"]
    /\ Answer(d)
    /\ UNCHANGED <<db, worker, gateway, sent, dups, evt, row, uniqueLog, faults>>

\* A read or an update of the handler throws, its transaction if it is in one
\* rolls back: dispatch rethrows, the log row stays open, the answer is 200.
HandlerFails(d) ==
    /\ pc[d] # "idle" /\ errors < MaxErrors
    /\ errors' = errors + 1
    /\ Answer(d)
    /\ UNCHANGED <<db, worker, gateway, sent, dups, evt, row, logs, uniqueLog, crashes>>

Crash ==
    /\ crashes < MaxCrashes
    /\ crashes' = crashes + 1
    /\ pc' = [d \in Deliveries |-> "idle"]
    /\ worker' = IF worker \in {"idle", "error", "done"} THEN worker ELSE "lost"
    /\ UNCHANGED <<db, paystack, evt, row, logs, uniqueLog, errors>>

-----------------------------------------------------------------------------
Worker ==
    \/ WorkerMarksWithdrawal
    \/ WorkerMarksTransaction
    \/ WorkerInitiatesTransfer
    \/ WorkerCallFails
    \/ WorkerSavesCode

Handle(d) ==
    \/ LookupLog(d)
    \/ InsertLog(d)
    \/ FindWithdrawal(d)
    \/ CompleteWithdrawal(d)
    \/ CompleteTransaction(d)
    \/ Refund(d)
    \/ MarkProcessed(d)

Next ==
    \/ requestWithdrawal
    \/ Worker
    \/ WorkerUpdateFails
    \/ freezeWallet
    \/ GatewayDecides
    \/ GatewayReverses
    \/ \E d \in Deliveries, e \in Events : Deliver(d, e)
    \/ \E d \in Deliveries : Handle(d) \/ HandlerFails(d)
    \/ Crash

Spec == Init /\ [][Next]_vars

\* The event loop runs every continuation, Paystack decides on every transfer
\* and delivers every event it has not been answered for.  Nothing has to fail.
Fairness ==
    /\ WF_vars(Worker)
    /\ WF_vars(GatewayDecides)
    /\ \A d \in Deliveries : WF_vars(Handle(d))
    /\ \A e \in Events : SF_vars(e \notin acked /\ \E d \in Deliveries : Deliver(d, e))

FairSpec == Spec /\ Fairness

-----------------------------------------------------------------------------
(* Properties *)

\* Money that reached the bank account is not also given back, whatever the
\* worker's call looked like from this side and whatever is redelivered.
PaidIsNotRefunded == gateway = "success" => refunds = 0

\* A withdrawal that reads FAILED has given its money back: status and credit
\* commit together, a crash or a frozen wallet leaves neither.
FailedIsRefunded == wd = "failed" => refunds > 0 /\ tx # "pending"

\* Once the webhook has settled the withdrawal the worker, however late, does
\* not set it or its transaction back to PROCESSING.
FinalNeverReopens ==
    [][/\ wd \in Final => wd' \in Final
       /\ tx \in Final => tx' \in Final]_vars

\* A failed or reversed transfer is refunded at most once ("Duplicate webhook
\* ignored", dispatch; "already marked failed", handleTransferFailed).
RefundAtMostOnce == refunds <= 1

\* However often the failure of a transfer is redelivered and wherever the
\* server crashes, it is refunded at most once per webhook handled at the same
\* time, so once where they come one by one: the status guard holds although
\* the log was not marked.
RefundsBoundedByOverlap ==
    gateway # "reversed" => refunds <= Cardinality(Deliveries)

\* Every transfer whose code was saved before Paystack decided ends up settled,
\* unless the wallet is frozen meanwhile, a handler throws (it is answered 200
\* and its event not sent again), or a crash loses the handler while a
\* superfluous delivery has already been answered.
SettlesOnceCodeIsSaved ==
    (code /\ gateway = "pending")
        ~> (wd \in Final \/ frozen \/ errors > 0 \/ (dups > 0 /\ crashes > 0))

\* "Webhook handler will update status on final result" (processWithdrawalTransfer):
\* every transfer Paystack has taken ends up settled.
AcceptedTransferSettles == (gateway = "pending") ~> (wd \in Final)

\* "Transfer reversed by Paystack ... Treating as failed" (handleTransferReversed).
ReversalIsTreatedAsFailed == (gateway = "reversed") ~> (wd = "failed")

\* "If this fails, the withdrawal remains in APPROVED state for retry"
\* (requestWithdrawal, on the call of the Transfer API).
FailedCallStaysApproved == worker = "error" => wd = "approved"
=============================================================================
