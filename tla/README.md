# Verification of the crowdfunding and wallet backend

TLA+ models of this NestJS backend (`src/src/`), checked with TLC on small instances, with
theorems about their safety properties checked by TLAPS for every instance. `PROJECT.json`
is the index: components, runs, mutants, the map from definitions to lines of code,
findings, hazards and theorems.

Run a model with `tlc -config X.cfg M`, check proofs with `tlapm M.tla`.

## 1. The system

A Node process (NestJS, TypeORM over MySQL with InnoDB, Paystack for money, Didit for
identity, webhooks for their answers, `@Cron` jobs for time). One event loop: a handler runs
alone between two `await`s and everything else may run at an `await`. The state that
survives is the database. What makes it hard:

* every `await` is a place where another request, webhook or job changes the rows a
  handler has read;
* `repository.save(entity)` writes the *whole* copy that was read earlier over the row (or
  inserts it again when it is gone), whereas `UPDATE ... WHERE` decides at the time of the
  write;
* a database transaction commits as one step, but what was read before it opened, and
  what is done after it commits, are not part of it; row locks are taken one after another,
  and two transactions may wait for each other until InnoDB rolls one back;
* Paystack delivers a webhook until it is answered 200, sometimes once too often,
  several at a time, and in no order;
* a restart forgets every handler, timer and "fire and forget" promise in progress.

### Inventory

| Component | State | Operations | Interacts with | Hard behaviour | What makes it correct |
|---|---|---|---|---|---|
| Wallet (`wallet.service.ts`) | `wallets` (available, ledger, escrow, lifetime in and out, status) | creditWallet, debitWallet, lockIntoEscrow, releaseEscrowToWallet, refundEscrowToWallet, freeze, unfreeze | everything that moves money | checks made before the transaction, silent no-op of a lock | no overdraft; the columns agree; frozen wallets do not spend |
| Ledger (`transaction.service.ts`, `ledger-entry.entity.ts`) | `ledger_entries`, `transactions` | donate, pay bill, pay invoice, transfer, settle, refund | wallet | entries without movement, fee booked twice | entries net to zero; statement and wallet agree |
| Withdrawals (`wallet.service.ts`) | `withdrawal_requests`, its transaction | requestWithdrawal, background transfer | Paystack transfers, transfer webhooks | worker against webhook, lost answers, crash | paid or refunded, never both; settled once |
| Webhook dispatch (`payment-webhook.service.ts`) | `webhook_logs` | dispatch, upsertWebhookLog, one handler per event | all payment flows | two deliveries of one event, restart between effect and log | every event applied once |
| Charges: top-up, virtual account, donation, contribution | `transactions`, `donations`, `event_contributions` | initialise, webhook, verify endpoint | Paystack, wallet, campaign, event | webhook against verify, verify before payment | paid is recorded exactly once |
| Campaign proposals (`campaign-proposal.service.ts`) | proposal, assignments, responses | create, vote, advance, sweep, cancel, markExecuted | donations (the pool), activity feed, cron | stale whole-row saves, sweep against late vote, crash before advance | decisions rest on votes; each donor once; always settled |
| Split bills: money (`split-bill.service.ts`) | bill, participants, payments, links | pay from wallet, by card, as a guest, link, webhook, cancel, finalise | wallet, webhooks | lock order and deadlock, cancel against payment, links saved from stale rows | collected = paid; nobody overpays; refunds cover what was paid |
| Split bills: people and shares | participants, shares, split method | create, update, add, remove, compute, redistribute | payments | position pairing, rounding, removed rows | shares sum to the bill; payers are not dropped |
| Split-bill invitations | participant status, decline count | accept and decline in the app or by code, re-invite | split bill | decline after accept, count lost | answerable; two refusals end it |
| Split-bill governance | proposals, votes | propose, castVote, executeProposal | split bill | tally on a stale row | a decision rests on votes and stays |
| Split-bill organisers, comments, clock | organisers, comments, likes, reminder stamps, deletedAt | invite and answer; thread; sweeps | notifications, follows | stale saves, audiences, retries of a sweep | consent; a private thread keeps its audience; reminders spaced and bounded |
| Pending payouts (`pending-payout.service.ts`) | `pending_payouts` | park, notify, claim at verification, daily return | wallet, KYC | claim against return | paid out or returned, not both |
| Transaction PIN | PIN hash, attempts, lock | set, change, verify | withdrawal, payments | parallel attempts | the lock holds |
| Authentication (`auth`, `otp-auth`, 2FA) | OTPs, tokens, flags, the user row | register, verify, reset, log in, enable and disable 2FA | mail, SMS | resend against verify, whole-row saves | a code counts once, the newest one |
| KYC (`kyc.service.ts`) | levels, provider status | start, documents, webhooks | pending payouts | webhooks out of order | an approval is not silently lost |
| Points | rules, ledger | seed, award, edit | donations, bills | seeding twice, duplicate awards, crash after settlement | one award per person and payment |
| Champion page (`champion-page.controller.ts`) | pending rows, users created for visitors, the script in the browser | pay, confirm | Paystack, users | two visitors with one address | booked to the right visitor |
| Friends, follows, blocks, chat | requests, follows, blocks, messages | request, answer, follow, block, send, read | notifications | requests crossing, an answer crossing a block | friends agreed; blocked are strangers |
| Notices, settings, inbox | preferences, notification rows | route, notify by channel, change, page, read, delete | all others are sources | overlapping edits, pages cut by position | what matters is kept; silent is silent |
| Campaign page (`campaign.service.ts`) | campaign row, tags, link, amount | create, edit, tag, donate, milestone | donations, feed, links | whole-row saves over an amount | amount = donations; milestones true |
| Campaign organisers, vendors, expenditures | their rows | invite, answer, edit, remove, follow | campaign | answers and edits saved late | consent; removed is gone |
| Campaign supporters, interactions | likes, saves, comments, donations | like, save, comment, give | campaign page | look then insert | counters match rows; anonymous is unnamed |
| Feed (`campaign-feed.service.ts`) | interest profile | rebuild, rank, page | interactions, donations | overlapping rebuilds, cursor by score | nothing shown twice or left out |
| Share links and champions | links, champions, active project | claim, generate, switch | campaign, donations | look then insert, cache of the active project | a link leads home |
| Events, RSVPs, contributions | event, organisers, seats, contributions | draft, publish, RSVP, contribute | wallet, Paystack | double RSVP, edits | one seat per guest; raised = contributions |
| Users, split-bill and campaign updates, uploads, sockets, admin | their own rows | CRUD, output | all | none that decides | out of scope, see section 8 |

## 2. Plan

Done: the modules of section 4, in the order of what they protect: wallet and ledger,
withdrawals, charges, campaign proposals, the money of split bills; then what the users of a
bill, a campaign, an event and an account do to its rows.

Composition. `Charge` and `SplitBill` use the credit and the lock of the wallet as one
committed step each; `SplitBill` shows that each of its charges implements `ChargeOnce`, as
`Charge` does for the other kinds. `CampaignProposal`, one handler at a time, implements
`Approval`. `MCBillPeople`, `MCUser` and `MCCommunity` put the components of one bill, one
user, one public page side by side: they write no common column, so a behaviour is one of any
of them and the others stand still (`part` says which). `Account` and `Kyc` are columns of one
`users` row: the KYC flag is in `Kyc` alone, with the handlers that save the whole row over
it. Effects between such components are inputs: `BillShares` receives payments, `Feed`
donations, `Payout` refunds.

Left, in this order:

1. Composition of `SplitBill` with `BillInvite` (a participant who declines while a payment
   for them is under way) and of `Payout` with the cancellation that parks it.
2. An overlap-free variant of `BillGovernance`, to show that it implements `Approval` too.
3. What section 8 leaves out: sessions and tokens; the dedicated-account events.

Every module is written for proof: constants with named assumptions, one action per
operation, no RECURSIVE operator. Section 7 says what the proof attempts changed in the models.

Sections 3 to 7 document what exists.

## 3. How the code is modelled

* **Steps.** A step runs from one `await` of a call that leaves the process (a query, a
  transaction, Paystack) to the next. A transaction that only writes through guarded
  `UPDATE`s, or whose reads are under row locks, is one step; reads before it are an
  earlier step whose result is kept in the handler's local state.
* **Copies.** Where the code saves an entity it read earlier (`CampaignProposal`), the
  handler's local record holds the copy and the save writes all of it.
* **Roll back.** A transaction that throws is a step that leaves the tables alone and ends
  the handler with its error answer.
* **Restart.** `Crash` drops every handler and keeps the tables.
* **Public service operations.** settleCampaign, settleSplitBill, refundCampaignBackers,
  payTransferredBill and freezeWallet have no caller in this repository; they are exported
  service methods and are modelled as callable, with the arguments their documentation
  describes.
* **Overlap as history.** Many of the guarantees below hold "unless two requests overlap".
  A history variable says exactly which overlap is meant (`crossed`, `stale`, `raced`,
  `overlapped`, ...); it is set where the overlap happens and decides no step, so
  each property says both what the code guarantees and where the guarantee ends.
* **Left out.** Formatting, templates, sockets; ids and references other than their
  uniqueness; amounts other than the few a property tells apart.

Constants are model values or small numbers; every bound is a constant named `Max...` and
appears as a guard of the action it bounds. A definition `Op_Change` is a mutant of `Op`:
a plausible bug, not reachable from `Next`, used to show that a property can fail.

## 4. The modules

### WalletLedger

`wallet` is the table `wallets`; `statement` the net of the ledger entries carrying a wallet
id and `account` that of the others; `raised` is `current_amount`; `req` the requests that
have checked a balance and not yet opened their transaction. `CanSpend` is the WHERE clause
of the guarded UPDATEs; creditWallet, debitWallet, lockIntoEscrow, releaseEscrowToWallet and
refundEscrowToWallet are the helpers of the same name, with what they do to wallet and to
entries. The actions are the operations of TransactionService, the wallet donation, the
debit of a withdrawal, gateway credits and freeze/unfreeze. The lock that "succeeds" without
money (its exception is commented out) is in the model as it is in the code.

* Run `wallet_ledger`: `NoOverdraft`, `BalanceIdentity`, `StatementNeverExceeds`,
  `FrozenNeverSpends`, `OnlyInvoiceFeesUnbalance` hold, whatever checks went stale.

### Withdrawal

The row `wd`, its transaction `tx`, whether the transfer code is saved (`code`), the refunds
credited, the background worker and where it is, Paystack's transfer and the events it has
`sent` and been answered (`acked`) for, and one handler per concurrent delivery (`pc`, `evt`,
`row`). All events of a transfer share one log row. The handlers of success and failure are
FindWithdrawal, then CompleteWithdrawal and CompleteTransaction (two updates) or Refund (one
transaction, rolled back on a frozen wallet). A handler may throw at any of them
(HandlerFails): dispatch rethrows, the controller answers "Acknowledged with error" with
200 for a transfer's events, and Paystack does not send the event again. The worker's update
of the row may fail as well (WorkerUpdateFails).

* The run `withdrawal` explores both schemas of `webhook_logs` (the migration declares its
  reference unique, the entity does not), two concurrent deliveries, failing calls, freezes, a
  handler that throws, two superfluous deliveries and a crash. `PaidIsNotRefunded`,
  `FailedIsRefunded`, `FinalNeverReopens` and `RefundsBoundedByOverlap` hold, and
  `SettlesOnceCodeIsSaved` (liveness) with the three escapes it states: a frozen wallet, a
  handler that threw, a crash after a superfluous delivery was answered. Each is necessary.
* Refuted: `RefundAtMostOnce` (run `withdrawal_duplicate`).

### Charge and ChargeOnce

One charge of one of four kinds. `paid` is Paystack's side, `tx` the transaction row with
the charge's reference, `effects` counts what was recorded for it. Webhook deliveries go
through LookupLog and InsertLog, then `confirm` (the server asks Paystack), `find` (the
unlocked read of the row) and the transaction of their kind; verifies of clients enter at
`confirm`. The credit of a card top-up claims the pending row with a guarded UPDATE; an
event contribution inserts under a unique reference; a donation and a bank transfer to a
virtual account have neither guard. `RowGuards` names the charges that have one.

`ChargeOnce` is the promise: paid, then recorded exactly once, eventually. `KeepsPromise`
is that specification under `INSTANCE ChargeOnce WITH paid <- paid, effects <- effects`.

* `charge_races`: all kinds, both schemas, two deliveries, a verify, failures, a crash:
  `RecordedOnce` (charges guarded by their row are recorded at most once) and
  `CompletedIsRecorded` (no row is COMPLETED without effect) hold.
* `charge_promise`: delivered one at a time, through failures, superfluous deliveries and
  two crashes, a card top-up without virtual account, a donation and a contribution
  implement `ChargeOnce`, liveness included.

### CampaignProposal

One proposal: its `row`, its assignments in the order they were made, the recorded responses,
the outcomes posted to the activity `feed`, and for each handler (requests and cron sweeps)
the local record with the copy of the row it has read. Votes, the sweep, advance(), cancel()
and markExecuted() are steps at each await; the two-minute timeout of an assignment is the
action Expire. A handler may throw at an await (HandlerFails, at the awaits in `MayFail`):
vote and sweep only log an advance() that throws. `Exclusive` makes a handler run to its end
before the next starts: it separates what the design promises from what interleaving breaks.

`Approval` is that promise: the picked donors are asked in turn, each answers at most once
and only in its turn, two alike decide at once, and after the last one without two alike it is
rejected; what is decided stays. `IsAnApproval` is its specification under `turn <- Len(asg) -
1`, `verdict <- row.status` and, for the answers, the donors behind the committed responses.
A vote and its decision are one transaction, so one step of `Approval`; that the next pick is
asked in a later one leaves room for a restart in between, which `Approval` allows.

* `campaign_proposal`: two requests and a sweep, all interleavings:
  `DecisionsRestOnVotes`, `FeedIsTrue`, `NoQuorumMeansExhausted` hold although rows are
  overwritten.
* `campaign_proposal_serial`: without overlap `ApprovedByTwoDonors`, `OneAssignmentPerPick`
  and `IsAnApproval` hold, across a restart and a failure of any await as well, and under
  fairness `PendingSettles`, which excepts a restart and an error between the answer (or the
  time-out) of one pick and the next: such a proposal is pending without an assignee, and
  the sweep looks for assignments. Other failures are made up for by the next sweep.

### SplitBill: the money of a bill

`bill`, `part` (amountPaid, amountRemaining, status of each participant), `links`, the
payers' wallets and escrow, the Paystack charges, what was `booked` for each and what was
answered. `req` is what each request or delivery does, `locks` the rows it holds: a request
first takes its InnoDB row locks in the order of its code (`LockOrder`, `Acquire`), may be
chosen as the victim of a deadlock (`Victim`), and then writes and commits in one step.
finalizeBill and the link of a guest read without a lock: a read, and a later write.
Charges are opened before they are paid, paid at Paystack, delivered until answered.
`tally` is the history of where money went that the rows do not show.

* `bill_money`: `CollectedAddsUp` joins `CollectedIsAttributed` (totalCollected is what the
  participants paid, except named losses), `CollectedIsFunded` (all of it was locked or
  charged, except a wallet payment whose money went between check and lock),
  `UsersNeverOverpay`, `RefundCoversPaid`. `ReopenedOnlyByCardOrFinalize`: only a webhook
  and the unlocked finalizeBill bring a cancelled bill back. `EveryChargeIsBookedOnce`: under
  deadlock victims, a failure and redeliveries each charge implements `ChargeOnce`
  (`paid <- charge[Watched].state = "paid", effects <- booked[Watched]`), with liveness.

### The people of a bill (`MCBillPeople`, run `bill_people`)

* `BillShares`: rows in the order the database sorts them, shares, payments; createBill,
  updateBill, addParticipant, removeParticipant with computeAndSaveShares and the
  redistributions, in kobo. Each holds all its rows, so each is one step. A manual
  redistribution is a list, and nothing keeps it from leaving a participant out or naming
  one twice: its total is checked over the list, and the last entry is kept (`skewed`).
  `SharesSumToTotal` (while somebody is on the bill: an update with amounts that names only
  people removed before removes everybody else, and the next one computes for nobody; and
  unless the bill is `skewed`),
  `EvenSharesAreFair`, `RemainingFollows`, `PayersStay`.
* `BillInvite`: one participant row answered in the app, by code, re-invited, paid for; a
  read and a write each. `InvitationIsAnswerable`, `DeclinesAreCounted`, `PayersSeeTheBill`,
  `AccountStays`, `TwoStrikes`. The counter of declines is that of declines by code: one in
  the app does not add to it, though the entity's comment
  (`split-bill-participant.entity.ts`) reads as if it did.
* `BillGovernance`: a proposal saved from the row read before its votes were counted; members
  come and go, a request dies after its vote. Counting the votes (CountVotes) and counting
  the participants before deciding (DecideVotes) are two awaits: a member who leaves in
  between (`shrunk`) makes the code reject on a vote that no longer stands.
  `DecisionIsBacked` (a rejection excepts `shrunk`), `TallyIsTrue`, `DecisionStays`.
* `BillOrganizers`: `OrganizersConsented`, `OneRowPerInvitee`, `AnswerStands`.
* `BillComments`: threads, private audiences, who is told, likes. `ThreadKeepsAudience`,
  `ToldCanRead`, `PrivateAmongMutuals`, `LikedIsListed`.
* `BillClock`: the due sweep and its retries, reminders by hand, the removal of cancelled
  bills; time in hours. `NudgesAreSpaced`, `WarnedBeforeDue`, `ReminderCountIsTrue`,
  `FiveNudgesAtMost`, `HiddenAfterGrace`.

The run's properties are `TermsFollowTheBill` (shares and clock), `EverybodyWasAsked`
(invitations, votes, organisers, comments) and the action property `AnswersStand`.

### One user (`MCUser`, run `user`)

* `Account`: the columns of the codes, shared by verification and reset, the flags of
  registration, two-factor login, requests that save whole rows. `CodeIsSpent`,
  `TwoFactorCanBeAnswered`, `VerifiedByNewestCode`, `FlagsStay` (verified, basic
  information).
* `TransactionPin`: `FailuresAreCounted`, `LockHolds`.
* `Kyc`: the levels and the KYC flag of the user row, which a new submission clears, and which
  every handler that loads the user and saves it writes back as it was (LoadUser, SaveUser).
  `Level1BeforeLevel2`, `FlagFollowsLevel2` (unless handlers overlap, `mixed`, or completeKyc
  is called), `ApprovalStands`, in any order of webhooks.
* `Payout`: parked, announced, claimed, returned; the transaction row without a reference
  under both modes of MySQL (`strict`). `ClosedWhenCredited`, `NeverCreditedTwice`.
* `Points`: rules seeded by whoever finds the table empty, awards after a payment, restarts;
  an error of the seeding, of an award or before the first of them is logged and the points
  are lost (`spoiled`). `AwardedOnce`, `ChampionsOthersDonations`, `EarnedWhenUndisturbed`,
  `EditsStick`.
* `Social`: requests in both directions, follows, blocks, messages. `BlockedAreStrangers`,
  `FriendsAgreed`, `OneRowPerPair`, `NoMessageThroughBlock`.
* `Notices`: the route of each event (`Routes`, one per listener), the channels of a notice
  one after the other, the preferences. `ChangesAreKept`, `AlwaysInTheInbox`,
  `SilentWhenOff`. `Inbox`: `PagedToTheEnd`.

The run's properties are `CreditedOnce` (payouts, points), `OwnSayIsKept`
(account, PIN, KYC, friends, notices, inbox) and the action property `DecidedStays`.

### Events and campaigns in public (`MCCommunity`, run `community`)

* `EventPage`: draft, publication, organisers, seats. An edit's new organisers are checked
  against the rows there are, not against each other: a list that names somebody twice adds
  two rows (`repeated`). `PublishedIsComplete`,
  `OneRowPerOrganizer`, `OneSeatPerPerson`, `SeatIsListed`, `ClosedAtStart`.
* `EventMoney`: contributions from wallets and by card, the leaderboard of the
  `LeaderboardSize` (ten) who gave most. `RaisedIsSum` (the leaderboard adds up to it when
  everybody has a place), `MoneyBehindGifts`, `PaidByGiver`.
* `ShareLink`: champions, links, the active project in memory. `LinkLeadsHome`,
  `OneLinkUnlessRaced`, `CacheFollowsTable` (unless reloads crossed, or one failed after the
  project was saved).
* `CampaignTeam`: `ListedByInvitee`, `InvitedOnce`, `FollowedOnce`, `FirstAnswerStands`.
  `CampaignBooks` (vendors, expenditures): `RemovedIsGone`, `EditsAddUp`.
* `CampaignPage`: creation with its best-effort tail, edits that save the row, tagging and
  its backfill, donations. `RaisedIsGiven`, `TagsAreThere`, `LinkStays`.
  Refuted: `MilestoneReached` (run `milestone_early`): a donation is counted twice where the
  milestones are told, so the message of 100 % is sent at half the goal.
* `CampaignSupporters`: `LikesAreVisitors`, `TopDonorMayBeNamed`, `InsightIsKept`.
* `ChampionPage`: visitors without account, their browser tab, Paystack's answer.
  `BookedToVisitor`, `AddressTurnsNobodyAway` (a number or name lost to another row does, and
  an error of the database, both answered with the same page), `ChargeHasARow`.
* `Feed`: the profile, rebuilds (which may overlap: the older reading saved last still knows
  all it must), cursor pages. A rebuild reads the newest `TakeLimit` (200) rows of a table, a
  page ranks the youngest `PoolLimit` (200) campaigns, and the others are never shown.
  `KnowsWhatIsOld` speaks of the rows so new that every rebuild reads them, `ScrolledToTheEnd` of
  the campaigns in every such pool. The score is abstracted to an order, a user's rows to
  one donation and one other per campaign.

The run's properties are `CountedOnce`, `PublicShowsTheRows` and the action property
`NothingIsTakenBack`; `MCCommunity` says which of the above each joins.

### Further counterexamples

Formulas that quote a comment, a message or an assertion of the code and that the model
refutes, beyond the two runs in the index. Each shows when it is added to the configuration
named (under PROPERTIES where it is temporal):

| Formula | Configuration | What happens |
|---|---|---|
| LedgerNetsToZero | WalletLedger | a fee-bearing invoice posts more credits than debits |
| LockMovesFunds | WalletLedger | a donation is booked into escrow though the wallet had no money left |
| EscrowNonNegative | WalletLedger | a settlement takes escrow from a wallet that holds none |
| AcceptedTransferSettles | Withdrawal | the webhook overtakes the update that saves the transfer code and finds nothing |
| ReversalIsTreatedAsFailed | Withdrawal | a reversal after a success is dropped as a duplicate |
| FailedCallStaysApproved | Withdrawal | a failed call leaves PROCESSING, not APPROVED |
| NeverRecordedTwice | Charge | webhook and verify both insert a donation |
| PaidIsRecorded | Charge | a verify before the payment writes FAILED, after which nothing records it |
| CompletedStays | Charge | a verify writes FAILED over COMPLETED |
| VerifyCredits | Charge | the funding verify never credits |
| OneAssignmentPerPick | CampaignProposal | two handlers that overlap both advance to the same pick |
| PendingAlwaysSettles | CampaignProposalSerial | a restart leaves a proposal pending for ever |
| ManualSharesAsAsked | BillPeople | rows of one INSERT are sorted by a random id; amounts go to others |
| HeadlineTellsTheDay | BillPeople | a bill due at midnight is "due today" the day before |
| ClaimConsumes | User | the transaction row of a claim has no reference and cannot be inserted |
| ThankedIsReceived | Community | the page says thanks after a confirmation that failed |
| EachSharesOwnRef | Community | the second champion shares the link that carries the first one's code |

## 5. Bounds, and why they are enough

| Run | Bounds | Why |
|---|---|---|
| wallet_ledger | 2 wallets, 2 requests, amounts 1 and 2, 3 committed operations, fee of half the amount, cap 5 | every pair of operations on payer and recipient, with a third before or after; two requests are what a stale check needs; the fee takes one unit of the larger amount and none of the smaller. The theorems cover every other size. |
| withdrawal | 2 deliveries, 1 handler that throws, 2 superfluous deliveries, 1 crash | any two events, or one event twice, in any interleaving with the worker; a redelivery after the crash; the escapes of SettlesOnceCodeIsSaved need these counters |
| charge_races | 2 deliveries, 1 verify, 2 superfluous, 2 failures, 1 crash | all pairwise races of a webhook with a webhook and with a verify |
| charge_promise | 1 delivery at a time, 2 superfluous, 2 failures, 2 crashes | what a retry must survive: a failure, a crash after a failure, a delivery after the last one was answered |
| campaign_proposal | pools of 2 and 3 donors, 2 requests, 1 sweep, 3 assignments, no crash | a pool of 2 is exhausted also after a race asked one donor twice; a vote races with a vote, a cancellation or the sweep. For safety a crash or a failing await adds little: a handler that is never run again is a behaviour already, as this run has no fairness |
| campaign_proposal_serial | pools of 1 to 3, 4 assignments, 1 request, each await fails once, 1 crash | without overlap the pool is the bound; a crash or an error between any two steps |
| bill_money | 2 users and a guest who declined, 2 handlers, 1 charge, 2 requests, amounts of less and more than one share, 1 redelivery, 1 other spend, 1 failure | any two of the five operations, or one and a webhook, with all their locks: what deadlocks, what overtakes. Two handlers are what a deadlock needs |
| bill_people | 3 people, 3 edits of the bill and a payment, lists that name somebody once or twice; 2 accounts with 2 requests and 5 answers; 2 voters beside the creator, 2 requests, 3 ballots; 2 organiser rows; 2 comments by 3 users and a guest; 132 hours in steps of 3 | two overlapping requests and a step after them, per component; two refusals and a re-invitation; a reply; five days for five reminders (due 24, 57 and 66 hours after midnight of the first day) |
| user | 2 requests at a time per component, 4 to 7 in all; 2 PIN attempts; 2 payouts and payments, the awards of one fail; 3 notices in pages of one | two requests overlap, one follows; the lock, its end and one try after it; what arrives between two pages |
| community | 2 requests at a time; 2 people, seats, visitors without account; an edit lists a person up to twice; one vendor row (rows are independent); 3 references; a leaderboard of one place; a feed of 3 campaigns, the pool takes 2, a rebuild 1 row of a table, a page 1 campaign, 3 rows of the user | as above, and a third reference so that one of two racing charges can be redelivered; somebody without a place, a campaign outside the pool and a row no rebuild reads; a tick is longer than a rebuild and a profile lasts one |
| withdrawal_duplicate, milestone_early | the smallest that show it | |

Deadlock is checked in `wallet_ledger`, where some operation is always possible. In the
others a behaviour ends when the withdrawal, charge, proposal or bill is settled and the
bounds are used up, so it is not. The deadlock of row locks is no state without successor:
InnoDB breaks it, and `Victim` is that step.

## 6. Fairness, and why the code justifies it

* Weak fairness of a handler's continuation: the event loop runs every resolved promise;
  what a crash interrupts is no continuation any more. In `SplitBill` this includes waiting
  for a lock: its holder finishes, or is rolled back as a victim.
* Strong fairness of delivering an event not yet answered: Paystack retries until it is
  answered, and a delivery may be interrupted by a crash before that. `SplitBill` needs weak
  fairness only: once a charge is paid, whether it can be delivered depends on a free handler,
  and the bounded requests leave one. Superfluous deliveries, crashes, failures, votes,
  payments and freezes have no fairness.
* Weak fairness of Paystack deciding on a transfer it accepted.
* Strong fairness of the sweep: the cron fires every 30 seconds whatever happened to the last
  run; weak fairness of Expire: time passes.
* Failures are bounded, so a call that is retried succeeds in the end. This is an
  assumption about the environment.

The runs `bill_people`, `user` and `community` check safety only and assume no fairness.

## 7. What is proved

The theorems hold for every value of the constants that satisfies the named assumptions of the
modules: any people, wallets, requests, deliveries and amounts, any bounds. The assumptions
say what the code or the schema says: sets of rows and people are finite (`WalletsAssumption`,
`DeliveriesAssumption`, `FiniteAssumption`, `PeopleAssumption`, `VotersAssumption`,
`PostsAssumption`, `InboxAssumption`, `PairAssumption`, `GiversAssumption`,
`VisitorsAssumption`, `CampaignsAssumption`), amounts are positive and percentages within
0..100 (`AmountsAssumption`, `FeeAssumption`, `FundsAssumption`, `GiftsAssumption`,
`SizesAssumption`), pools have at most three donors (`PoolAssumption`), roles are disjoint
(`HandlersAssumption`, `CreatorAssumption`, `GuestsAssumption`, `BootsAssumption`) and nobody
is called what stands for NULL (`InviteesAssumption`, `TitlesAssumption`, `TypedAssumption`,
`RefsAssumption`), "active" is a status (`StatusAssumption`), an hour step divides the day
(`HourAssumption`, `SweepAssumption`), a page, a pool and a reading hold something and a
profile lasts (`FeedAssumption`), and sizes and bounds are natural numbers
(`LeaderboardAssumption`, `EditsAssumption`, `LinksAssumption` and others). TLC evaluates each
of them in a run.

| Module | Theorems about |
|---|---|
| `SumTheorems` | sums of functions over finite sets (lemmas) |
| `WalletLedgerProofs` | `WalletLedger` |
| `ChargeProofs` | `Charge`, and that it implements `ChargeOnce` |
| `WithdrawalProofs` | `Withdrawal` |
| `SplitBillProofs` | `SplitBill`, and that each of its charges implements `ChargeOnce` |
| `BillPeopleProofs` | `MCBillPeople` and its six components |
| `UserProofs` | `MCUser` and its eight components |
| `CampaignProofs` | `CampaignProposal`, and that it implements `Approval`; `MCCommunity` and its nine components |

Every invariant and action property of every passing run is stated by a theorem, and so are
the refinement of `Approval` and the safety part of the two refinements of `ChargeOnce`.

**Sums.** A model writes a sum as a fold, and a fold is a CHOOSE among the functions that
satisfy its recursion. `SumCharacter` shows that such a function exists and that the sum does
not depend on the order of the elements, by induction on the size of the set, which is done
with least elements of sets of numbers, as the prover cannot use induction theorems with an
operator parameter. From it: what a sum is after an update of one element (`SumUpdate`), an
extension (`SumExtend`), for a sum of two functions (`SumPlus`), under a bijection
(`SumBijection`), and monotony.

**WalletLedger.** One inductive invariant, `IInv`, joins the types with what each row
satisfies together with its statement (`RowOK`): not negative, available equal to ledger and
to credited minus debited, statement at most available. It is needed because none of the four
is inductive on its own: that a guarded UPDATE keeps a row right uses that the row was. One
lemma per row operator (CreditRow, DebitRow, LockRow, RefundRow) and the bound of the fee
(`FeeBound`: between 0 and the amount) carry the argument; `IInvStep` goes through the
actions and finds which rows each touches. What a request saw when it checked a balance is
never used: the check is irrelevant to safety. `FrozenKeepsMoney` is the action property, by
the same lemmas about rows. `OnlyInvoices` adds the books: an operation posts to one or two
entries of each kind, so the change of their sum is that of the entries it names (`Posts`,
`PostsBoth`), and only the invoice with a fee posts what does not cancel.

**Charge.** `CompletedHasEffect` is inductive alone, the action that writes COMPLETED also adds
the effect. `RecordedAtMostOnce` is not inductive: its strengthening `OnceInv` adds, for
guarded charges, that no handler is at an unguarded insert and that a recorded effect has
left the row in a state no claim matches. `PaidBeforeRecorded` says that a handler past
Paystack's confirmation has a paid charge. `ImplementsPromise` combines the three: every step
maps to `Pay`, `Record` or a stutter of `ChargeOnce`, for every number of deliveries and
verifies, where the row guards the effect.

**Withdrawal.** `FailedHasRefund` is inductive alone, as status and credit commit together.
`FinalIsFinal` needs `CodeInv`: the webhook handlers find a withdrawal by its transfer code,
the worker saves that code last, so a settled withdrawal has no worker left that could write
PROCESSING. `PaidNeverRefunded` needs `EventInv`: what Paystack has sent determines where its
transfer is, a delivery carries only what was sent, and a refund is reached only by a failure
or a reversal. `RefundsBounded` needs `OverlapInv`: once the withdrawal reads FAILED, the
refunds made and the deliveries still on their way to one are together at most the
deliveries, because a refund uses up a delivery that found the withdrawal open.

**CampaignProposal.** Rows are overwritten by stale copies, so the invariant `CopiesInv` is
not about the row but about every copy of it, in the table or in a handler: it counts no more
votes than are committed, its status follows from its counters, a pending one has not
reached its quorum, and a vote under way is not among those its own copy has counted. Picks,
assignments and committed votes only grow, so what a copy says stays true however old it
gets (`Grows`). `DecisionsRest`, `FeedTrue` and `QuorumLost` follow for any overlap.
`AskedOnce`, `TwoDonors` and `SettledForGood` have the hypothesis `Exclusive`, as the run
`campaign_proposal_serial` has; `SerialInv` says that a running handler's copy is the row.
`ImplementsApproval` adds `ExactInv`: alone, the counters of the row are the committed
answers, neither more nor fewer, so that two alike decide at once. The key is that a vote
under way is not among the answers its copy has counted: as the copy is now the row and its
count is exact, the donor being asked has not answered. Each step of the proposal is then
one of `Approval` (VoteCommits, Advance, CancelSaves, ExecuteSaves) or leaves row, picks and
answers alone.

**SplitBill.** `LockInv`: a row is locked by one handler, and what a request that holds the
rows of its participants has read of them is what they still are. `ReqInv`: a request about a
charge knows the charge as it is, a charge is booked at most once and only when paid, and a
wallet payment past its check still finds its money unless another payment raced it.
`MoneyAddsUp` is then a matter of sums: a commit changes what its targets have paid by what it
adds to the total, and the rest is the tally of the named losses. `ImplementsPromise` holds
for every charge, without a restriction.

**The people of a bill.** The components share no variable, so `PeopleInv` is the conjunction
of their invariants, and a step of one leaves the others alone (`OnePart`). `SharesInv`:
`order` numbers the live rows one to one, so that shares computed for the places 1..n add up
over the rows (`SumBijection`); the shares of each method add up to the total in kobo, an even
one within one kobo; every operation recomputes or redistributes all of them, and a list that
names each of them once adds up to what was checked. `InviteInv` says what a request has read
of the invitation and what of it is still true when it writes. `GovInv`: what a stored
decision rests on, and what the copy of a request between vote, tally and save still tells,
unless somebody left since its tally; the counters are those of the votes once nothing
crossed, nothing was torn and no vote waits for its save. `OrgInv`: undisturbed, there is one
request at a time, and its row is absent, pending or as it was read. `TalkInv`: the audience
of a reply is that of its thread, and those on the way still fit the bound. `ClockInv`:
reminders by the sweep are at least 20 hours apart and from one day before to three days after
the due date, so five at most by pigeonhole; the last sweep before the due date has reminded
or found a reminder.

**The user.** `UserInv` likewise. `PayoutInv`: the one empty reference is taken by the first
credit. `PointsInv`: the awards a payment has still to make are the last ones it is worth,
and the rows it has earned are of those before, all of them when it was not disturbed: no
crash, no error, no rule switched off.
`AccountInv`: a code that was spent is no longer in the row, and the verification in
progress is by the newest code; requests that saved an old row over it are named. `PinInv`,
`KycInv`: what a request has read decides whether it can still write. `SocialInv` knows of
every call under way whether what it read still holds. `NoticesInv` follows the notice
through its channels. `PagingInv` says where in the list a row stands that has not been
shown: not before the next page.

**The public.** `CommunityInv` likewise. `PageInv`: a seat under way is that of its row, and
was asked for before the event began; the fifth page of the draft is saved with its fields.
`MoneyInv`: a reference belongs to one contribution, on its way or booked; a wallet payment
past its check still finds its money unless another overlapped; that the event has raised the
sum of its gifts, by giver as by reference, is a matter of sums over sets of gifts; a board
is a part of the givers, so it adds up to no more (`BoardAddsUp`).
`LinkInv`: the links that a request about to insert one would duplicate were inserted since it
looked, and are counted; one reload at a time has read what the table says. `TeamInv`: what a
request has loaded of a row and whom it found missing, and what became of that since; each
overlap names the row or the invitee it spoils. `BooksInv`: where no two requests had a row
loaded, the copy differs from it only in what the edit sets. `RowInv`: a copy of a campaign is
the row in every column nobody wrote over, and holds no more than was given. `SupportInv`:
who is credited as champion joined as one. `FeedInv`: each stage of a rebuild has read at least
what was there before this tick, of the rows among the newest of their table; such a row was
among the newest at any earlier time (`NewestStays`) and is read by whatever order takes the
newest (`NewestAreTaken`); the cursor separates what was shown from what was not, but
for ties with the last of a page. `DonorInv`: the account a donation is booked to has the
address or the number that was typed; looking again follows a lost insert, so that somebody
has that address, or the number was the one taken, or an error was met.

**What the proofs changed.** Some attempts failed for a good reason. In `SplitBill`,
`RefundCoversPaid` excepted bills on which the net of what stale saves of payment links
erased is not zero; but a second stale save may put back what the first erased, after the
refund was computed without it, a case TLC's bounds do not reach. `tally.stale` records that
there was a stale save at all. In `BillShares`, the shares add up to the total only while
somebody is left on the bill: after an update with amounts that names only people removed
before nobody is, and the next even split is computed for nobody. `SharesSumToTotal` says so
now. In `Feed`, `KnowsWhatIsOld` excepted profiles whose rebuilds had overlapped; the proof never
needed the exception, as a rebuild that takes less time than a profile lasts has read enough,
whichever is saved last. The property stands without it.

**Only model-checked.** Liveness: `KeepsPromise` and `EveryChargeIsBookedOnce` beyond safety,
`SettlesOnceCodeIsSaved`, `PendingSettles`, as fairness and ENABLED are beyond the prover. The
two refuted properties are false, and TLC shows how.

## 8. What is not modelled

* Sessions and refresh tokens: a library signs them; the last one issued is a column that each
  login overwrites.
* User profiles, searches, settings that are plain columns; bank accounts and the
  provisioning of virtual accounts (calls of Paystack whose result is stored); the
  dedicated-account event, one update of the number that was assigned.
* Updates of bills and campaigns and their reactions, drafts, pictures, categories, lists and
  analytics: inserts and queries on which nothing decides.
* Uploads, sockets, push and mail transports, the admin queries.
* The weights of the feed and of the tagger: heuristics without a correctness statement in
  the code; that they order, and when they run, is modelled.
* The Paystack link of a donation whose row is rolled back: `Charge` starts from a saved row.

External parts (Paystack, Didit, MySQL's locks and modes, restarts, the clock) are modelled
from how `src/src` uses them and marked external in the map.
