---------------------------- MODULE WalletLedger ----------------------------
(***************************************************************************)
(* The custodial wallets and the double-entry ledger behind them           *)
(* (wallet.service.ts), with the money operations that drive them          *)
(* (transaction.service.ts, the wallet branch of donation.service.ts and   *)
(* the debit side of requestWithdrawal).                                   *)
(*                                                                         *)
(* Every operation runs in one database transaction whose UPDATEs hold the *)
(* wallet rows' locks until the commit, so a committed operation is one    *)
(* step and a rolled back one is no step at all.  What a request reads     *)
(* before it opens its transaction is not protected: Donate and Withdraw   *)
(* check the balance in one step and move the money in a later one.        *)
(*                                                                         *)
(* Amounts are natural numbers of the smallest unit.  A ledger entry is    *)
(* kept as its effect: credits minus debits of the account it is posted    *)
(* to, `statement` for the entries that carry a walletId and `account` for *)
(* the others.                                                             *)
(***************************************************************************)
EXTENDS Integers, FiniteSets, Functions

CONSTANTS
    Wallets,        \* the wallets' ids
    Requests,       \* HTTP requests that check a balance before they spend it
    Amounts,        \* the amounts a caller may ask for
    FeePermille,    \* PLATFORM_FEE_RATE, in thousandths
    FeeCap,         \* PLATFORM_FEE_CAP_KOBO
    MaxOps          \* bound: committed operations of a behaviour

ASSUME WalletsAssumption == IsFiniteSet(Wallets)
ASSUME AmountsAssumption == Amounts \subseteq Nat \ {0}
ASSUME FeeAssumption == FeePermille \in 0..1000 /\ FeeCap \in Nat
ASSUME MaxOpsAssumption == MaxOps \in Nat

\* Accounts whose entries carry no walletId.  "user_contra" stands for the
\* USER_WALLET entries that name the counterparty in accountEntityId only.
Accounts == {"payment_gateway", "withdrawal_transit", "campaign_escrow",
             "bill_escrow", "platform_revenue", "user_contra"}

VARIABLES
    wallet,     \* the rows of the table wallets
    statement,  \* net of the ledger entries posted with this walletId
    account,    \* net of the ledger entries posted to the other accounts
    raised,     \* campaigns.current_amount
    req,        \* requests between their balance check and their transaction
    ops         \* committed operations (bound)

vars == <<wallet, statement, account, raised, req, ops>>

Idle == [op |-> "idle"]
Pending == [op : {"donate", "withdraw"}, wallet : Wallets, amount : Amounts]

WalletRow == [status : {"active", "frozen"}, available : Int, ledger : Int,
              escrow : Int, credited : Int, debited : Int]

TypeOK ==
    /\ wallet \in [Wallets -> WalletRow]
    /\ statement \in [Wallets -> Int]
    /\ account \in [Accounts -> Int]
    /\ raised \in Nat
    /\ req \in [Requests -> Pending \cup {Idle}]
    /\ ops \in Nat

-----------------------------------------------------------------------------
(* The rows and the postings *)

NewWallet == [status |-> "active", available |-> 0, ledger |-> 0, escrow |-> 0,
              credited |-> 0, debited |-> 0]

CreditRow(x, a) == [x EXCEPT !.available = @ + a, !.ledger = @ + a, !.credited = @ + a]

DebitRow(x, a) == [x EXCEPT !.available = @ - a, !.ledger = @ - a, !.debited = @ + a]

LockRow(x, a) == [DebitRow(x, a) EXCEPT !.escrow = @ + a]

\* Mutant of RefundRow: the refund forgets the lifetime counter.
RefundRow_KeepsLifetime(x, a) ==
    [x EXCEPT !.available = @ + a, !.ledger = @ + a,
              !.escrow = IF @ - a > 0 THEN @ - a ELSE 0]

RefundRow(x, a) ==
    [CreditRow(x, a) EXCEPT !.escrow = IF @ - a > 0 THEN @ - a ELSE 0]

Active(w) == wallet[w].status = "active"

\* Mutants of CanSpend: the guarded UPDATE relies on the balance check made
\* before the transaction, or on the status check made there.
CanSpend_TrustsCheck(w, a) == Active(w)

CanSpend_IgnoresStatus(w, a) == wallet[w].available >= a

\* The WHERE clause of the guarded UPDATEs.
CanSpend(w, a) == Active(w) /\ wallet[w].available >= a

calculateFee(a) ==
    LET fee == (a * FeePermille) \div 1000
    IN  IF fee < FeeCap THEN fee ELSE FeeCap

Commit == ops < MaxOps /\ ops' = ops + 1

-----------------------------------------------------------------------------
(* The core ledger operations, as parts of an action *)

creditWallet(w, a, source) ==
    /\ Active(w)
    /\ wallet' = [wallet EXCEPT ![w] = CreditRow(@, a)]
    /\ statement' = [statement EXCEPT ![w] = @ + a]
    /\ account' = [account EXCEPT ![source] = @ - a]

debitWallet(w, a, target) ==
    /\ CanSpend(w, a)
    /\ wallet' = [wallet EXCEPT ![w] = DebitRow(@, a)]
    /\ statement' = [statement EXCEPT ![w] = @ - a]
    /\ account' = [account EXCEPT ![target] = @ + a]

\* When no row matches for lack of funds the error is not thrown (it is
\* commented out): the two entries are written and the wallet is left alone.
lockIntoEscrow(w, a, escrow) ==
    /\ Active(w)
    /\ wallet' = IF CanSpend(w, a) THEN [wallet EXCEPT ![w] = LockRow(@, a)] ELSE wallet
    /\ statement' = [statement EXCEPT ![w] = @ - a]
    /\ account' = [account EXCEPT ![escrow] = @ + a]

\* Mutant of releaseEscrowToWallet: the entry shows the gross amount.
releaseEscrowToWallet_PostsGross(holder, w, gross, fee, escrow) ==
    LET drained == [wallet EXCEPT ![holder].escrow = @ - gross]
    IN  /\ wallet' = [drained EXCEPT ![w] = CreditRow(@, gross - fee)]
        /\ statement' = [statement EXCEPT ![w] = @ + gross]
        /\ account' = [account EXCEPT ![escrow] = @ - gross]

\* Neither UPDATE looks at the status or at the escrow there is.
releaseEscrowToWallet(holder, w, gross, fee, escrow) ==
    LET drained == [wallet EXCEPT ![holder].escrow = @ - gross]
    IN  /\ wallet' = [drained EXCEPT ![w] = CreditRow(@, gross - fee)]
        /\ statement' = [statement EXCEPT ![w] = @ + (gross - fee)]
        /\ account' = [account EXCEPT ![escrow] = @ - gross,
                                      !["platform_revenue"] = @ + fee]

\* Mutant of refundEscrowToWallet: the escrow side is not posted.
refundEscrowToWallet_OneEntry(w, a, escrow) ==
    /\ wallet' = [wallet EXCEPT ![w] = RefundRow(@, a)]
    /\ statement' = [statement EXCEPT ![w] = @ + a]
    /\ UNCHANGED account

refundEscrowToWallet(w, a, escrow) ==
    /\ wallet' = [wallet EXCEPT ![w] = RefundRow(@, a)]
    /\ statement' = [statement EXCEPT ![w] = @ + a]
    /\ account' = [account EXCEPT ![escrow] = @ - a]

-----------------------------------------------------------------------------
(* The operations *)

Init ==
    /\ wallet = [w \in Wallets |-> NewWallet]
    /\ statement = [w \in Wallets |-> 0]
    /\ account = [x \in Accounts |-> 0]
    /\ raised = 0
    /\ req = [r \in Requests |-> Idle]
    /\ ops = 0

\* A confirmed gateway payment reaches creditWallet.
FundWallet(w, a) ==
    /\ Commit
    /\ creditWallet(w, a, "payment_gateway")
    /\ UNCHANGED <<raised, req>>

\* donate(), wallet branch: the balance is read outside the transaction.
DonateCheck(r, w, a) ==
    /\ req[r] = Idle
    /\ wallet[w].available >= a
    /\ req' = [req EXCEPT ![r] = [op |-> "donate", wallet |-> w, amount |-> a]]
    /\ UNCHANGED <<wallet, statement, account, raised, ops>>

\* Mutant of executeWalletDonation: the wrong sign on current_amount.
executeWalletDonation_Subtracts(r) ==
    /\ req[r].op = "donate"
    /\ Commit
    /\ lockIntoEscrow(req[r].wallet, req[r].amount, "campaign_escrow")
    /\ raised' = raised - req[r].amount
    /\ req' = [req EXCEPT ![r] = Idle]

executeWalletDonation(r) ==
    /\ req[r].op = "donate"
    /\ Commit
    /\ lockIntoEscrow(req[r].wallet, req[r].amount, "campaign_escrow")
    /\ raised' = raised + req[r].amount
    /\ req' = [req EXCEPT ![r] = Idle]

\* requestWithdrawal(): status and balance are read outside the transaction.
WithdrawCheck(r, w, a) ==
    /\ req[r] = Idle
    /\ CanSpend(w, a)
    /\ req' = [req EXCEPT ![r] = [op |-> "withdraw", wallet |-> w, amount |-> a]]
    /\ UNCHANGED <<wallet, statement, account, raised, ops>>

requestWithdrawal(r) ==
    /\ req[r].op = "withdraw"
    /\ Commit
    /\ debitWallet(req[r].wallet, req[r].amount, "withdrawal_transit")
    /\ req' = [req EXCEPT ![r] = Idle]
    /\ UNCHANGED raised

\* The transaction throws (frozen wallet, funds gone) and is rolled back.
RequestRollsBack(r) ==
    /\ req[r] # Idle
    /\ IF req[r].op = "donate" THEN ~Active(req[r].wallet)
                               ELSE ~CanSpend(req[r].wallet, req[r].amount)
    /\ req' = [req EXCEPT ![r] = Idle]
    /\ UNCHANGED <<wallet, statement, account, raised, ops>>

\* TransactionService: no balance check of its own before the lock.
donateToCampaign(w, a) ==
    /\ Commit
    /\ lockIntoEscrow(w, a, "campaign_escrow")
    /\ UNCHANGED <<raised, req>>

paySplitBill(w, a) ==
    /\ Commit
    /\ lockIntoEscrow(w, a, "bill_escrow")
    /\ UNCHANGED <<raised, req>>

\* Debit the payer, credit the recipient net of the fee, book the fee.
payInvoice(p, w, a) ==
    LET fee == calculateFee(a)
        net == a - fee
    IN  /\ p # w
        /\ Commit
        /\ CanSpend(p, a)
        /\ Active(w)
        /\ wallet' = [wallet EXCEPT ![p] = DebitRow(@, a), ![w] = CreditRow(@, net)]
        /\ statement' = [statement EXCEPT ![p] = @ - a, ![w] = @ + net]
        /\ account' = [account EXCEPT !["user_contra"] = @ + a - net,
                                      !["platform_revenue"] = @ + fee]
        /\ UNCHANGED <<raised, req>>

\* The contra entries of the debit and of the credit cancel out.
internalTransfer(p, w, a) ==
    /\ p # w
    /\ Commit
    /\ CanSpend(p, a)
    /\ Active(w)
    /\ wallet' = [wallet EXCEPT ![p] = DebitRow(@, a), ![w] = CreditRow(@, a)]
    /\ statement' = [statement EXCEPT ![p] = @ - a, ![w] = @ + a]
    /\ UNCHANGED <<account, raised, req>>

\* The gross amount is the caller's totalEscrowedKobo: all the ledger shows for
\* the one campaign, or the one bill, of this model.  The recipient's own
\* wallet is passed as the holder of the escrow.
settleCampaign(w) ==
    LET gross == account["campaign_escrow"]
    IN  /\ gross > 0
        /\ Commit
        /\ releaseEscrowToWallet(w, w, gross, calculateFee(gross), "campaign_escrow")
        /\ UNCHANGED <<raised, req>>

settleSplitBill(w) ==
    LET gross == account["bill_escrow"]
    IN  /\ gross > 0
        /\ Commit
        /\ releaseEscrowToWallet(w, w, gross, calculateFee(gross), "bill_escrow")
        /\ UNCHANGED <<raised, req>>

\* One backer of the caller's list.
refundCampaignBackers(w, a) ==
    /\ a <= account["campaign_escrow"]
    /\ Commit
    /\ refundEscrowToWallet(w, a, "campaign_escrow")
    /\ UNCHANGED <<raised, req>>

freezeWallet(w) ==
    /\ wallet' = [wallet EXCEPT ![w].status = "frozen"]
    /\ UNCHANGED <<statement, account, raised, req, ops>>

unfreezeWallet(w) ==
    /\ wallet' = [wallet EXCEPT ![w].status = "active"]
    /\ UNCHANGED <<statement, account, raised, req, ops>>

Next ==
    \/ \E w \in Wallets, a \in Amounts :
          \/ FundWallet(w, a)
          \/ donateToCampaign(w, a)
          \/ paySplitBill(w, a)
          \/ refundCampaignBackers(w, a)
          \/ \E r \in Requests : DonateCheck(r, w, a) \/ WithdrawCheck(r, w, a)
          \/ \E p \in Wallets : payInvoice(p, w, a) \/ internalTransfer(p, w, a)
    \/ \E r \in Requests :
          executeWalletDonation(r) \/ requestWithdrawal(r) \/ RequestRollsBack(r)
    \/ \E w \in Wallets :
          settleCampaign(w) \/ settleSplitBill(w) \/ freezeWallet(w) \/ unfreezeWallet(w)

Spec == Init /\ [][Next]_vars

-----------------------------------------------------------------------------
(* Properties *)

\* Whatever the interleaving of requests that checked the same balance, no
\* wallet is overdrawn: the guarded UPDATEs of debitWallet and lockIntoEscrow
\* are the only protection, the check before the transaction is stale.
NoOverdraft == \A w \in Wallets : wallet[w].available >= 0

\* The five columns tell one story: available and ledger balance agree and are
\* what came in minus what went out, through every lock, release and refund.
BalanceIdentity ==
    \A w \in Wallets :
        /\ wallet[w].available = wallet[w].ledger
        /\ wallet[w].available = wallet[w].credited - wallet[w].debited

\* The statement rebuilt from the ledger entries never shows more money than
\* the wallet holds: an entry may lack its movement (lockIntoEscrow), a
\* movement never lacks its entry.
StatementNeverExceeds ==
    \A w \in Wallets : statement[w] <= wallet[w].available

\* A frozen wallet loses no money, not even to a request that checked its
\* status before the freeze; refunds and settlements may still reach it.
FrozenNeverSpends ==
    [][\A w \in Wallets : ~Active(w) => wallet'[w].available >= wallet[w].available]_vars

Total == SumFunction(statement) + SumFunction(account)

\* The books stay balanced through every operation but a fee-bearing invoice,
\* whose two contra entries already account for the fee that payInvoice books
\* once more to the platform.
OnlyInvoiceFeesUnbalance ==
    [][Total' # Total =>
          /\ account'["user_contra"] > account["user_contra"]
          /\ Total' - Total = account'["platform_revenue"] - account["platform_revenue"]]_vars

\* "one DEBIT and one CREDIT that net to zero" for every financial event
\* (ledger-entry.entity.ts): the sum over all accounts is zero.
LedgerNetsToZero == Total = 0

Escrowed == SumFunction([w \in Wallets |-> wallet[w].escrow])

\* "Moves funds from available balance into escrow" (lockIntoEscrow): what a
\* lock credits to an escrow account has left some wallet's available balance.
LockMovesFunds ==
    [][\A x \in {"campaign_escrow", "bill_escrow"} :
          account'[x] > account[x] =>
             \E w \in Wallets :
                wallet[w].available - wallet'[w].available = account'[x] - account[x]]_vars

\* "wallet that held the escrow funds" (releaseEscrowToWallet): a release only
\* takes what its holder has in escrow, so the counter never goes below zero.
EscrowNonNegative == \A w \in Wallets : wallet[w].escrow >= 0
=============================================================================
