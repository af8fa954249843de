------------------------------ MODULE SplitBill ------------------------------
(***************************************************************************)
(* The money of one split bill (split-bill.service.ts and the bill         *)
(* handlers of payment-webhook.service.ts): payments from a wallet, card   *)
(* payments of users and guests, the guest's payment link, finalising and  *)
(* cancelling with refunds.                                                *)
(*                                                                         *)
(* Each request is a transaction that takes its InnoDB row locks one after *)
(* another and then writes; requests that read without a lock are a read   *)
(* and a later write.  Who is on the bill and what each owes is fixed here *)
(* (see BillShares).                                                       *)
(***************************************************************************)
EXTENDS Integers, FiniteSets, Sequences, Functions

CONSTANTS
    Users,          \* participants with an account
    Guests,         \* participants without one
    Creator,        \* the user who created the bill
    Declined,       \* the participants who declined their invitation
    Charges,        \* Paystack charges that the payments may open
    Watched,        \* any of them, to compare with what ChargeOnce promises
    Handlers,       \* requests and webhook deliveries served at the same time
    BillRow,        \* the row of the bill, as a lock
    Naira,          \* one naira, in the unit of the amounts: less is dust
    Share,          \* what each participant owes
    Groups,         \* the sets of participants users pay for
    Amounts,        \* the amounts users ask to pay
    Balances,       \* what the wallets may hold at first
    MaxRequests,    \* bound: client requests
    MaxDups,        \* bound: superfluous webhook deliveries
    MaxSpends,      \* bound: other payments from a payer's wallet
    MaxFailures     \* bound: requests that fail and are rolled back

Participants == Users \cup Guests
Rows == Participants \cup Charges \cup {BillRow}
Total == Share * Cardinality(Participants)

ASSUME PeopleAssumption ==
    /\ Users \cap Guests = {} /\ Creator \in Users /\ {Declined} \cup Groups \subseteq SUBSET Participants
    /\ Watched \in Charges /\ Participants \cap Charges = {} /\ BillRow \notin Participants \cup Charges
ASSUME FiniteAssumption == IsFiniteSet(Participants) /\ IsFiniteSet(Charges)
ASSUME AmountsAssumption ==
    /\ {Naira, Share} \subseteq Nat \ {0} /\ Amounts \subseteq Nat \ {0} /\ Balances \subseteq Nat

VARIABLES
    bill,       \* status, finalized and totalCollected of the bill
    part,       \* amountPaid, amountRemaining and status of every participant
    links,      \* the guests with a payment link that is still valid
    wallet,     \* available balance of each user
    escrow,     \* what each user's wallet holds in escrow for the bill
    charge,     \* the charges at Paystack
    booked,     \* completed transaction rows with the reference of a charge
    acked,      \* the charges whose webhook was answered 200
    req,        \* what each handler is doing
    locks,      \* the rows each handler has locked
    tally,      \* history of the money, see TypeOK
    requests, dups, spends, failures    \* counters of the bounds

money == <<bill, part, wallet, escrow, booked, tally>>
paystack == <<charge, acked>>
bounds == <<requests, dups, spends, failures>>
vars == <<money, links, paystack, req, locks, bounds>>

BillStatus == {"active", "partially_paid", "funded", "cancelled"}
PartStatus == {"unpaid", "declined", "partial", "paid"}
Participant == [paid : Nat, remaining : Nat, status : PartStatus]
Ops == {"none", "wallet", "card", "guestPay", "hook", "guestHook", "link", "finalize", "cancel"}
Idle == [op |-> "none", payer |-> Creator, targets |-> {}, amount |-> 0, charge |-> BillRow,
         step |-> 0, funded |-> FALSE, seen |-> << >>]
NoCharge == [state |-> "none", kind |-> "user", payer |-> Creator, targets |-> {}, amount |-> 0]

Sum(f) == FoldFunction(LAMBDA x, y : x + y, 0, f)
Paid == Sum([p \in Participants |-> part[p].paid])
\* Mutant of Debt: what was paid already is forgotten.
Debt_Whole(row) == Share


Debt(row) == IF Share > row.paid THEN Share - row.paid ELSE 0
Lesser(a, b) == IF a < b THEN a ELSE b

TypeOK ==
    /\ bill \in [status : BillStatus, finalized : BOOLEAN, collected : Nat]
    /\ part \in [Participants -> Participant]
    /\ links \subseteq Guests
    /\ wallet \in [Users -> Nat] /\ escrow \in [Users -> Nat]
    /\ \A c \in Charges :
         /\ charge[c].state \in {"none", "open", "paid"}
         /\ charge[c].kind \in {"user", "guest"}
         /\ charge[c].targets \subseteq Participants /\ charge[c].amount \in Nat
    /\ booked \in [Charges -> Nat] /\ acked \subseteq Charges
    /\ \A h \in Handlers : /\ req[h].op \in Ops /\ req[h].step \in 0..3
                           /\ req[h].op = "none" => req[h] = Idle
    /\ locks \in [Handlers -> SUBSET Rows]
    /\ tally \in [surplus : Nat,     \* card money beyond the debts it was paid for
                  wiped : Int,       \* payments that stale saves erased from rows, less those they put back
                  stale : BOOLEAN,   \* a save wrote a row as it was before a payment
                  refunded : Nat,    \* paid back by cancelBill, to wallets and to guests
                  unfunded : Nat,    \* booked as paid from a wallet that lacked the money
                  raced : BOOLEAN,   \* a wallet was debited between check and escrow
                  again : BOOLEAN]   \* money came, or a refund went, after a cancellation

Init ==
    /\ bill = [status |-> "active", finalized |-> FALSE, collected |-> 0]
    /\ part = [p \in Participants |-> [paid |-> 0, remaining |-> Share,
                  status |-> IF p \in Declined THEN "declined" ELSE "unpaid"]]
    /\ links = {}
    /\ wallet \in [Users -> Balances] /\ escrow = [u \in Users |-> 0]
    /\ charge = [c \in Charges |-> NoCharge] /\ booked = [c \in Charges |-> 0] /\ acked = {}
    /\ req = [h \in Handlers |-> Idle] /\ locks = [h \in Handlers |-> {}]
    /\ tally = [surplus |-> 0, wiped |-> 0, stale |-> FALSE, refunded |-> 0, unfunded |-> 0,
                raced |-> FALSE, again |-> FALSE]
    /\ requests = 0 /\ dups = 0 /\ spends = 0 /\ failures = 0

-----------------------------------------------------------------------------
(* Requests and their locks *)

Begin(h, r) ==
    /\ req[h] = Idle
    /\ req' = [req EXCEPT ![h] = r]
    /\ UNCHANGED <<money, links, charge, locks, spends, failures>>

BeginRequest(h, r) ==
    /\ requests < MaxRequests /\ requests' = requests + 1
    /\ Begin(h, r) /\ UNCHANGED <<acked, dups>>

\* Mutant of LockOrder: payBillShare locks only the payer's row and the bill.
LockOrder_TargetsUnlocked(r) ==
    CASE r.op \in {"wallet", "card"} -> <<{r.payer}, {r.payer}, {BillRow}>>
      [] r.op \in {"guestPay", "guestHook"} -> <<r.targets, {BillRow}>>
      [] r.op = "hook" -> <<{r.charge}, {BillRow}, r.targets>>
      [] r.op = "cancel" -> <<{BillRow}, Participants>>
      [] OTHER -> << >>

\* The row locks of a transaction in the order in which it asks for them.
LockOrder(r) ==
    CASE r.op \in {"wallet", "card"} -> <<{r.payer}, r.targets, {BillRow}>>
      [] r.op \in {"guestPay", "guestHook"} -> <<r.targets, {BillRow}>>
      [] r.op = "hook" -> <<{r.charge}, {BillRow}, r.targets>>
      [] r.op = "cancel" -> <<{BillRow}, Participants>>
      [] OTHER -> << >>

Waits(h) == req[h].step < Len(LockOrder(req[h]))
Ready(h, op) == req[h].op = op /\ ~Waits(h)
Wanted(h) == LockOrder(req[h])[req[h].step + 1]
Free(rows, h) == \A x \in Handlers \ {h} : locks[x] \cap rows = {}

Acquire(h) ==
    /\ Waits(h) /\ Free(Wanted(h), h)
    /\ locks' = [locks EXCEPT ![h] = @ \cup Wanted(h)]
    /\ req' = [req EXCEPT ![h].step = @ + 1,
                           ![h].seen = IF Wanted(h) \subseteq Participants
                                       THEN [p \in req[h].targets |-> part[p]] ELSE @]
    /\ UNCHANGED <<money, links, paystack, bounds>>

\* Commit or rollback: the connection is released either way.
Ends(h) ==
    /\ req' = [req EXCEPT ![h] = Idle]
    /\ locks' = [locks EXCEPT ![h] = {}]

Refuses(h) == Ends(h) /\ UNCHANGED <<money, links, paystack, bounds>>

\* InnoDB rolls back one of two transactions that wait for each other.
Victim(h) ==
    /\ Waits(h)
    /\ \E x \in Handlers \ {h} : /\ Waits(x)
                                 /\ locks[x] \cap Wanted(h) # {}
                                 /\ locks[h] \cap Wanted(x) # {}
    /\ Refuses(h)

\* Any other error before the commit; a webhook is answered 500.
Fails(h) ==
    /\ req[h].op # "none"
    /\ failures < MaxFailures /\ failures' = failures + 1
    /\ Ends(h) /\ UNCHANGED <<money, links, paystack, requests, dups, spends>>

-----------------------------------------------------------------------------
(* What a payment writes *)

\* payBillShare and the webhook serve the payer first and then the others one
\* after another, in the order of their ids.
Allocations(amount, payer, debts) ==
    {d \in [DOMAIN debts -> 0..amount] :
        /\ \A p \in DOMAIN debts : d[p] <= debts[p]
        /\ Sum(d) = Lesser(amount, Sum(debts))
        /\ d[payer] = Lesser(amount, debts[payer])
        /\ Cardinality({p \in DOMAIN debts \ {payer} : d[p] \notin {0, debts[p]}}) <= 1}

\* A remainder below one naira counts as paid, except in the webhooks.
PayRow(row, amount, tolerance) ==
    LET paid == row.paid + amount
        left == IF Share > paid THEN Share - paid ELSE 0
    IN [paid |-> paid,
        remaining |-> IF left < tolerance THEN 0 ELSE left,
        status |-> IF left < tolerance THEN "paid" ELSE "partial"]

PayRows(seen, d, tolerance) ==
    [p \in Participants |->
        IF p \in DOMAIN d /\ d[p] > 0 THEN PayRow(seen[p], d[p], tolerance) ELSE part[p]]

Collect(amount) ==
    [bill EXCEPT !.collected = @ + amount,
                 !.status = IF bill.collected + amount >= Total THEN "funded" ELSE "partially_paid"]

CancelledBefore == bill.status = "cancelled" \/ tally.again

-----------------------------------------------------------------------------
(* payBillShare *)

payBillShare(h) ==
    \E group \in Groups, payer \in Users, amount \in Amounts, op \in {"wallet", "card"} :
       /\ payer \in group
       /\ BeginRequest(h, [Idle EXCEPT !.op = op, !.payer = payer, !.targets = group, !.amount = amount])

\* Those who declined are left out.
Debts(seen) == [p \in DOMAIN seen |-> IF seen[p].status = "declined" THEN 0 ELSE Debt(seen[p])]
\* Bound: Paystack refuses once all of Charges are in use.
NoChargeLeft == \A c \in Charges : charge[c].state # "none"
\* Mutant of PayRefused: a cancelled bill takes payments.
PayRefused_AnyStatus(r) == r.amount > Sum(Debts(r.seen))


PayRefused(r) == r.amount > Sum(Debts(r.seen)) \/ bill.status = "cancelled"

\* The PIN and the balance are read on another connection.
CheckWallet(h) ==
    /\ Ready(h, "wallet") /\ ~req[h].funded
    /\ IF PayRefused(req[h]) \/ wallet[req[h].payer] < req[h].amount
       THEN Refuses(h)
       ELSE /\ req' = [req EXCEPT ![h].funded = TRUE]
            /\ UNCHANGED <<money, links, paystack, locks, bounds>>

\* lockIntoEscrow moves the money if it is still there and returns in any case.
LockIntoEscrow(u, amount) ==
    IF wallet[u] >= amount
    THEN /\ wallet' = [wallet EXCEPT ![u] = @ - amount]
         /\ escrow' = [escrow EXCEPT ![u] = @ + amount]
         /\ UNCHANGED tally
    ELSE tally' = [tally EXCEPT !.unfunded = @ + amount] /\ UNCHANGED <<wallet, escrow>>

PayFromWallet(h) ==
    /\ Ready(h, "wallet") /\ req[h].funded
    /\ LockIntoEscrow(req[h].payer, req[h].amount)
    /\ \E d \in Allocations(req[h].amount, req[h].payer, Debts(req[h].seen)) :
         part' = PayRows(req[h].seen, d, Naira)
    /\ bill' = Collect(req[h].amount)
    /\ Ends(h)
    /\ UNCHANGED <<booked, links, paystack, bounds>>

\* The card branch opens a charge; its PENDING row is never looked at again.
OpenCardCharge(h) ==
    /\ Ready(h, "card")
    /\ IF PayRefused(req[h]) \/ NoChargeLeft THEN Refuses(h)
       ELSE /\ \E c \in Charges :
                 /\ charge[c].state = "none"
                 /\ charge' = [charge EXCEPT ![c] = [state |-> "open", kind |-> "user",
                         payer |-> req[h].payer, targets |-> req[h].targets, amount |-> req[h].amount]]
            /\ Ends(h)
            /\ UNCHANGED <<money, links, acked, bounds>>

\* Another payment of the same user: a donation, a withdrawal, another bill.
Spend(u) ==
    /\ spends < MaxSpends /\ spends' = spends + 1
    /\ \E amount \in Amounts :
         amount <= wallet[u] /\ wallet' = [wallet EXCEPT ![u] = @ - amount]
    /\ tally' = [tally EXCEPT !.raced = @ \/ \E h \in Handlers : req[h].funded /\ req[h].payer = u]
    /\ UNCHANGED <<bill, part, escrow, booked, links, paystack, req, locks, requests, dups, failures>>

-----------------------------------------------------------------------------
(* Paystack and the webhooks *)

PayAtPaystack(c) ==
    /\ charge[c].state = "open" /\ charge' = [charge EXCEPT ![c].state = "paid"]
    /\ UNCHANGED <<money, links, acked, req, locks, bounds>>

ForCharge(c, op) ==
    [Idle EXCEPT !.op = op, !.charge = c, !.payer = charge[c].payer,
                 !.targets = charge[c].targets, !.amount = charge[c].amount]

\* charge.success is sent until it is answered 200, now and then twice.
Deliver(h, c) ==
    /\ charge[c].state = "paid"
    /\ IF c \in acked \/ \E x \in Handlers : req[x].charge = c
       THEN dups < MaxDups /\ dups' = dups + 1
       ELSE UNCHANGED dups
    /\ Begin(h, ForCharge(c, IF charge[c].kind = "user" THEN "hook" ELSE "guestHook"))
    /\ UNCHANGED <<acked, requests>>

AlreadyProcessed(h, op) ==
    /\ req[h].op = op /\ booked[req[h].charge] > 0
    /\ acked' = acked \cup {req[h].charge}
    /\ Ends(h) /\ UNCHANGED <<money, links, charge, bounds>>

\* processBillPaymentWebhook: neither a cancelled bill nor a participant who
\* declined is turned down, and what exceeds the debts is only in the total.
processBillPaymentWebhook(h) ==
    LET r == req[h]
        debts == [p \in r.targets |-> Debt(r.seen[p])]
    IN \/ req[h].step >= 1 /\ AlreadyProcessed(h, "hook")
       \/ /\ Ready(h, "hook") /\ booked[r.charge] = 0
          /\ \E d \in Allocations(r.amount, r.payer, debts) : part' = PayRows(r.seen, d, 1)
          /\ tally' = [tally EXCEPT !.surplus = @ + (r.amount - Lesser(r.amount, Sum(debts))),
                                    !.again = CancelledBefore]
          /\ bill' = Collect(r.amount)
          /\ booked' = [booked EXCEPT ![r.charge] = @ + 1]
          /\ acked' = acked \cup {r.charge}
          /\ Ends(h) /\ UNCHANGED <<wallet, escrow, links, charge, bounds>>

\* Mutant of BookGuest: the transaction row gets a fresh reference.
BookGuest_FreshReference(h, tolerance) ==
    LET r == req[h] IN
    /\ part' = PayRows(r.seen, [p \in r.targets |-> r.amount], tolerance)
    /\ bill' = Collect(r.amount)
    /\ booked' = [booked EXCEPT ![r.charge] = @ + 1]
    /\ tally' = [tally EXCEPT !.again = CancelledBefore]
    /\ Ends(h) /\ UNCHANGED <<wallet, escrow, links, charge, bounds>>

\* What the two guest handlers write; the unique transaction reference makes the
\* insert fail when the charge was booked since the lookup.
BookGuest(h, tolerance) ==
    LET r == req[h] IN
    /\ booked[r.charge] = 0
    /\ part' = PayRows(r.seen, [p \in r.targets |-> r.amount], tolerance)
    /\ bill' = Collect(r.amount)
    /\ booked' = [booked EXCEPT ![r.charge] = @ + 1]
    /\ tally' = [tally EXCEPT !.again = CancelledBefore]
    /\ Ends(h) /\ UNCHANGED <<wallet, escrow, links, charge, bounds>>

\* processGuestBillPaymentWebhook: the reference is looked up without a lock.
processGuestBillPaymentWebhook(h) ==
    \/ req[h].step = 0 /\ AlreadyProcessed(h, "guestHook")
    \/ Ready(h, "guestHook") /\ BookGuest(h, 1) /\ acked' = acked \cup {req[h].charge}
    \/ Ready(h, "guestHook") /\ booked[req[h].charge] > 0 /\ Refuses(h)

\* guestPayBillShare, once Paystack has confirmed the charge.
guestPayBillShare(h) ==
    \E c \in Charges :
       /\ charge[c].state = "paid" /\ charge[c].kind = "guest"
       /\ BeginRequest(h, ForCharge(c, "guestPay"))

BookGuestPayment(h) ==
    /\ Ready(h, "guestPay")
    /\ IF bill.status \in {"cancelled", "funded"} \/ booked[req[h].charge] > 0
       THEN Refuses(h)
       ELSE BookGuest(h, Naira) /\ UNCHANGED acked

-----------------------------------------------------------------------------
(* generateGuestPaymentLink, finalizeBill *)

generateGuestPaymentLink(h) ==
    \E g \in Guests \ links :
       /\ Share >= part[g].paid + Naira
       /\ BeginRequest(h, [Idle EXCEPT !.op = "link", !.targets = {g}, !.seen = [p \in {g} |-> part[p]],
                                       !.amount = part[g].remaining])

\* save() writes every column of the entity that differs from the row by now.
SaveLink(h) ==
    /\ req[h].op = "link" /\ ~NoChargeLeft
    /\ \E g \in req[h].targets, c \in Charges :
         /\ Free({g}, h) /\ charge[c].state = "none"
         /\ charge' = [charge EXCEPT ![c] = [state |-> "open", kind |-> "guest",
                         payer |-> Creator, targets |-> {g}, amount |-> req[h].amount]]
         /\ tally' = [tally EXCEPT !.wiped = @ + (part[g].paid - req[h].seen[g].paid),
                                   !.stale = @ \/ part[g].paid # req[h].seen[g].paid]
         /\ part' = [part EXCEPT ![g] = req[h].seen[g]]
         /\ links' = links \cup {g}
    /\ Ends(h)
    /\ UNCHANGED <<bill, wallet, escrow, booked, acked, bounds>>

LinkFails(h) == req[h].op = "link" /\ NoChargeLeft /\ Refuses(h)

LinkExpires(g) ==
    /\ g \in links /\ links' = links \ {g}
    /\ UNCHANGED <<money, paystack, req, locks, bounds>>

finalizeBill(h) ==
    /\ ~bill.finalized /\ bill.status # "cancelled"
    /\ BeginRequest(h, [Idle EXCEPT !.op = "finalize"])

WriteFinalized(h) ==
    /\ req[h].op = "finalize" /\ Free({BillRow}, h)
    /\ bill' = [bill EXCEPT !.finalized = TRUE, !.status = "active"]
    /\ Ends(h)
    /\ UNCHANGED <<part, wallet, escrow, booked, tally, links, paystack, bounds>>

-----------------------------------------------------------------------------
(* cancelBill *)

cancelBill(h) == BeginRequest(h, [Idle EXCEPT !.op = "cancel"])

\* Mutant of RefundAndCancel: the creator's balance is not looked at.
RefundAndCancel_Unchecked(h) ==
    /\ Ready(h, "cancel")
    /\ IF bill.status = "cancelled" THEN Refuses(h)
       ELSE /\ bill' = [bill EXCEPT !.status = "cancelled"]
            /\ wallet' = [u \in Users |-> part[u].paid +
                             (IF u = Creator THEN wallet[u] - Paid ELSE wallet[u])]
            /\ tally' = [tally EXCEPT !.refunded = @ + Paid, !.again = tally.refunded > 0 \/ @]
            /\ Ends(h)
            /\ UNCHANGED <<part, escrow, booked, links, paystack, bounds>>

\* Everybody gets back what the row says was paid, out of the creator's wallet;
\* guests get a PendingPayout.  amountPaid stays, and so does the escrow.
RefundAndCancel(h) ==
    /\ Ready(h, "cancel")
    /\ IF bill.status = "cancelled" \/ wallet[Creator] < Paid THEN Refuses(h)
       ELSE /\ bill' = [bill EXCEPT !.status = "cancelled"]
            /\ wallet' = [u \in Users |-> part[u].paid +
                             (IF u = Creator THEN wallet[u] - Paid ELSE wallet[u])]
            /\ tally' = [tally EXCEPT !.refunded = @ + Paid, !.again = tally.refunded > 0 \/ @]
            /\ Ends(h)
            /\ UNCHANGED <<part, escrow, booked, links, paystack, bounds>>

-----------------------------------------------------------------------------
Serve(h) ==
    \/ Acquire(h) \/ Victim(h)
    \/ CheckWallet(h) \/ PayFromWallet(h) \/ OpenCardCharge(h)
    \/ processBillPaymentWebhook(h) \/ processGuestBillPaymentWebhook(h) \/ BookGuestPayment(h)
    \/ SaveLink(h) \/ LinkFails(h) \/ WriteFinalized(h) \/ RefundAndCancel(h)

Ask(h) ==
    payBillShare(h) \/ guestPayBillShare(h) \/ generateGuestPaymentLink(h)
    \/ finalizeBill(h) \/ cancelBill(h)

Next ==
    \/ \E h \in Handlers : Ask(h) \/ Serve(h) \/ Fails(h)
    \/ \E h \in Handlers, c \in Charges : Deliver(h, c)
    \/ \E c \in Charges : PayAtPaystack(c)
    \/ \E u \in Users : Spend(u)
    \/ \E g \in Guests : LinkExpires(g)

Fairness ==
    /\ \A h \in Handlers : WF_vars(Serve(h))
    /\ \A c \in Charges : WF_vars(\E h \in Handlers : Deliver(h, c))

Spec == Init /\ [][Next]_vars /\ Fairness
-----------------------------------------------------------------------------
(* Properties *)

\* Every naira of totalCollected is attributed to a participant, except what a
\* card paid beyond the debts and what a stale save of a payment link erased:
\* the bill and its participants are written under the same row locks.
CollectedIsAttributed == bill.collected = Paid + tally.surplus + tally.wiped

\* totalCollected is backed: by escrow, by booked card charges, or by a wallet
\* payment whose money was spent between the balance check and lockIntoEscrow.
CollectedIsFunded ==
    /\ bill.collected = Sum(escrow) + tally.unfunded
                        + Sum([c \in Charges |-> booked[c] * charge[c].amount])
    /\ tally.unfunded > 0 => tally.raced

\* Users never pay more than their share, whoever pays for them and however
\* payments from wallets and cards overlap; only guests, whose charges are booked
\* as they come, can overpay.
UsersNeverOverpay == \A u \in Users : part[u].paid <= Share

\* A cancelled bill has paid back what its rows say was paid, exactly once,
\* unless late card money or finalizeBill reopened it or a stale save of a payment
\* link wrote a row (a second one may put back what the first erased).
RefundCoversPaid ==
    bill.status = "cancelled" /\ ~tally.again /\ ~tally.stale => tally.refunded = Paid

\* Only the webhooks and finalizeBill, which does not lock, reopen a cancelled
\* bill: payments from wallets and by guests hold its row from check to commit.
ReopenedOnlyByCardOrFinalize ==
    [][bill.status = "cancelled" /\ bill'.status # "cancelled"
         => \E h \in Handlers : /\ req[h].op \in {"hook", "guestHook", "finalize"}
                                 /\ req'[h] = Idle]_vars

\* Every charge is booked once, and it is booked: also when its webhook, the
\* guest's own request and further deliveries overlap, fail or deadlock.
Promise ==
    INSTANCE ChargeOnce WITH paid <- charge[Watched].state = "paid", effects <- booked[Watched]
EveryChargeIsBookedOnce == Promise!Spec

=============================================================================
