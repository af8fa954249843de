-------------------------- MODULE SplitBillProofs --------------------------
(***************************************************************************)
(* Proofs about SplitBill, for any participants, charges, handlers and     *)
(* bounds: type correctness, the money of the bill adds up, users never    *)
(* overpay, only the webhooks and finalizeBill reopen a cancelled bill,    *)
(* and the safety part of ChargeOnce for every charge.                     *)
(*                                                                         *)
(* The argument is about locks.  LockInv: a row is locked by one handler,  *)
(* and what a request that holds the rows of its participants has read of  *)
(* them is what they still are.  ReqInv: a webhook or guest request knows  *)
(* its charge as it is, and a wallet payment past its check still finds    *)
(* its money, unless another payment raced it, and the bill not cancelled. *)
(***************************************************************************)
EXTENDS MCSplitBill, SumTheorems

ChargeRows == [state : {"none", "open", "paid"}, kind : {"user", "guest"}, payer : Users,
               targets : SUBSET Participants, amount : Nat]
Snapshots == {<< >>} \cup UNION {[s -> Participant] : s \in SUBSET Participants}
Requests == [op : Ops, payer : Users, targets : SUBSET Participants, amount : Nat,
             charge : Charges \cup {BillRow}, step : 0..3, funded : BOOLEAN, seen : Snapshots]
Tallies == [surplus : Nat, wiped : Int, stale : BOOLEAN, refunded : Nat, unfunded : Nat,
            raced : BOOLEAN, again : BOOLEAN]

\* A request that holds the rows of the participants it is about,
HoldsTargets(r) ==
    \/ r.op \in {"wallet", "card"} /\ r.step >= 2
    \/ r.op \in {"guestPay", "guestHook"} /\ r.step >= 1
    \/ r.op = "hook" /\ r.step >= 3

\* or that of the bill.
HoldsBill(r) ==
    \/ r.op \in {"wallet", "card"} /\ r.step >= 3
    \/ r.op \in {"guestPay", "guestHook", "hook"} /\ r.step >= 2
    \/ r.op = "cancel" /\ r.step >= 1

\* Requests about a charge that Paystack has taken the money of.
Charged == {"hook", "guestHook", "guestPay"}

IsGuests(targets) == \E g \in Guests : targets = {g}

RequestOK(r) ==
    /\ r \in Requests
    /\ HoldsTargets(r) \/ r.op = "link" => r.seen \in [r.targets -> Participant]
    /\ r.op \in {"guestPay", "guestHook", "link"} => IsGuests(r.targets)
    /\ r.op \in Charged => r.charge \in Charges
    /\ r.op = "none" => r = Idle
    /\ r.funded => r.op = "wallet" /\ r.step = 3

ChargeOK(k) == k \in ChargeRows /\ (k.kind = "guest" => IsGuests(k.targets))

RequestsOK == req \in [Handlers -> Requests] /\ \A h \in Handlers : RequestOK(req[h])
ChargesOK == charge \in [Charges -> ChargeRows] /\ \A c \in Charges : ChargeOK(charge[c])
BooksOK ==
    /\ bill \in [status : BillStatus, finalized : BOOLEAN, collected : Nat]
    /\ part \in [Participants -> Participant]
    /\ wallet \in [Users -> Nat] /\ escrow \in [Users -> Nat]
    /\ booked \in [Charges -> Nat] /\ tally \in Tallies
RestOK == links \subseteq Guests /\ acked \subseteq Charges /\ locks \in [Handlers -> SUBSET Rows]

TypeInv == BooksOK /\ RequestsOK /\ ChargesOK /\ RestOK

-----------------------------------------------------------------------------
(* Requests, their rows and the sums *)

\* The requests as they are served first.
LEMMA IdleRequest ==
    RequestOK(Idle) /\ Idle.op = "none" /\ Idle.step = 0 /\ Idle.funded = FALSE /\ Idle.charge = BillRow
<1>1. Creator \in Users /\ {} \in SUBSET Participants
  BY PeopleAssumption
<1>2. Idle \in Requests
  BY <1>1 DEF Idle, Requests, Ops, Snapshots
<1> QED
  BY <1>2 DEF RequestOK, Idle, HoldsTargets, Charged

\* The sums of the model are those of SumTheorems.
LEMMA Adds == \A f : Sum(f) = SumOf(f)
BY DEF Sum, SumOf

\* The rows that a request locks, in their order.
LEMMA Orders ==
    ASSUME NEW r
    PROVE  /\ r.op \in {"wallet", "card"} => LockOrder(r) = <<{r.payer}, r.targets, {BillRow}>>
           /\ r.op \in {"guestPay", "guestHook"} => LockOrder(r) = <<r.targets, {BillRow}>>
           /\ r.op = "hook" => LockOrder(r) = <<{r.charge}, {BillRow}, r.targets>>
           /\ r.op = "cancel" => LockOrder(r) = <<{BillRow}, Participants>>
           /\ r.op \in {"none", "link", "finalize"} => LockOrder(r) = << >>
BY DEF LockOrder

\* What a handler waits for.
LEMMA Waiting ==
    ASSUME NEW h \in Handlers, RequestOK(req[h]), Waits(h)
    PROVE  /\ req[h].op \in {"wallet", "card"} =>
                 \/ req[h].step = 0 /\ Wanted(h) = {req[h].payer}
                 \/ req[h].step = 1 /\ Wanted(h) = req[h].targets
                 \/ req[h].step = 2 /\ Wanted(h) = {BillRow}
           /\ req[h].op \in {"guestPay", "guestHook"} =>
                 \/ req[h].step = 0 /\ Wanted(h) = req[h].targets
                 \/ req[h].step = 1 /\ Wanted(h) = {BillRow}
           /\ req[h].op = "hook" =>
                 \/ req[h].step = 0 /\ Wanted(h) = {req[h].charge}
                 \/ req[h].step = 1 /\ Wanted(h) = {BillRow}
                 \/ req[h].step = 2 /\ Wanted(h) = req[h].targets
           /\ req[h].op = "cancel" =>
                 \/ req[h].step = 0 /\ Wanted(h) = {BillRow}
                 \/ req[h].step = 1 /\ Wanted(h) = Participants
           /\ req[h].op \notin {"none", "link", "finalize"}
<1>1. req[h].step \in 0..3 /\ req[h].op \in Ops
  BY DEF RequestOK, Requests
<1>2. req[h].step < Len(LockOrder(req[h])) /\ Wanted(h) = LockOrder(req[h])[req[h].step + 1]
  BY DEF Waits, Wanted
<1>3. CASE req[h].op \in {"wallet", "card"}
  BY <1>1, <1>2, <1>3, Orders
<1>4. CASE req[h].op \in {"guestPay", "guestHook"}
  BY <1>1, <1>2, <1>4, Orders
<1>5. CASE req[h].op = "hook"
  BY <1>1, <1>2, <1>5, Orders
<1>6. CASE req[h].op = "cancel"
  BY <1>1, <1>2, <1>6, Orders
<1>7. CASE req[h].op \in {"none", "link", "finalize"}
  BY <1>1, <1>2, <1>7, Orders
<1> QED
  BY <1>1, <1>3, <1>4, <1>5, <1>6, <1>7 DEF Ops

\* What a handler that has all its rows holds.
LEMMA ReadyHolds ==
    ASSUME NEW h \in Handlers, RequestOK(req[h]), NEW op \in Ops, Ready(h, op)
    PROVE  /\ req[h].op = op
           /\ op \in {"wallet", "card", "hook"} => req[h].step = 3
           /\ op \in {"guestPay", "guestHook", "cancel"} => req[h].step = 2 \/ req[h].step = 3
           /\ op \in {"wallet", "card", "guestPay", "guestHook", "hook"} => HoldsTargets(req[h])
           /\ op \in {"wallet", "card", "guestPay", "guestHook", "hook", "cancel"} => HoldsBill(req[h])
<1>1. req[h].step \in 0..3 /\ req[h].op = op /\ ~ (req[h].step < Len(LockOrder(req[h])))
  BY DEF RequestOK, Requests, Ready, Waits
<1>2. op \in {"wallet", "card", "hook"} => req[h].step = 3
  BY <1>1, Orders
<1>3. op \in {"guestPay", "guestHook", "cancel"} => req[h].step = 2 \/ req[h].step = 3
  <2>1. CASE op \in {"guestPay", "guestHook"}
    BY <1>1, <2>1, Orders
  <2>2. CASE op = "cancel"
    <3>1. LockOrder(req[h]) = <<{BillRow}, Participants>>
      BY <1>1, <2>2, Orders
    <3>2. Len(LockOrder(req[h])) = 2
      BY <3>1
    <3> QED
      BY <1>1, <3>2
  <2> QED
    BY <2>1, <2>2
<1> QED
  BY <1>1, <1>2, <1>3 DEF HoldsTargets, HoldsBill

\* A handler is given a request.
LEMMA GivenRequest ==
    ASSUME RequestsOK, NEW h \in Handlers, NEW r, RequestOK(r), req' = [req EXCEPT ![h] = r]
    PROVE  /\ RequestsOK' /\ req'[h] = r
           /\ \A x \in Handlers \ {h} : req'[x] = req[x]
<1>1. r \in Requests
  BY DEF RequestOK
<1>2. /\ req' \in [Handlers -> Requests] /\ req'[h] = r
      /\ \A x \in Handlers \ {h} : req'[x] = req[x]
  BY <1>1 DEF RequestsOK
<1>3. \A x \in Handlers : RequestOK(req'[x])
  BY <1>2 DEF RequestsOK
<1> QED
  BY <1>2, <1>3 DEF RequestsOK

-----------------------------------------------------------------------------
(* What a step can do *)

\* A request that a step starts is about its charge as it is.
KnowsCharge(r) ==
    r.op \in Charged =>
        /\ charge[r.charge].state = "paid"
        /\ charge[r.charge].amount = r.amount /\ charge[r.charge].targets = r.targets

Starts(h) ==
    /\ UNCHANGED <<money, links, charge, locks, acked>>
    /\ req[h] = Idle
    /\ \E r : /\ req' = [req EXCEPT ![h] = r] /\ RequestOK(r) /\ r.step = 0 /\ r.funded = FALSE
              /\ KnowsCharge(r)
Leaves(h) == Ends(h) /\ UNCHANGED <<money, links, charge>> /\ acked' \subseteq Charges
Passes(h) ==
    /\ CheckWallet(h) /\ ~PayRefused(req[h]) /\ ~ (wallet[req[h].payer] < req[h].amount)
    /\ req' = [req EXCEPT ![h].funded = TRUE] /\ UNCHANGED <<money, links, paystack, locks>>
Opens(h) == OpenCardCharge(h) /\ ~NoChargeLeft /\ ~PayRefused(req[h])
BooksCard(h) ==
    LET r == req[h]
        debts == [p \in r.targets |-> Debt(r.seen[p])]
    IN /\ Ready(h, "hook") /\ booked[r.charge] = 0
       /\ \E d \in Allocations(r.amount, r.payer, debts) : part' = PayRows(r.seen, d, 1)
       /\ tally' = [tally EXCEPT !.surplus = @ + (r.amount - Lesser(r.amount, Sum(debts))),
                                 !.again = CancelledBefore]
       /\ bill' = Collect(r.amount)
       /\ booked' = [booked EXCEPT ![r.charge] = @ + 1]
       /\ acked' = acked \cup {r.charge}
       /\ Ends(h) /\ UNCHANGED <<wallet, escrow, links, charge>>
BooksGuest(h) ==
    /\ Ready(h, "guestHook") \/ (Ready(h, "guestPay") /\ bill.status # "cancelled")
    /\ \E tolerance : BookGuest(h, tolerance)
    /\ acked' \subseteq Charges
Cancels(h) == RefundAndCancel(h) /\ bill.status # "cancelled" /\ ~ (wallet[Creator] < Paid)
Elsewhere ==
    \/ \E c \in Charges : PayAtPaystack(c)
    \/ \E u \in Users : Spend(u)
    \/ \E g \in Guests : LinkExpires(g)
    \/ UNCHANGED vars

Steps ==
    \/ \E h \in Handlers :
          \/ Starts(h) \/ Acquire(h) \/ Leaves(h) \/ Passes(h) \/ PayFromWallet(h) \/ Opens(h)
          \/ BooksCard(h) \/ BooksGuest(h) \/ SaveLink(h) \/ WriteFinalized(h) \/ Cancels(h)
    \/ Elsewhere

\* What a request about a charge knows of it.
RequestFor(r, c, op) ==
    /\ r \in Requests /\ r.op = op /\ r.step = 0 /\ r.funded = FALSE
    /\ r.charge = c /\ r.amount = charge[c].amount /\ r.targets = charge[c].targets

\* A request that settles a charge is one for its participant and amount.
LEMMA ForChargeIs ==
    ASSUME ChargesOK, NEW c \in Charges, NEW op \in Ops
    PROVE  RequestFor(ForCharge(c, op), c, op)
<1> SUFFICES ASSUME NEW r, r = ForCharge(c, op) PROVE RequestFor(r, c, op)
  OBVIOUS
<1>1. r = [op |-> op, payer |-> charge[c].payer, targets |-> charge[c].targets,
           amount |-> charge[c].amount, charge |-> c, step |-> 0, funded |-> FALSE, seen |-> << >>]
  BY DEF ForCharge, Idle
<1>2. charge[c] \in ChargeRows
  BY DEF ChargesOK
<1>3. charge[c].payer \in Users /\ charge[c].targets \in SUBSET Participants /\ charge[c].amount \in Nat
  BY <1>2 DEF ChargeRows
<1> QED
  BY <1>1, <1>3 DEF Requests, Snapshots, RequestFor

\* The requests of users and the deliveries of webhooks start a handler.
LEMMA AskStarts ==
    ASSUME TypeInv, NEW h \in Handlers, Ask(h)
    PROVE  Starts(h)
<1>1. SUFFICES ASSUME NEW r, Begin(h, r), RequestOK(r), r.step = 0, r.funded = FALSE,
                      KnowsCharge(r), UNCHANGED acked
               PROVE  Starts(h)
  <2>1. CASE payBillShare(h)
    <3>1. PICK group \in Groups, payer \in Users, amount \in Amounts, op \in {"wallet", "card"} :
             BeginRequest(h, [Idle EXCEPT !.op = op, !.payer = payer, !.targets = group, !.amount = amount])
      BY <2>1 DEF payBillShare
    <3>2. group \in SUBSET Participants /\ amount \in Nat /\ op \in Ops
      BY PeopleAssumption, AmountsAssumption DEF Ops
    <3>3. ASSUME NEW r, r = [Idle EXCEPT !.op = op, !.payer = payer, !.targets = group, !.amount = amount]
          PROVE  RequestOK(r) /\ r.step = 0 /\ r.funded = FALSE /\ KnowsCharge(r)
      <4>1. r = [op |-> op, payer |-> payer, targets |-> group, amount |-> amount, charge |-> BillRow,
                 step |-> 0, funded |-> FALSE, seen |-> << >>]
        BY <3>3 DEF Idle
      <4>2. r \in Requests /\ r.op = op /\ r.step = 0 /\ r.funded = FALSE
        BY <3>2, <4>1 DEF Snapshots, Requests
      <4> QED
        BY <4>2 DEF RequestOK, KnowsCharge, HoldsTargets, Charged
    <3> QED
      BY <1>1, <3>1, <3>3 DEF BeginRequest
  <2>2. CASE guestPayBillShare(h)
    <3>1. PICK c \in Charges : /\ charge[c].state = "paid" /\ charge[c].kind = "guest"
                               /\ BeginRequest(h, ForCharge(c, "guestPay"))
      BY <2>2 DEF guestPayBillShare
    <3>2. ASSUME NEW r, r = ForCharge(c, "guestPay")
          PROVE  RequestOK(r) /\ r.step = 0 /\ r.funded = FALSE /\ KnowsCharge(r)
      <4>1. ChargeOK(charge[c]) /\ charge[c] \in ChargeRows /\ ChargesOK
        BY DEF TypeInv, ChargesOK
      <4>2. /\ r \in Requests /\ r.op = "guestPay" /\ r.step = 0 /\ r.funded = FALSE
            /\ r.charge = c /\ r.amount = charge[c].amount /\ r.targets = charge[c].targets
        <5>1. RequestFor(r, c, "guestPay")
          BY <3>2, <4>1, ForChargeIs DEF Ops
        <5> QED
          BY <5>1 DEF RequestFor
      <4> QED
        BY <3>1, <4>1, <4>2 DEF RequestOK, KnowsCharge, HoldsTargets, Charged, ChargeOK
    <3> QED
      BY <1>1, <3>1, <3>2 DEF BeginRequest
  <2>3. CASE generateGuestPaymentLink(h)
    <3>1. PICK g \in Guests \ links :
             BeginRequest(h, [Idle EXCEPT !.op = "link", !.targets = {g}, !.seen = [p \in {g} |-> part[p]],
                                          !.amount = part[g].remaining])
      BY <2>3 DEF generateGuestPaymentLink
    <3> DEFINE seen == [p \in {g} |-> part[p]]
    <3>2. g \in Participants /\ part[g] \in Participant
      BY DEF TypeInv, BooksOK, Participants
    <3>3. seen \in [{g} -> Participant] /\ {g} \in SUBSET Participants /\ part[g].remaining \in Nat
      BY <3>2 DEF Participant
    <3>4. seen \in Snapshots
      BY <3>3 DEF Snapshots
    <3>5. ASSUME NEW r, r = [Idle EXCEPT !.op = "link", !.targets = {g}, !.seen = seen,
                                         !.amount = part[g].remaining]
          PROVE  RequestOK(r) /\ r.step = 0 /\ r.funded = FALSE /\ KnowsCharge(r)
      <4> HIDE DEF seen
      <4>1. /\ r \in Requests /\ r.op = "link" /\ r.step = 0 /\ r.funded = FALSE
            /\ r.seen = seen /\ r.targets = {g}
        <5>1. Creator \in Users /\ "link" \in Ops
          BY PeopleAssumption DEF Ops
        <5>2. r = [op |-> "link", payer |-> Creator, targets |-> {g}, amount |-> part[g].remaining,
                   charge |-> BillRow, step |-> 0, funded |-> FALSE, seen |-> seen]
          BY <3>5 DEF Idle
        <5> QED
          BY <3>3, <3>4, <5>1, <5>2 DEF Requests
      <4> QED
        BY <3>3, <4>1 DEF RequestOK, KnowsCharge, Charged, IsGuests
    <3> QED
      BY <1>1, <3>1, <3>5 DEF BeginRequest
  <2>4. ASSUME NEW op \in {"finalize", "cancel"}, BeginRequest(h, [Idle EXCEPT !.op = op])
        PROVE  Starts(h)
    <3>1. ASSUME NEW r, r = [Idle EXCEPT !.op = op]
          PROVE  RequestOK(r) /\ r.step = 0 /\ r.funded = FALSE /\ KnowsCharge(r)
      <4>1. r = [op |-> op, payer |-> Creator, targets |-> {}, amount |-> 0, charge |-> BillRow,
                 step |-> 0, funded |-> FALSE, seen |-> << >>]
        BY <3>1 DEF Idle
      <4>2. r \in Requests /\ r.op = op /\ r.step = 0 /\ r.funded = FALSE
        BY <4>1, PeopleAssumption DEF Snapshots, Requests, Ops
      <4> QED
        BY <4>2 DEF RequestOK, KnowsCharge, HoldsTargets, Charged
    <3> QED
      BY <1>1, <2>4, <3>1 DEF BeginRequest
  <2> QED
    BY <2>1, <2>2, <2>3, <2>4 DEF Ask, finalizeBill, cancelBill
<1> QED
  BY <1>1 DEF Begin, Starts

\* Delivering a webhook starts a handler.
LEMMA DeliverStarts ==
    ASSUME TypeInv, NEW h \in Handlers, NEW c \in Charges, Deliver(h, c)
    PROVE  Starts(h)
<1> DEFINE op == IF charge[c].kind = "user" THEN "hook" ELSE "guestHook"
<1>1. charge[c].state = "paid" /\ Begin(h, ForCharge(c, op)) /\ UNCHANGED acked
  BY DEF Deliver
<1>2. op \in {"hook", "guestHook"} /\ op \in Ops
  BY DEF Ops
<1>3. ChargeOK(charge[c]) /\ charge[c] \in ChargeRows /\ ChargesOK
  BY DEF TypeInv, ChargesOK
<1>4. op = "guestHook" => IsGuests(charge[c].targets)
  BY <1>3 DEF ChargeOK, ChargeRows
<1> HIDE DEF op
<1>5. ASSUME NEW r, r = ForCharge(c, op)
      PROVE  RequestOK(r) /\ r.step = 0 /\ r.funded = FALSE /\ KnowsCharge(r)
  <2>1. /\ r \in Requests /\ r.op = op /\ r.step = 0 /\ r.funded = FALSE
        /\ r.charge = c /\ r.amount = charge[c].amount /\ r.targets = charge[c].targets
    BY <1>2, <1>3, <1>5, ForChargeIs DEF RequestFor
  <2> QED
    BY <1>1, <1>2, <1>4, <2>1 DEF RequestOK, KnowsCharge, HoldsTargets, Charged
<1> QED
  BY <1>1, <1>5 DEF Begin, Starts

\* What a handler does next.
LEMMA ServeSteps ==
    ASSUME TypeInv, NEW h \in Handlers, Serve(h) \/ Fails(h)
    PROVE  \/ Acquire(h) \/ Leaves(h) \/ Passes(h) \/ PayFromWallet(h) \/ Opens(h)
           \/ BooksCard(h) \/ BooksGuest(h) \/ SaveLink(h) \/ WriteFinalized(h) \/ Cancels(h)
<1>1. acked \subseteq Charges /\ RequestOK(req[h])
  BY DEF TypeInv, RestOK, RequestsOK
<1>2. Refuses(h) => Leaves(h)
  BY <1>1 DEF Refuses, Leaves, paystack
<1>3. req[h].op \in Charged => req[h].charge \in Charges
  BY <1>1 DEF RequestOK
<1>4. CASE Fails(h)
  BY <1>1, <1>4 DEF Fails, Leaves, paystack
<1>5. CASE Victim(h) \/ LinkFails(h)
  BY <1>2, <1>5 DEF Victim, LinkFails
<1>6. CASE CheckWallet(h)
  BY <1>2, <1>6 DEF CheckWallet, Passes
<1>7. CASE OpenCardCharge(h)
  BY <1>2, <1>7 DEF OpenCardCharge, Opens
<1>8. ASSUME NEW op \in {"hook", "guestHook"}, AlreadyProcessed(h, op) PROVE Leaves(h)
  BY <1>1, <1>3, <1>8 DEF AlreadyProcessed, Leaves, Charged
<1>9. CASE processBillPaymentWebhook(h)
  BY <1>8, <1>9 DEF processBillPaymentWebhook, BooksCard
<1>10. CASE processGuestBillPaymentWebhook(h)
  <2>1. CASE Ready(h, "guestHook") /\ BookGuest(h, 1) /\ acked' = acked \cup {req[h].charge}
    <3>1. req[h].charge \in Charges
      BY <1>3, <2>1 DEF Ready, Charged
    <3> QED
      BY <1>1, <2>1, <3>1 DEF BooksGuest
  <2> QED
    BY <1>2, <1>8, <1>10, <2>1 DEF processGuestBillPaymentWebhook
<1>11. CASE BookGuestPayment(h)
  BY <1>1, <1>2, <1>11 DEF BookGuestPayment, BooksGuest
<1>12. CASE RefundAndCancel(h)
  BY <1>2, <1>12 DEF RefundAndCancel, Cancels
<1> QED
  BY <1>4, <1>5, <1>6, <1>7, <1>9, <1>10, <1>11, <1>12 DEF Serve

\* Every step is of one of these kinds.
LEMMA NextSteps ==
    ASSUME TypeInv, [Next]_vars
    PROVE  Steps
<1>1. ASSUME NEW h \in Handlers, Ask(h) PROVE Steps
  BY <1>1, AskStarts DEF Steps
<1>2. ASSUME NEW h \in Handlers, Serve(h) \/ Fails(h) PROVE Steps
  BY <1>2, ServeSteps DEF Steps
<1>3. ASSUME NEW h \in Handlers, NEW c \in Charges, Deliver(h, c) PROVE Steps
  BY <1>3, DeliverStarts DEF Steps
<1>4. CASE Elsewhere
  BY <1>4 DEF Steps
<1> QED
  BY <1>1, <1>2, <1>3, <1>4 DEF Next, Elsewhere

-----------------------------------------------------------------------------
(* What the writes do *)

\* The sums are over naturals.
LEMMA PaidType == part \in [Participants -> Participant] => Paid \in Nat
<1> SUFFICES ASSUME part \in [Participants -> Participant] PROVE Paid \in Nat
  OBVIOUS
<1> DEFINE f == [p \in Participants |-> part[p].paid]
<1>1. f \in [Participants -> Nat]
  BY DEF Participant
<1>2. Paid = SumOf(f)
  BY Adds DEF Paid
<1> HIDE DEF f
<1> QED
  BY <1>1, <1>2, SumNat, FiniteAssumption

\* What is allocated to the debts of some participants.
LEMMA AllocationIs ==
    ASSUME NEW targets \in SUBSET Participants, NEW debts \in [targets -> Nat],
           NEW amount \in Nat, NEW payer, NEW d \in Allocations(amount, payer, debts)
    PROVE  /\ d \in [targets -> Nat] /\ \A p \in targets : d[p] <= debts[p]
           /\ Sum(debts) \in Nat
           /\ Sum(d) = Lesser(amount, Sum(debts))
<1>1. DOMAIN debts = targets
  OBVIOUS
<1>2. /\ d \in [targets -> 0..amount] /\ \A p \in targets : d[p] <= debts[p]
      /\ Sum(d) = Lesser(amount, Sum(debts))
  BY <1>1 DEF Allocations
<1>3. d \in [targets -> Nat]
  BY <1>2
<1>4. IsFiniteSet(targets)
  BY FS_Subset, FiniteAssumption
<1>5. Sum(debts) \in Nat
  BY <1>4, SumNat, Adds
<1> QED
  BY <1>2, <1>3, <1>5

\* A payment changes the rows of its participants and no other.
LEMMA PaidRows ==
    ASSUME part \in [Participants -> Participant], NEW targets \in SUBSET Participants,
           NEW seen \in [targets -> Participant], NEW d \in [targets -> Nat], NEW tolerance,
           part' = PayRows(seen, d, tolerance)
    PROVE  /\ part' \in [Participants -> Participant]
           /\ \A p \in Participants \ targets : part'[p] = part[p]
           /\ \A p \in targets : IF d[p] > 0 THEN part'[p].paid = seen[p].paid + d[p]
                                             ELSE part'[p] = part[p]
<1>1. DOMAIN d = targets
  OBVIOUS
<1>2. ASSUME NEW p \in targets
      PROVE  /\ PayRow(seen[p], d[p], tolerance) \in Participant
             /\ PayRow(seen[p], d[p], tolerance).paid = seen[p].paid + d[p]
  <2>1. seen[p].paid \in Nat /\ Share \in Nat
    BY AmountsAssumption DEF Participant
  <2> DEFINE paid == seen[p].paid + d[p]
             left == IF Share > paid THEN Share - paid ELSE 0
             remaining == IF left < tolerance THEN 0 ELSE left
             status == IF left < tolerance THEN "paid" ELSE "partial"
  <2>2. paid \in Nat /\ remaining \in Nat /\ status \in PartStatus
    BY <2>1 DEF PartStatus
  <2>3. PayRow(seen[p], d[p], tolerance) = [paid |-> paid, remaining |-> remaining, status |-> status]
    BY DEF PayRow
  <2> HIDE DEF paid, remaining, status
  <2>4. /\ PayRow(seen[p], d[p], tolerance) \in Participant
        /\ PayRow(seen[p], d[p], tolerance).paid = paid
    BY <2>2, <2>3 DEF Participant
  <2> QED
    BY <2>4 DEF paid
<1>3. part' = [p \in Participants |->
                 IF p \in targets /\ d[p] > 0 THEN PayRow(seen[p], d[p], tolerance) ELSE part[p]]
  BY <1>1 DEF PayRows
<1>4. ASSUME NEW p \in Participants
      PROVE  part'[p] = IF p \in targets /\ d[p] > 0 THEN PayRow(seen[p], d[p], tolerance) ELSE part[p]
  BY <1>3
<1>5. part' \in [Participants -> Participant]
  BY <1>2, <1>3
<1> QED
  BY <1>2, <1>4, <1>5

\* What a participant still owes.
LEMMA DebtIs ==
    ASSUME NEW row \in Participant
    PROVE  Debt(row) \in Nat /\ (Debt(row) > 0 => row.paid + Debt(row) = Share)
BY AmountsAssumption DEF Debt, Participant

\* A bill that collects a payment is not cancelled.
LEMMA CollectIs ==
    ASSUME bill \in [status : BillStatus, finalized : BOOLEAN, collected : Nat], NEW amount \in Nat,
           bill' = Collect(amount)
    PROVE  /\ bill' \in [status : BillStatus, finalized : BOOLEAN, collected : Nat]
           /\ bill'.status # "cancelled" /\ bill'.collected = bill.collected + amount
<1> DEFINE status == IF bill.collected + amount >= Total THEN "funded" ELSE "partially_paid"
<1>1. bill' = [status |-> status, finalized |-> bill.finalized, collected |-> bill.collected + amount]
  BY DEF Collect
<1>2. status \in BillStatus /\ status # "cancelled"
  BY DEF BillStatus
<1> HIDE DEF status
<1> QED
  BY <1>1, <1>2

\* Taking a row moves a request one step on.
LEMMA Acquires ==
    ASSUME TypeInv, NEW h \in Handlers, Acquire(h)
    PROVE  /\ RequestsOK' /\ \A x \in Handlers \ {h} : req'[x] = req[x]
           /\ req'[h].op = req[h].op /\ req'[h].payer = req[h].payer
           /\ req'[h].targets = req[h].targets /\ req'[h].amount = req[h].amount
           /\ req'[h].charge = req[h].charge /\ req'[h].funded = req[h].funded
           /\ req'[h].step = req[h].step + 1
           /\ req'[h].seen = IF Wanted(h) \subseteq Participants
                             THEN [p \in req[h].targets |-> part[p]] ELSE req[h].seen
           /\ req[h].funded = FALSE
<1>1. RequestOK(req[h]) /\ req[h] \in Requests /\ Waits(h) /\ req[h].op # "none"
  <2>1. RequestOK(req[h]) /\ Waits(h)
    BY DEF Acquire, TypeInv, RequestsOK
  <2> QED
    BY <2>1, Waiting DEF RequestOK
<1> DEFINE seen == IF Wanted(h) \subseteq Participants
                   THEN [p \in req[h].targets |-> part[p]] ELSE req[h].seen
           r == [op |-> req[h].op, payer |-> req[h].payer, targets |-> req[h].targets,
                 amount |-> req[h].amount, charge |-> req[h].charge, step |-> req[h].step + 1,
                 funded |-> req[h].funded, seen |-> seen]
<1>2. req' = [req EXCEPT ![h] = r]
  <2>1. req \in [Handlers -> Requests]
    BY DEF TypeInv, RequestsOK
  <2>2. req' = [req EXCEPT ![h] = [[req[h] EXCEPT !.step = @ + 1] EXCEPT !.seen = seen]]
    BY <2>1 DEF Acquire
  <2>3. ASSUME NEW l, l = [[req[h] EXCEPT !.step = @ + 1] EXCEPT !.seen = seen]
        PROVE  l = r
    BY <1>1, <2>3 DEF Requests
  <2> HIDE DEF r, seen
  <2> QED
    BY <2>2, <2>3
<1>3. req[h].step + 1 \in 0..3 /\ req[h].funded = FALSE
  <2>1. req[h].step \in 0..3 /\ req[h].op \in Ops
    BY <1>1 DEF Requests
  <2>2. req[h].step \in 0..2
    BY <1>1, <2>1, Waiting DEF Ops
  <2>3. req[h].funded \in BOOLEAN /\ (req[h].funded => req[h].step = 3)
    BY <1>1 DEF RequestOK, Requests
  <2> QED
    BY <2>2, <2>3
<1>4. [p \in req[h].targets |-> part[p]] \in [req[h].targets -> Participant]
      /\ req[h].targets \in SUBSET Participants
  BY <1>1 DEF TypeInv, BooksOK, Requests
<1>5. seen \in Snapshots
  BY <1>1, <1>4 DEF Snapshots, Requests
<1>6. r \in Requests
  <2> HIDE DEF seen
  <2> QED
    BY <1>1, <1>3, <1>5 DEF Requests
<1>7. HoldsTargets(r) => seen \in [req[h].targets -> Participant]
  <2>1. CASE Wanted(h) \subseteq Participants
    BY <1>4, <2>1
  <2>2. CASE ~ (Wanted(h) \subseteq Participants)
    <3>1. HoldsTargets(r) => HoldsTargets(req[h])
      <4>1. Users \subseteq Participants /\ req[h].payer \in Users /\ req[h].step \in 0..3
        BY <1>1 DEF Participants, Requests
      <4> QED
        BY <1>1, <1>4, <2>2, <4>1, Waiting DEF HoldsTargets
    <3> QED
      BY <1>1, <2>2, <3>1 DEF RequestOK
  <2> QED
    BY <2>1, <2>2
<1>8. RequestOK(r)
  BY <1>1, <1>3, <1>6, <1>7, Waiting DEF RequestOK
<1> HIDE DEF r, seen
<1>9. RequestsOK' /\ req'[h] = r /\ \A x \in Handlers \ {h} : req'[x] = req[x]
  BY <1>2, <1>8, GivenRequest DEF TypeInv
<1> QED
  BY <1>3, <1>9 DEF r, seen

\* A handler that commits or rolls back is idle and holds no rows.
LEMMA Frees ==
    ASSUME RequestsOK, locks \in [Handlers -> SUBSET Rows], NEW h \in Handlers, Ends(h)
    PROVE  /\ RequestsOK' /\ req'[h] = Idle /\ \A x \in Handlers \ {h} : req'[x] = req[x]
           /\ locks' \in [Handlers -> SUBSET Rows]
           /\ locks'[h] = {} /\ \A x \in Handlers \ {h} : locks'[x] = locks[x]
<1>1. req' = [req EXCEPT ![h] = Idle] /\ locks' = [locks EXCEPT ![h] = {}]
  BY DEF Ends
<1>2. RequestsOK' /\ req'[h] = Idle /\ \A x \in Handlers \ {h} : req'[x] = req[x]
  BY <1>1, IdleRequest, GivenRequest
<1> QED
  BY <1>1, <1>2

\* A payment of d adds up to d when the rows are as they were read.
LEMMA PaidGrows ==
    ASSUME part \in [Participants -> Participant], NEW targets \in SUBSET Participants,
           NEW seen \in [targets -> Participant], NEW d \in [targets -> Nat], NEW tolerance,
           \A p \in targets : seen[p] = part[p], part' = PayRows(seen, d, tolerance)
    PROVE  Paid' = Paid + Sum(d)
<1> DEFINE f == [p \in Participants |-> part[p].paid]
           g == [p \in Participants |-> part'[p].paid]
           e == [p \in Participants |-> IF p \in targets THEN d[p] ELSE 0]
<1>1. part' \in [Participants -> Participant]
  BY PaidRows
<1>2. f \in [Participants -> Int] /\ g \in [Participants -> Int] /\ e \in [Participants -> Int]
      /\ d \in [targets -> Int]
  BY <1>1 DEF Participant
<1>3. ASSUME NEW p \in Participants PROVE g[p] = f[p] + e[p]
  <2>1. part[p].paid \in Nat /\ f[p] = part[p].paid /\ g[p] = part'[p].paid
    BY DEF Participant
  <2>2. CASE p \in targets
    <3>1. d[p] \in Nat /\ e[p] = d[p]
      BY <2>2
    <3>2. IF d[p] > 0 THEN part'[p].paid = seen[p].paid + d[p] ELSE part'[p] = part[p]
      BY <2>2, PaidRows
    <3> HIDE DEF e, f, g
    <3> QED
      BY <2>1, <2>2, <3>1, <3>2
  <2>3. CASE p \notin targets
    <3>1. e[p] = 0 /\ part'[p] = part[p]
      BY <2>3, PaidRows
    <3> HIDE DEF e, f, g
    <3> QED
      BY <2>1, <3>1
  <2> QED
    BY <2>2, <2>3
<1>4. \A p \in Participants : e[p] = IF p \in targets THEN d[p] ELSE 0
  OBVIOUS
<1>5. Paid = SumOf(f) /\ Paid' = SumOf(g)
  BY Adds DEF Paid
<1> HIDE DEF e, f, g
<1>6. SumOf(e) = SumOf(d)
  BY <1>2, <1>4, SumExtend, FiniteAssumption
<1>7. SumOf(g) = SumOf(f) + SumOf(e)
  BY <1>2, <1>3, SumPlus, FiniteAssumption
<1> QED
  BY <1>5, <1>6, <1>7, Adds

\* Nobody with an account pays more than the share, if nobody is given more than
\* the debt.
LEMMA NobodyOverpays ==
    ASSUME part \in [Participants -> Participant], NEW targets \in SUBSET Participants,
           NEW seen \in [targets -> Participant], NEW d \in [targets -> Nat], NEW tolerance,
           part' = PayRows(seen, d, tolerance), UsersNeverOverpay,
           \A p \in targets \cap Users : d[p] > 0 => d[p] <= Debt(seen[p])
    PROVE  UsersNeverOverpay'
<1> SUFFICES ASSUME NEW u \in Users PROVE part'[u].paid <= Share
  BY DEF UsersNeverOverpay
<1>1. u \in Participants /\ part[u].paid <= Share
  BY DEF UsersNeverOverpay, Participants
<1>2. CASE u \in targets /\ d[u] > 0
  <2>1. part'[u].paid = seen[u].paid + d[u]
    BY <1>2, PaidRows
  <2>2. seen[u] \in Participant /\ seen[u].paid \in Nat /\ d[u] \in Nat
    BY <1>2 DEF Participant
  <2>3. d[u] <= Debt(seen[u]) /\ Debt(seen[u]) \in Nat
        /\ (Debt(seen[u]) > 0 => seen[u].paid + Debt(seen[u]) = Share)
    BY <1>2, <2>2, DebtIs
  <2> QED
    BY <1>2, <2>1, <2>2, <2>3, AmountsAssumption
<1>3. CASE ~ (u \in targets /\ d[u] > 0)
  <2>1. part'[u] = part[u]
    BY <1>1, <1>3, PaidRows
  <2> QED
    BY <1>1, <2>1
<1> QED
  BY <1>2, <1>3

-----------------------------------------------------------------------------
(* The inductive invariant *)

\* A row is locked by one handler at a time; a request that has locked the bill
\* or its participants holds those rows, and has read what is in them.
LockInv ==
    /\ \A h, x \in Handlers : h # x => locks[h] \cap locks[x] = {}
    /\ \A h \in Handlers : HoldsBill(req[h]) => BillRow \in locks[h]
    /\ \A h \in Handlers :
          HoldsTargets(req[h]) =>
              /\ req[h].targets \subseteq locks[h]
              /\ \A p \in req[h].targets : req[h].seen[p] = part[p]

\* A payment from a wallet past its check: no more than the debts, the bill not
\* cancelled, and the money there unless another payment took it since.
Funded(r) ==
    /\ r.amount <= Sum(Debts(r.seen)) /\ bill.status # "cancelled"
    /\ ~ (wallet[r.payer] < r.amount) \/ tally.raced

ReqInv ==
    /\ \A h \in Handlers : KnowsCharge(req[h])
    /\ \A c \in Charges : /\ booked[c] \in {0, 1}
                          /\ booked[c] = 1 => charge[c].state = "paid"
    /\ \A h \in Handlers : req[h].funded => Funded(req[h])

Inv == TypeInv /\ LockInv /\ ReqInv

\* What a payment from a wallet does.
LEMMA PaysFromWallet ==
    ASSUME Inv, NEW h \in Handlers, PayFromWallet(h)
    PROVE  /\ BooksOK' /\ RequestsOK' /\ RestOK'
           /\ bill'.collected = bill.collected + req[h].amount /\ bill'.status # "cancelled"
           /\ Paid' = Paid + req[h].amount
           /\ UsersNeverOverpay => UsersNeverOverpay'
           /\ \A p \in Participants \ req[h].targets : part'[p] = part[p]
           /\ HoldsBill(req[h]) /\ HoldsTargets(req[h])
           /\ tally'.surplus = tally.surplus /\ tally'.wiped = tally.wiped
           /\ tally'.raced = tally.raced
           /\ \/ Sum(escrow') = Sum(escrow) + req[h].amount /\ tally'.unfunded = tally.unfunded
              \/ escrow' = escrow /\ tally.raced /\ tally'.unfunded = tally.unfunded + req[h].amount
<1> DEFINE r == req[h]
<1>1. /\ r \in Requests /\ RequestOK(r) /\ Ready(h, "wallet") /\ r.funded /\ Ends(h)
      /\ LockIntoEscrow(r.payer, r.amount) /\ bill' = Collect(r.amount)
      /\ \E d \in Allocations(r.amount, r.payer, Debts(r.seen)) : part' = PayRows(r.seen, d, Naira)
  BY DEF PayFromWallet, Inv, TypeInv, RequestsOK
<1>2. r.op = "wallet" /\ HoldsTargets(r) /\ HoldsBill(r)
  BY <1>1, ReadyHolds DEF Ops
<1>3. /\ r.targets \in SUBSET Participants /\ r.amount \in Nat /\ r.payer \in Users
      /\ r.seen \in [r.targets -> Participant]
  BY <1>1, <1>2 DEF RequestOK, Requests
<1>4. \A p \in r.targets : r.seen[p] = part[p]
  BY <1>2 DEF Inv, LockInv
<1>5. r.amount <= Sum(Debts(r.seen)) /\ (~ (wallet[r.payer] < r.amount) \/ tally.raced)
  BY <1>1 DEF Inv, ReqInv, Funded
<1> HIDE DEF r
<1>6. PICK d \in Allocations(r.amount, r.payer, Debts(r.seen)) : part' = PayRows(r.seen, d, Naira)
  BY <1>1
<1>7. Debts(r.seen) \in [r.targets -> Nat]
      /\ \A p \in r.targets : Debts(r.seen)[p] <= Debt(r.seen[p])
  <2>1. \A p \in r.targets : Debt(r.seen[p]) \in Nat
    BY <1>3, DebtIs
  <2> QED
    BY <1>3, <2>1 DEF Debts
<1>8. /\ d \in [r.targets -> Nat] /\ \A p \in r.targets : d[p] <= Debts(r.seen)[p]
      /\ Sum(Debts(r.seen)) \in Nat
      /\ Sum(d) = Lesser(r.amount, Sum(Debts(r.seen)))
  <2> DEFINE debts == Debts(r.seen)
  <2>1. d \in Allocations(r.amount, r.payer, debts) /\ debts \in [r.targets -> Nat]
    BY <1>7
  <2> HIDE DEF debts
  <2>2. /\ d \in [r.targets -> Nat] /\ \A p \in r.targets : d[p] <= debts[p]
        /\ Sum(debts) \in Nat /\ Sum(d) = Lesser(r.amount, Sum(debts))
    BY <1>3, <2>1, AllocationIs
  <2> QED
    BY <2>2 DEF debts
<1>9. Sum(d) = r.amount
  BY <1>3, <1>5, <1>8 DEF Lesser
<1>10. BooksOK
  BY DEF Inv, TypeInv
<1>11. Paid' = Paid + r.amount
  BY <1>3, <1>4, <1>6, <1>8, <1>9, <1>10, PaidGrows DEF BooksOK
<1>12. UsersNeverOverpay => UsersNeverOverpay'
  <2>1. \A p \in r.targets \cap Users : d[p] > 0 => d[p] <= Debt(r.seen[p])
    <3>1. \A p \in r.targets : Debt(r.seen[p]) \in Nat
      BY <1>3, DebtIs
    <3> QED
      BY <1>7, <1>8, <3>1
  <2> QED
    BY <1>3, <1>6, <1>8, <1>10, <2>1, NobodyOverpays DEF BooksOK
<1>13. /\ part' \in [Participants -> Participant]
       /\ \A p \in Participants \ r.targets : part'[p] = part[p]
  BY <1>3, <1>6, <1>8, <1>10, PaidRows DEF BooksOK
<1>14. /\ bill' \in [status : BillStatus, finalized : BOOLEAN, collected : Nat]
       /\ bill'.status # "cancelled" /\ bill'.collected = bill.collected + r.amount
  BY <1>1, <1>3, <1>10, CollectIs DEF BooksOK, r
<1>15. /\ wallet' \in [Users -> Nat] /\ escrow' \in [Users -> Nat] /\ tally' \in Tallies
       /\ tally'.surplus = tally.surplus /\ tally'.wiped = tally.wiped /\ tally'.raced = tally.raced
       /\ \/ Sum(escrow') = Sum(escrow) + r.amount /\ tally'.unfunded = tally.unfunded
          \/ escrow' = escrow /\ tally.raced /\ tally'.unfunded = tally.unfunded + r.amount
  <2>1. CASE wallet[r.payer] >= r.amount
    <3>1. /\ wallet' = [wallet EXCEPT ![r.payer] = @ - r.amount]
          /\ escrow' = [escrow EXCEPT ![r.payer] = @ + r.amount] /\ tally' = tally
      BY <1>1, <2>1 DEF LockIntoEscrow, r
    <3>2. wallet \in [Users -> Nat] /\ escrow \in [Users -> Nat]
      BY <1>10 DEF BooksOK
    <3>3. wallet' \in [Users -> Nat] /\ escrow' \in [Users -> Nat]
      BY <1>3, <2>1, <3>1, <3>2
    <3>4. Sum(escrow') = Sum(escrow) + r.amount
      <4>1. IsFiniteSet(Users)
        BY FiniteAssumption, FS_Subset DEF Participants
      <4>2. /\ escrow \in [Users -> Int] /\ escrow' \in [Users -> Int]
            /\ escrow'[r.payer] = escrow[r.payer] + r.amount /\ escrow[r.payer] \in Int
            /\ SameBut(escrow, escrow', Users, r.payer)
        BY <1>3, <3>1, <3>2, <3>3 DEF SameBut
      <4>3. SumOf(escrow') = SumOf(escrow) - escrow[r.payer] + escrow'[r.payer]
        BY <1>3, <4>1, <4>2, SumUpdate
      <4>4. SumOf(escrow) \in Int
        BY <4>1, <4>2, SumType
      <4> QED
        BY <1>3, <4>2, <4>3, <4>4, Adds
    <3> QED
      BY <1>10, <3>1, <3>3, <3>4 DEF BooksOK
  <2>2. CASE ~ (wallet[r.payer] >= r.amount)
    <3>1. /\ tally' = [tally EXCEPT !.unfunded = @ + r.amount] /\ wallet' = wallet /\ escrow' = escrow
      BY <1>1, <2>2 DEF LockIntoEscrow, r
    <3>2. wallet[r.payer] \in Nat
      BY <1>3, <1>10 DEF BooksOK
    <3>3. tally.raced
      BY <1>3, <1>5, <2>2, <3>2
    <3>4. tally' = [surplus |-> tally.surplus, wiped |-> tally.wiped, stale |-> tally.stale,
                    refunded |-> tally.refunded, unfunded |-> tally.unfunded + r.amount,
                    raced |-> tally.raced, again |-> tally.again]
      BY <1>10, <3>1 DEF BooksOK, Tallies
    <3>5. tally' \in Tallies
      BY <1>3, <1>10, <3>4 DEF BooksOK, Tallies
    <3> QED
      BY <1>10, <3>1, <3>3, <3>4, <3>5 DEF BooksOK
  <2> QED
    BY <2>1, <2>2
<1>16. booked' = booked /\ links' = links /\ acked' = acked
  BY DEF PayFromWallet, paystack
<1>17. RequestsOK' /\ locks' \in [Handlers -> SUBSET Rows]
  BY <1>1, Frees DEF Inv, TypeInv, RestOK
<1>18. BooksOK'
  BY <1>10, <1>13, <1>14, <1>15, <1>16 DEF BooksOK
<1>19. RestOK'
  BY <1>16, <1>17 DEF RestOK, Inv, TypeInv
<1> QED
  BY <1>2, <1>11, <1>12, <1>13, <1>14, <1>15, <1>17, <1>18, <1>19 DEF r

\* The money of the booked charges.
BookedMoney == Sum([c \in Charges |-> booked[c] * charge[c].amount])

BookedOnce == \A c \in Charges : booked[c] \in {0, 1}

\* Booking a charge adds its amount.
LEMMA BookingAdds ==
    ASSUME ChargesOK, BookedOnce, NEW c \in Charges, booked \in [Charges -> Nat], booked[c] = 0,
           booked' = [booked EXCEPT ![c] = @ + 1], charge' = charge
    PROVE  BookedMoney' = BookedMoney + charge[c].amount
<1> DEFINE f == [x \in Charges |-> booked[x] * charge[x].amount]
           g == [x \in Charges |-> booked'[x] * charge'[x].amount]
<1>1. \A x \in Charges : charge[x].amount \in Nat
  BY DEF ChargesOK, ChargeRows
<1>2. /\ \A x \in Charges : booked[x] \in {0, 1} /\ booked'[x] \in {0, 1}
      /\ booked'[c] = 1 /\ \A x \in Charges \ {c} : booked'[x] = booked[x]
  BY DEF BookedOnce
<1>3. ASSUME NEW x \in Charges
      PROVE  /\ booked[x] * charge[x].amount = IF booked[x] = 0 THEN 0 ELSE charge[x].amount
             /\ booked'[x] * charge'[x].amount = IF booked'[x] = 0 THEN 0 ELSE charge[x].amount
  <2>1. \A n \in Nat : 0 * n = 0 /\ 1 * n = n
    OBVIOUS
  <2> QED
    BY <1>1, <1>2, <2>1
<1>4. /\ \A x \in Charges : f[x] = (IF booked[x] = 0 THEN 0 ELSE charge[x].amount)
      /\ \A x \in Charges : g[x] = (IF booked'[x] = 0 THEN 0 ELSE charge[x].amount)
  BY <1>3
<1>5. BookedMoney = SumOf(f) /\ BookedMoney' = SumOf(g)
  BY Adds DEF BookedMoney
<1>6. f \in [Charges -> Int] /\ g \in [Charges -> Int]
  BY <1>1, <1>3
<1> HIDE DEF f, g
<1>7. \A x \in Charges \ {c} : g[x] = f[x]
  BY <1>2, <1>4
<1>8. f[c] = 0 /\ g[c] = charge[c].amount /\ SumOf(f) \in Int
  BY <1>2, <1>4, <1>6, SumType, FiniteAssumption
<1>9. SumOf(g) = SumOf(f) - f[c] + g[c]
  <2>1. IsFiniteSet(Charges)
    BY FiniteAssumption
  <2>2. SameBut(f, g, Charges, c)
    BY <1>7 DEF SameBut
  <2> QED
    BY <1>6, <2>1, <2>2, SumUpdate
<1> QED
  BY <1>1, <1>5, <1>8, <1>9

\* What the webhook of a card payment does.
LEMMA CardIsBooked ==
    ASSUME Inv, NEW h \in Handlers, BooksCard(h)
    PROVE  /\ BooksOK' /\ RequestsOK' /\ RestOK'
           /\ req[h].charge \in Charges /\ booked[req[h].charge] = 0
           /\ booked' = [booked EXCEPT ![req[h].charge] = @ + 1]
           /\ bill'.collected = bill.collected + req[h].amount /\ bill'.status # "cancelled"
           /\ Paid' + tally'.surplus = Paid + tally.surplus + req[h].amount
           /\ UsersNeverOverpay => UsersNeverOverpay'
           /\ \A p \in Participants \ req[h].targets : part'[p] = part[p]
           /\ HoldsTargets(req[h])
           /\ tally'.wiped = tally.wiped /\ tally'.raced = tally.raced
           /\ tally'.unfunded = tally.unfunded
<1> DEFINE r == req[h]
           debts == [p \in r.targets |-> Debt(r.seen[p])]
<1>1. /\ r \in Requests /\ RequestOK(r) /\ Ready(h, "hook") /\ Ends(h)
      /\ bill' = Collect(r.amount)
      /\ \E d \in Allocations(r.amount, r.payer, debts) : part' = PayRows(r.seen, d, 1)
  BY DEF BooksCard, Inv, TypeInv, RequestsOK
<1>2. /\ booked[r.charge] = 0 /\ booked' = [booked EXCEPT ![r.charge] = @ + 1]
      /\ tally' = [tally EXCEPT !.surplus = @ + (r.amount - Lesser(r.amount, Sum(debts))),
                                !.again = CancelledBefore]
      /\ acked' = acked \cup {r.charge} /\ UNCHANGED <<wallet, escrow, links, charge>>
  BY DEF BooksCard
<1>3. r.op = "hook" /\ HoldsTargets(r)
  BY <1>1, ReadyHolds DEF Ops
<1>4. /\ r.targets \in SUBSET Participants /\ r.amount \in Nat /\ r.charge \in Charges
      /\ r.seen \in [r.targets -> Participant]
  BY <1>1, <1>3 DEF RequestOK, Requests, Charged
<1>5. \A p \in r.targets : r.seen[p] = part[p]
  BY <1>3 DEF Inv, LockInv
<1>6. \A p \in r.targets : Debt(r.seen[p]) \in Nat /\ debts[p] = Debt(r.seen[p])
  BY <1>4, DebtIs
<1>7. debts \in [r.targets -> Nat]
  BY <1>6
<1> HIDE DEF r, debts
<1>8. PICK d \in Allocations(r.amount, r.payer, debts) : part' = PayRows(r.seen, d, 1)
  BY <1>1
<1>9. /\ d \in [r.targets -> Nat] /\ \A p \in r.targets : d[p] <= debts[p]
      /\ Sum(debts) \in Nat /\ Sum(d) = Lesser(r.amount, Sum(debts))
  <2>1. d \in Allocations(r.amount, r.payer, debts)
    OBVIOUS
  <2>2. r.targets \in SUBSET Participants /\ r.amount \in Nat
    BY <1>4
  <2>3. \A t \in SUBSET Participants : debts \in [t -> Nat] =>
           /\ d \in [t -> Nat] /\ \A p \in t : d[p] <= debts[p]
           /\ Sum(debts) \in Nat /\ Sum(d) = Lesser(r.amount, Sum(debts))
    BY <2>1, <2>2, AllocationIs
  <2> QED
    BY <1>7, <2>2, <2>3
<1>10. BooksOK
  BY DEF Inv, TypeInv
<1>11. Paid' = Paid + Sum(d)
  BY <1>4, <1>5, <1>8, <1>9, <1>10, PaidGrows DEF BooksOK
<1>12. UsersNeverOverpay => UsersNeverOverpay'
  <2>1. \A p \in r.targets \cap Users : d[p] > 0 => d[p] <= Debt(r.seen[p])
    BY <1>6, <1>9
  <2> QED
    BY <1>4, <1>8, <1>9, <1>10, <2>1, NobodyOverpays DEF BooksOK
<1>13. /\ part' \in [Participants -> Participant]
       /\ \A p \in Participants \ r.targets : part'[p] = part[p]
  BY <1>4, <1>8, <1>9, <1>10, PaidRows DEF BooksOK
<1>14. /\ bill' \in [status : BillStatus, finalized : BOOLEAN, collected : Nat]
       /\ bill'.status # "cancelled" /\ bill'.collected = bill.collected + r.amount
  BY <1>1, <1>4, <1>10, CollectIs DEF BooksOK
<1>15. /\ tally' \in Tallies /\ tally'.surplus = tally.surplus + (r.amount - Sum(d))
       /\ tally'.wiped = tally.wiped /\ tally'.raced = tally.raced /\ tally'.unfunded = tally.unfunded
  <2>1. r.amount - Sum(d) \in Nat
    BY <1>4, <1>9 DEF Lesser
  <2> DEFINE surplus == tally.surplus + (r.amount - Sum(d))
             again == CancelledBefore
  <2>2. tally' = [surplus |-> surplus, wiped |-> tally.wiped, stale |-> tally.stale,
                  refunded |-> tally.refunded, unfunded |-> tally.unfunded,
                  raced |-> tally.raced, again |-> again]
    BY <1>2, <1>9, <1>10 DEF BooksOK, Tallies
  <2>3. surplus \in Nat /\ again \in BOOLEAN
    BY <1>10, <2>1 DEF BooksOK, Tallies, CancelledBefore
  <2> HIDE DEF again
  <2>4. tally' \in Tallies
    <3> HIDE DEF surplus
    <3> QED
      BY <1>10, <2>2, <2>3 DEF BooksOK, Tallies
  <2> QED
    BY <2>2, <2>4
<1>16. Paid' + tally'.surplus = Paid + tally.surplus + r.amount
  <2>1. Paid \in Nat /\ Sum(d) \in Nat /\ tally.surplus \in Nat
    BY <1>4, <1>9, <1>10, PaidType DEF BooksOK, Tallies, Lesser
  <2> QED
    BY <1>4, <1>11, <1>15, <2>1
<1>17. booked' \in [Charges -> Nat]
  BY <1>2, <1>4, <1>10 DEF BooksOK
<1>18. RequestsOK' /\ locks' \in [Handlers -> SUBSET Rows]
  BY <1>1, Frees DEF Inv, TypeInv, RestOK
<1>19. BooksOK'
  BY <1>2, <1>10, <1>13, <1>14, <1>15, <1>17 DEF BooksOK
<1>20. RestOK'
  BY <1>2, <1>4, <1>18 DEF RestOK, Inv, TypeInv
<1> QED
  BY <1>2, <1>3, <1>4, <1>12, <1>13, <1>14, <1>15, <1>16, <1>18, <1>19, <1>20 DEF r

\* What a booked charge of a guest does.
LEMMA GuestIsBooked ==
    ASSUME Inv, NEW h \in Handlers, BooksGuest(h)
    PROVE  /\ BooksOK' /\ RequestsOK' /\ RestOK'
           /\ req[h].charge \in Charges /\ booked[req[h].charge] = 0
           /\ booked' = [booked EXCEPT ![req[h].charge] = @ + 1]
           /\ bill'.collected = bill.collected + req[h].amount /\ bill'.status # "cancelled"
           /\ Paid' = Paid + req[h].amount
           /\ UsersNeverOverpay => UsersNeverOverpay'
           /\ \A p \in Participants \ req[h].targets : part'[p] = part[p]
           /\ HoldsTargets(req[h])
           /\ tally'.surplus = tally.surplus /\ tally'.wiped = tally.wiped
           /\ tally'.raced = tally.raced /\ tally'.unfunded = tally.unfunded
<1> DEFINE r == req[h]
           d == [p \in r.targets |-> r.amount]
<1>1. PICK tolerance : BookGuest(h, tolerance)
  BY DEF BooksGuest
<1>2. /\ r \in Requests /\ RequestOK(r) /\ Ends(h) /\ bill' = Collect(r.amount)
      /\ part' = PayRows(r.seen, d, tolerance)
      /\ booked[r.charge] = 0 /\ booked' = [booked EXCEPT ![r.charge] = @ + 1]
      /\ tally' = [tally EXCEPT !.again = CancelledBefore]
      /\ UNCHANGED <<wallet, escrow, links, charge>>
  BY <1>1 DEF BookGuest, Inv, TypeInv, RequestsOK
<1>3. r.op \in {"guestHook", "guestPay"} /\ HoldsTargets(r) /\ acked' \subseteq Charges
  BY <1>2, ReadyHolds DEF Ops, BooksGuest
<1>4. /\ r.targets \in SUBSET Participants /\ r.amount \in Nat /\ r.charge \in Charges
      /\ r.seen \in [r.targets -> Participant] /\ IsGuests(r.targets)
  BY <1>2, <1>3 DEF RequestOK, Requests, Charged
<1>5. \A p \in r.targets : r.seen[p] = part[p]
  BY <1>3 DEF Inv, LockInv
<1>6. d \in [r.targets -> Nat] /\ \A p \in r.targets : d[p] = r.amount
  BY <1>4
<1> HIDE DEF r, d
<1>7. BooksOK
  BY DEF Inv, TypeInv
<1>8. Sum(d) = r.amount
  <2>1. PICK g \in Guests : r.targets = {g}
    BY <1>4 DEF IsGuests
  <2> DEFINE j == [s \in SUBSET {g} |-> IF g \in s THEN r.amount ELSE 0]
  <2>2. Sums(d, {g}, j)
    <3>1. j \in [SUBSET {g} -> Int] /\ j[{}] = 0
      BY <1>4
    <3>2. ASSUME NEW s \in SUBSET {g}, NEW a \in s PROVE j[s] = d[a] + j[s \ {a}]
      <4>1. a = g /\ j[s] = r.amount /\ j[s \ {a}] = 0 /\ d[a] = r.amount
        BY <1>6, <2>1
      <4> QED
        BY <1>4, <4>1
    <3> QED
      BY <3>1, <3>2 DEF Sums
  <2>3. j[{g}] = r.amount
    OBVIOUS
  <2> HIDE DEF j
  <2>4. IsFiniteSet({g})
    BY FS_Singleton
  <2>5. d \in [{g} -> Int]
    BY <1>6, <2>1
  <2>6. SumOf(d) = j[{g}]
    BY <2>2, <2>4, <2>5, SumIs
  <2> QED
    BY <2>3, <2>6, Adds
<1>9. Paid' = Paid + r.amount
  BY <1>2, <1>4, <1>5, <1>6, <1>7, <1>8, PaidGrows DEF BooksOK
<1>10. UsersNeverOverpay => UsersNeverOverpay'
  <2>1. \A p \in r.targets \cap Users : FALSE
    BY <1>4, PeopleAssumption DEF IsGuests
  <2> QED
    BY <1>2, <1>4, <1>6, <1>7, <2>1, NobodyOverpays DEF BooksOK
<1>11. /\ part' \in [Participants -> Participant]
       /\ \A p \in Participants \ r.targets : part'[p] = part[p]
  BY <1>2, <1>4, <1>6, <1>7, PaidRows DEF BooksOK
<1>12. /\ bill' \in [status : BillStatus, finalized : BOOLEAN, collected : Nat]
       /\ bill'.status # "cancelled" /\ bill'.collected = bill.collected + r.amount
  BY <1>2, <1>4, <1>7, CollectIs DEF BooksOK
<1>13. /\ tally' \in Tallies /\ tally'.surplus = tally.surplus
       /\ tally'.wiped = tally.wiped /\ tally'.raced = tally.raced /\ tally'.unfunded = tally.unfunded
  BY <1>2, <1>7 DEF BooksOK, Tallies, CancelledBefore
<1>14. booked' \in [Charges -> Nat]
  BY <1>2, <1>4, <1>7 DEF BooksOK
<1>15. RequestsOK' /\ locks' \in [Handlers -> SUBSET Rows]
  BY <1>2, Frees DEF Inv, TypeInv, RestOK
<1>16. BooksOK'
  BY <1>2, <1>7, <1>11, <1>12, <1>13, <1>14 DEF BooksOK
<1>17. RestOK'
  BY <1>2, <1>3, <1>15 DEF RestOK, Inv, TypeInv
<1> QED
  BY <1>2, <1>3, <1>4, <1>9, <1>10, <1>11, <1>12, <1>13, <1>15, <1>16, <1>17 DEF r

\* What is booked keeps its amount while other charges are opened and paid.
LEMMA BookingStays ==
    ASSUME ChargesOK, ChargesOK', BookedOnce, booked' = booked,
           \A c \in Charges : booked[c] = 1 => charge'[c].amount = charge[c].amount
    PROVE  BookedMoney' = BookedMoney
<1>1. \A c \in Charges : charge[c].amount \in Nat /\ charge'[c].amount \in Nat
  BY DEF ChargesOK, ChargeRows
<1>2. ASSUME NEW c \in Charges
      PROVE  booked'[c] * charge'[c].amount = booked[c] * charge[c].amount
  <2>1. booked[c] = 0 \/ booked[c] = 1
    BY DEF BookedOnce
  <2>2. \A n \in Nat : 0 * n = 0 /\ 1 * n = n
    OBVIOUS
  <2> QED
    BY <1>1, <2>1, <2>2
<1>3. [c \in Charges |-> booked'[c] * charge'[c].amount] = [c \in Charges |-> booked[c] * charge[c].amount]
  BY <1>2
<1> QED
  BY <1>3 DEF BookedMoney

\* Opening a charge.
LEMMA ChargeOpens ==
    ASSUME ChargesOK, NEW c \in Charges, NEW k, ChargeOK(k), charge' = [charge EXCEPT ![c] = k]
    PROVE  ChargesOK' /\ charge'[c] = k /\ \A x \in Charges \ {c} : charge'[x] = charge[x]
<1>1. k \in ChargeRows
  BY DEF ChargeOK
<1>2. /\ charge' \in [Charges -> ChargeRows] /\ charge'[c] = k
      /\ \A x \in Charges \ {c} : charge'[x] = charge[x]
  BY <1>1 DEF ChargesOK
<1>3. \A x \in Charges : ChargeOK(charge'[x])
  BY <1>2 DEF ChargesOK
<1> QED
  BY <1>2, <1>3 DEF ChargesOK

\* What opening the charge of a card payment does.
LEMMA CardIsOpened ==
    ASSUME Inv, NEW h \in Handlers, Opens(h)
    PROVE  /\ ChargesOK' /\ RequestsOK' /\ RestOK' /\ Ends(h)
           /\ UNCHANGED <<money, links, acked>>
           /\ \E c \in Charges : /\ charge[c].state = "none"
                                 /\ \A x \in Charges \ {c} : charge'[x] = charge[x]
<1> DEFINE r == req[h]
<1>1. r \in Requests /\ ChargesOK /\ RequestsOK /\ RestOK
  BY DEF Inv, TypeInv, RequestsOK
<1>2. PICK c \in Charges :
         /\ charge[c].state = "none"
         /\ charge' = [charge EXCEPT ![c] = [state |-> "open", kind |-> "user", payer |-> r.payer,
                                             targets |-> r.targets, amount |-> r.amount]]
  BY DEF Opens, OpenCardCharge
<1>3. Ends(h) /\ UNCHANGED <<money, links, acked>>
  BY DEF Opens, OpenCardCharge
<1>4. r.payer \in Users /\ r.targets \in SUBSET Participants /\ r.amount \in Nat
  BY <1>1 DEF Requests
<1> HIDE DEF r
<1>5. ASSUME NEW k, k = [state |-> "open", kind |-> "user", payer |-> r.payer,
                         targets |-> r.targets, amount |-> r.amount]
      PROVE  ChargeOK(k)
  BY <1>4, <1>5 DEF ChargeOK, ChargeRows
<1>6. ChargesOK' /\ \A x \in Charges \ {c} : charge'[x] = charge[x]
  BY <1>1, <1>2, <1>5, ChargeOpens
<1>7. RequestsOK' /\ locks' \in [Handlers -> SUBSET Rows]
  BY <1>1, <1>3, Frees DEF RestOK
<1>8. RestOK'
  BY <1>1, <1>3, <1>7 DEF RestOK
<1> QED
  BY <1>2, <1>3, <1>6, <1>7, <1>8

\* What saving the payment link of a guest does.
LEMMA LinkIsSaved ==
    ASSUME Inv, NEW h \in Handlers, SaveLink(h)
    PROVE  /\ BooksOK' /\ ChargesOK' /\ RequestsOK' /\ RestOK' /\ Ends(h)
           /\ UNCHANGED <<bill, wallet, escrow, booked, acked>>
           /\ \E c \in Charges : /\ charge[c].state = "none"
                                 /\ \A x \in Charges \ {c} : charge'[x] = charge[x]
           /\ \E g \in Guests : /\ Free({g}, h)
                                /\ \A p \in Participants \ {g} : part'[p] = part[p]
           /\ Paid' + tally'.wiped = Paid + tally.wiped
           /\ tally'.stale \/ (Paid' = Paid /\ ~tally.stale)
           /\ tally'.surplus = tally.surplus /\ tally'.unfunded = tally.unfunded
           /\ tally'.raced = tally.raced /\ tally'.again = tally.again
           /\ tally'.refunded = tally.refunded
           /\ UsersNeverOverpay => UsersNeverOverpay'
<1> DEFINE r == req[h]
<1>1. r \in Requests /\ RequestOK(r) /\ BooksOK /\ ChargesOK /\ RequestsOK /\ RestOK
  BY DEF Inv, TypeInv, RequestsOK
<1>2. PICK g \in r.targets, c \in Charges :
         /\ Free({g}, h) /\ charge[c].state = "none"
         /\ charge' = [charge EXCEPT ![c] = [state |-> "open", kind |-> "guest",
                          payer |-> Creator, targets |-> {g}, amount |-> r.amount]]
         /\ tally' = [tally EXCEPT !.wiped = @ + (part[g].paid - r.seen[g].paid),
                                   !.stale = @ \/ part[g].paid # r.seen[g].paid]
         /\ part' = [part EXCEPT ![g] = r.seen[g]]
         /\ links' = links \cup {g}
  BY DEF SaveLink
<1>3. r.op = "link" /\ Ends(h) /\ UNCHANGED <<bill, wallet, escrow, booked, acked>>
  BY DEF SaveLink
<1>4. /\ g \in Guests /\ g \in Participants /\ r.amount \in Nat /\ Creator \in Users
      /\ r.seen[g] \in Participant
  BY <1>1, <1>2, <1>3, PeopleAssumption DEF RequestOK, Requests, IsGuests, Participants
<1> HIDE DEF r
<1>5. ASSUME NEW k, k = [state |-> "open", kind |-> "guest", payer |-> Creator,
                         targets |-> {g}, amount |-> r.amount]
      PROVE  ChargeOK(k)
  BY <1>4, <1>5 DEF ChargeOK, ChargeRows, IsGuests
<1>6. ChargesOK' /\ \A x \in Charges \ {c} : charge'[x] = charge[x]
  BY <1>1, <1>2, <1>5, ChargeOpens
<1>7. /\ part' \in [Participants -> Participant] /\ part'[g] = r.seen[g]
      /\ \A p \in Participants \ {g} : part'[p] = part[p]
  BY <1>1, <1>2, <1>4 DEF BooksOK
<1>8. part[g].paid \in Nat /\ r.seen[g].paid \in Nat
  BY <1>1, <1>4 DEF BooksOK, Participant
<1>9. Paid \in Nat /\ Paid' = Paid - part[g].paid + r.seen[g].paid
  <2> DEFINE old == [p \in Participants |-> part[p].paid]
             new == [p \in Participants |-> part'[p].paid]
  <2>1. old \in [Participants -> Int] /\ new \in [Participants -> Int]
    BY <1>1, <1>7 DEF BooksOK, Participant
  <2>2. old[g] = part[g].paid /\ new[g] = r.seen[g].paid /\ SameBut(old, new, Participants, g)
    BY <1>4, <1>7 DEF SameBut
  <2>3. Paid = SumOf(old) /\ Paid' = SumOf(new)
    BY Adds DEF Paid
  <2>4. Paid \in Nat
    BY <1>1, PaidType DEF BooksOK
  <2> HIDE DEF old, new
  <2>5. SumOf(new) = SumOf(old) - old[g] + new[g]
    BY <1>4, <2>1, <2>2, SumUpdate, FiniteAssumption
  <2> QED
    BY <2>2, <2>3, <2>4, <2>5
<1>10. /\ tally' \in Tallies /\ tally'.wiped = tally.wiped + (part[g].paid - r.seen[g].paid)
       /\ tally'.stale = (tally.stale \/ part[g].paid # r.seen[g].paid)
       /\ tally'.surplus = tally.surplus /\ tally'.unfunded = tally.unfunded
       /\ tally'.raced = tally.raced /\ tally'.again = tally.again /\ tally'.refunded = tally.refunded
  <2> DEFINE wiped == tally.wiped + (part[g].paid - r.seen[g].paid)
             stale == tally.stale \/ part[g].paid # r.seen[g].paid
  <2>1. tally' = [surplus |-> tally.surplus, wiped |-> wiped, stale |-> stale,
                  refunded |-> tally.refunded, unfunded |-> tally.unfunded,
                  raced |-> tally.raced, again |-> tally.again]
    BY <1>1, <1>2 DEF BooksOK, Tallies
  <2>2. wiped \in Int /\ stale \in BOOLEAN
    BY <1>1, <1>8 DEF BooksOK, Tallies
  <2>3. tally' \in Tallies
    <3> HIDE DEF wiped, stale
    <3> QED
      BY <1>1, <2>1, <2>2 DEF BooksOK, Tallies
  <2> QED
    BY <2>1, <2>3
<1>11. Paid' + tally'.wiped = Paid + tally.wiped
  <2>1. tally.wiped \in Int
    BY <1>1 DEF BooksOK, Tallies
  <2> QED
    BY <1>8, <1>9, <1>10, <2>1
<1>12. tally'.stale \/ (Paid' = Paid /\ ~tally.stale)
  <2>1. CASE tally.stale \/ part[g].paid # r.seen[g].paid
    BY <1>10, <2>1, Zenon
  <2>2. CASE ~tally.stale /\ part[g].paid = r.seen[g].paid
    <3>1. Paid' = Paid
      BY <1>8, <1>9, <2>2
    <3> QED
      BY <2>2, <3>1
  <2> QED
    BY <2>1, <2>2
<1>13. UsersNeverOverpay => UsersNeverOverpay'
  <2>1. \A u \in Users : u # g /\ u \in Participants
    BY <1>4, PeopleAssumption DEF Participants
  <2> QED
    BY <1>7, <2>1 DEF UsersNeverOverpay
<1>14. RequestsOK' /\ locks' \in [Handlers -> SUBSET Rows]
  BY <1>1, <1>3, Frees DEF RestOK
<1>15. BooksOK'
  BY <1>1, <1>3, <1>7, <1>10 DEF BooksOK
<1>16. RestOK'
  BY <1>1, <1>2, <1>3, <1>4, <1>14 DEF RestOK
<1> QED
  BY <1>2, <1>3, <1>4, <1>6, <1>7, <1>10, <1>11, <1>12, <1>13, <1>14, <1>15, <1>16

\* What cancelling the bill does.
LEMMA BillIsCancelled ==
    ASSUME Inv, NEW h \in Handlers, Cancels(h)
    PROVE  /\ BooksOK' /\ RequestsOK' /\ RestOK' /\ Ends(h) /\ HoldsBill(req[h])
           /\ UNCHANGED <<part, escrow, booked, links, paystack>>
           /\ bill'.collected = bill.collected /\ bill'.status = "cancelled"
           /\ tally'.surplus = tally.surplus /\ tally'.unfunded = tally.unfunded
           /\ tally'.raced = tally.raced /\ tally'.wiped = tally.wiped
           /\ tally'.again \/ tally'.refunded = Paid
<1>1. /\ Ready(h, "cancel") /\ ~ (wallet[Creator] < Paid)
      /\ bill' = [bill EXCEPT !.status = "cancelled"]
      /\ wallet' = [u \in Users |-> part[u].paid +
                       (IF u = Creator THEN wallet[u] - Paid ELSE wallet[u])]
      /\ tally' = [tally EXCEPT !.refunded = @ + Paid, !.again = tally.refunded > 0 \/ @]
      /\ Ends(h) /\ UNCHANGED <<part, escrow, booked, links, paystack>>
  BY DEF Cancels, RefundAndCancel
<1>2. RequestOK(req[h]) /\ BooksOK /\ RequestsOK /\ RestOK
  BY DEF Inv, TypeInv, RequestsOK
<1>3. HoldsBill(req[h])
  BY <1>1, <1>2, ReadyHolds DEF Ops
<1>4. Paid \in Nat
  BY <1>2, PaidType DEF BooksOK
<1>5. wallet' \in [Users -> Nat]
  <2>1. ASSUME NEW u \in Users
        PROVE  part[u].paid + (IF u = Creator THEN wallet[u] - Paid ELSE wallet[u]) \in Nat
    <3>1. part[u].paid \in Nat /\ wallet[u] \in Nat
      BY <1>2 DEF BooksOK, Participants, Participant
    <3> QED
      BY <1>1, <1>4, <3>1
  <2> QED
    BY <1>1, <2>1
<1>6. /\ tally' \in Tallies /\ tally'.surplus = tally.surplus /\ tally'.unfunded = tally.unfunded
      /\ tally'.raced = tally.raced /\ tally'.wiped = tally.wiped
      /\ tally'.again \/ tally'.refunded = Paid
  <2> DEFINE refunded == tally.refunded + Paid
             again == tally.refunded > 0 \/ tally.again
  <2>1. tally' = [surplus |-> tally.surplus, wiped |-> tally.wiped, stale |-> tally.stale,
                  refunded |-> refunded, unfunded |-> tally.unfunded,
                  raced |-> tally.raced, again |-> again]
    BY <1>1, <1>2 DEF BooksOK, Tallies
  <2>2. refunded \in Nat /\ again \in BOOLEAN /\ (again \/ refunded = Paid)
    BY <1>2, <1>4 DEF BooksOK, Tallies
  <2> HIDE DEF refunded, again
  <2>3. tally' \in Tallies
    BY <1>2, <2>1, <2>2 DEF BooksOK, Tallies
  <2> QED
    BY <2>1, <2>2, <2>3
<1>7. /\ bill' \in [status : BillStatus, finalized : BOOLEAN, collected : Nat]
      /\ bill'.collected = bill.collected /\ bill'.status = "cancelled"
  BY <1>1, <1>2 DEF BooksOK, BillStatus
<1>8. BooksOK'
  BY <1>1, <1>2, <1>5, <1>6, <1>7 DEF BooksOK
<1>9. RequestsOK' /\ locks' \in [Handlers -> SUBSET Rows]
  BY <1>1, <1>2, Frees DEF RestOK
<1>10. RestOK'
  BY <1>1, <1>2, <1>9 DEF RestOK, paystack
<1> QED
  BY <1>1, <1>3, <1>6, <1>7, <1>8, <1>9, <1>10

-----------------------------------------------------------------------------
(* Type correctness, locks and requests *)

\* The invariant holds in the beginning.
LEMMA InitInv == Init => Inv
<1> SUFFICES ASSUME Init PROVE Inv
  OBVIOUS
<1>1. BooksOK
  <2>1. bill \in [status : BillStatus, finalized : BOOLEAN, collected : Nat] /\ tally \in Tallies
    BY DEF Init, BillStatus, Tallies
  <2>2. part \in [Participants -> Participant]
    BY AmountsAssumption DEF Init, Participant, PartStatus
  <2>3. wallet \in [Users -> Nat] /\ escrow \in [Users -> Nat] /\ booked \in [Charges -> Nat]
    BY AmountsAssumption DEF Init
  <2> QED
    BY <2>1, <2>2, <2>3 DEF BooksOK
<1>2. RequestsOK
  BY IdleRequest DEF Init, RequestsOK, RequestOK
<1>3. ChargesOK
  <2>1. ChargeOK(NoCharge) /\ NoCharge \in ChargeRows
    BY PeopleAssumption DEF ChargeOK, NoCharge, ChargeRows
  <2> QED
    BY <2>1 DEF Init, ChargesOK
<1>4. RestOK
  BY DEF Init, RestOK
<1>5. \A h \in Handlers : ~HoldsBill(req[h]) /\ ~HoldsTargets(req[h]) /\ ~req[h].funded
                          /\ req[h].op \notin Charged
  BY IdleRequest DEF Init, HoldsBill, HoldsTargets, Charged
<1>6. LockInv
  BY <1>5 DEF Init, LockInv
<1>7. ReqInv
  BY <1>5 DEF Init, ReqInv, KnowsCharge
<1> QED
  BY <1>1, <1>2, <1>3, <1>4, <1>6, <1>7 DEF Inv, TypeInv

\* The steps of no handler in particular.
LEMMA ElsewhereIs ==
    ASSUME TypeInv, Elsewhere
    PROVE  /\ TypeInv' /\ UNCHANGED <<bill, part, escrow, booked, req, locks>>
           /\ \A c \in Charges : /\ charge[c].state = "paid" => charge'[c] = charge[c]
                                 /\ charge'[c].amount = charge[c].amount
           /\ \/ tally' = tally /\ wallet' = wallet
              \/ /\ tally'.surplus = tally.surplus /\ tally'.unfunded = tally.unfunded
                 /\ tally'.wiped = tally.wiped /\ tally'.refunded = tally.refunded
                 /\ tally'.stale = tally.stale /\ tally'.again = tally.again
                 /\ \E u \in Users : /\ \A w \in Users \ {u} : wallet'[w] = wallet[w]
                                     /\ \A h \in Handlers : req[h].funded /\ req[h].payer = u => tally'.raced
                 /\ tally.raced => tally'.raced
<1> USE DEF TypeInv, money, paystack, bounds
<1>1. ASSUME NEW c \in Charges, PayAtPaystack(c)
      PROVE  /\ ChargesOK' /\ UNCHANGED <<money, links, acked, req, locks>>
             /\ \A x \in Charges : /\ charge[x].state = "paid" => charge'[x] = charge[x]
                                   /\ charge'[x].amount = charge[x].amount
  <2>1. /\ charge[c].state = "open" /\ charge' = [charge EXCEPT ![c].state = "paid"]
        /\ UNCHANGED <<money, links, acked, req, locks>>
    BY <1>1 DEF PayAtPaystack
  <2>2. charge[c] \in ChargeRows /\ ChargeOK(charge[c]) /\ charge \in [Charges -> ChargeRows]
    BY DEF ChargesOK
  <2>3. ASSUME NEW k, k = [charge[c] EXCEPT !.state = "paid"]
        PROVE  /\ ChargeOK(k) /\ k.amount = charge[c].amount
    BY <2>2, <2>3 DEF ChargeOK, ChargeRows
  <2>4. charge' = [charge EXCEPT ![c] = [charge[c] EXCEPT !.state = "paid"]]
    BY <2>1, <2>2
  <2>5. ChargesOK' /\ charge'[c] = [charge[c] EXCEPT !.state = "paid"]
        /\ \A x \in Charges \ {c} : charge'[x] = charge[x]
    BY <2>3, <2>4, ChargeOpens
  <2>6. charge'[c].amount = charge[c].amount
    BY <2>3, <2>5
  <2> QED
    BY <2>1, <2>5, <2>6
<1>2. CASE \E c \in Charges : PayAtPaystack(c)
  BY <1>1, <1>2 DEF BooksOK, RequestsOK, RestOK
<1>3. CASE \E u \in Users : Spend(u)
  <2>1. PICK u \in Users, amount \in Amounts :
           /\ amount <= wallet[u] /\ wallet' = [wallet EXCEPT ![u] = @ - amount]
           /\ tally' = [tally EXCEPT !.raced = @ \/ \E h \in Handlers : req[h].funded /\ req[h].payer = u]
           /\ UNCHANGED <<bill, part, escrow, booked, links, charge, acked, req, locks>>
    BY <1>3 DEF Spend
  <2>2. wallet \in [Users -> Nat] /\ tally \in Tallies /\ amount \in Nat
    BY AmountsAssumption DEF BooksOK
  <2>3. wallet' \in [Users -> Nat] /\ \A w \in Users \ {u} : wallet'[w] = wallet[w]
    BY <2>1, <2>2
  <2> DEFINE raced == tally.raced \/ \E h \in Handlers : req[h].funded /\ req[h].payer = u
  <2>4. raced \in BOOLEAN /\ (tally.raced => raced)
        /\ \A h \in Handlers : req[h].funded /\ req[h].payer = u => raced
    BY <2>2 DEF Tallies
  <2>5. tally' = [surplus |-> tally.surplus, wiped |-> tally.wiped, stale |-> tally.stale,
                  refunded |-> tally.refunded, unfunded |-> tally.unfunded,
                  raced |-> raced, again |-> tally.again]
    BY <2>1, <2>2 DEF Tallies
  <2> HIDE DEF raced
  <2>6. tally' \in Tallies /\ tally'.raced = raced
    BY <2>2, <2>4, <2>5 DEF Tallies
  <2>7. BooksOK'
    BY <2>1, <2>3, <2>6 DEF BooksOK
  <2>8. TypeInv'
    BY <2>1, <2>7 DEF RequestsOK, ChargesOK, RestOK
  <2>9. \E w \in Users : /\ \A v \in Users \ {w} : wallet'[v] = wallet[v]
                         /\ \A h \in Handlers : req[h].funded /\ req[h].payer = w => tally'.raced
    BY <2>3, <2>4, <2>6
  <2> QED
    BY <2>1, <2>4, <2>5, <2>6, <2>8, <2>9
<1>4. CASE \E g \in Guests : LinkExpires(g)
  <2>1. links' \subseteq Guests
    BY <1>4 DEF LinkExpires, RestOK
  <2> QED
    BY <1>4, <2>1 DEF LinkExpires, BooksOK, RequestsOK, ChargesOK, RestOK
<1>5. CASE UNCHANGED vars
  BY <1>5 DEF vars, BooksOK, RequestsOK, ChargesOK, RestOK
<1> QED
  BY <1>2, <1>3, <1>4, <1>5 DEF Elsewhere

\* What a request past the wallet check is.
LEMMA PassedIs ==
    ASSUME Inv, NEW h \in Handlers, Passes(h)
    PROVE  /\ RequestsOK' /\ UNCHANGED <<money, links, charge, acked, locks>>
           /\ \A x \in Handlers \ {h} : req'[x] = req[x]
           /\ req'[h].op = "wallet" /\ req'[h].step = req[h].step /\ req'[h].targets = req[h].targets
           /\ req'[h].seen = req[h].seen /\ req[h].op = "wallet" /\ Funded(req'[h])
<1> DEFINE r == req[h]
           s == [op |-> r.op, payer |-> r.payer, targets |-> r.targets, amount |-> r.amount,
                 charge |-> r.charge, step |-> r.step, funded |-> TRUE, seen |-> r.seen]
<1>1. /\ r \in Requests /\ RequestOK(r) /\ Ready(h, "wallet") /\ ~PayRefused(r)
      /\ ~ (wallet[r.payer] < r.amount) /\ req' = [req EXCEPT ![h].funded = TRUE]
      /\ UNCHANGED <<money, links, charge, acked, locks>>
  BY DEF Passes, CheckWallet, Inv, TypeInv, RequestsOK, paystack
<1>2. r.op = "wallet" /\ HoldsTargets(r) /\ r.step = 3
  BY <1>1, ReadyHolds DEF Ops
<1>3. req' = [req EXCEPT ![h] = s]
  <2>1. req \in [Handlers -> Requests]
    BY DEF Inv, TypeInv, RequestsOK
  <2>2. req' = [req EXCEPT ![h] = [r EXCEPT !.funded = TRUE]]
    BY <1>1, <2>1
  <2>3. ASSUME NEW l, l = [r EXCEPT !.funded = TRUE] PROVE l = s
    BY <1>1, <2>3 DEF Requests
  <2> HIDE DEF r, s
  <2> QED
    BY <2>2, <2>3
<1> HIDE DEF r
<1>4. s \in Requests
  BY <1>1 DEF Requests
<1>5. RequestOK(s)
  BY <1>1, <1>2, <1>4 DEF RequestOK, HoldsTargets, Charged
<1>6. r.amount <= Sum(Debts(r.seen)) /\ bill.status # "cancelled"
  <2>1. ~ (r.amount > Sum(Debts(r.seen))) /\ bill.status # "cancelled"
    BY <1>1 DEF PayRefused
  <2>2. r.amount \in Nat /\ r.seen \in [r.targets -> Participant] /\ r.targets \in SUBSET Participants
    BY <1>1, <1>2 DEF RequestOK, Requests
  <2>3. Debts(r.seen) \in [r.targets -> Nat]
    <3>1. \A p \in r.targets : Debt(r.seen[p]) \in Nat
      BY <2>2, DebtIs
    <3> QED
      BY <2>2, <3>1 DEF Debts
  <2>4. IsFiniteSet(r.targets)
    BY <2>2, FS_Subset, FiniteAssumption
  <2>5. Sum(Debts(r.seen)) \in Nat
    BY <2>3, <2>4, SumNat, Adds
  <2> QED
    BY <2>1, <2>2, <2>5
<1>7. Funded(s)
  BY <1>1, <1>6 DEF Funded
<1> HIDE DEF s
<1>8. RequestsOK' /\ req'[h] = s /\ \A x \in Handlers \ {h} : req'[x] = req[x]
  BY <1>3, <1>5, GivenRequest DEF Inv, TypeInv
<1> QED
  BY <1>1, <1>2, <1>7, <1>8 DEF r, s

\* Every step keeps the types.
LEMMA StepType ==
    ASSUME Inv, Steps
    PROVE  TypeInv'
<1>0. BooksOK /\ RequestsOK /\ ChargesOK /\ RestOK
  BY DEF Inv, TypeInv
<1> USE DEF TypeInv
<1>1. ASSUME NEW h \in Handlers, Starts(h) PROVE TypeInv'
  <2>1. RequestsOK'
    BY <1>0, <1>1, GivenRequest DEF Starts
  <2> QED
    BY <1>0, <1>1, <2>1 DEF Starts, money, BooksOK, ChargesOK, RestOK
<1>2. ASSUME NEW h \in Handlers, Acquire(h) PROVE TypeInv'
  <2>1. RequestsOK'
    BY <1>2, Acquires DEF Inv
  <2>2. locks' \in [Handlers -> SUBSET Rows]
    <3>1. RequestOK(req[h]) /\ req[h] \in Requests /\ Waits(h)
      BY <1>0, <1>2 DEF Acquire, RequestsOK
    <3>2. Wanted(h) \subseteq Rows
      <4>1. req[h].payer \in Participants /\ req[h].targets \subseteq Participants
            /\ (req[h].op = "hook" => req[h].charge \in Charges) /\ req[h].op \in Ops
        BY <3>1 DEF RequestOK, Requests, Charged, Participants
      <4> QED
        BY <3>1, <4>1, Waiting DEF Rows, Ops
    <3> QED
      BY <1>0, <1>2, <3>2 DEF Acquire, RestOK
  <2> QED
    BY <1>0, <1>2, <2>1, <2>2 DEF Acquire, money, paystack, BooksOK, ChargesOK, RestOK
<1>3. ASSUME NEW h \in Handlers, Leaves(h) PROVE TypeInv'
  <2>1. RequestsOK' /\ locks' \in [Handlers -> SUBSET Rows]
    BY <1>0, <1>3, Frees DEF Leaves, RestOK
  <2> QED
    BY <1>0, <1>3, <2>1 DEF Leaves, money, BooksOK, ChargesOK, RestOK
<1>4. ASSUME NEW h \in Handlers, Passes(h) PROVE TypeInv'
  BY <1>0, <1>4, PassedIs DEF money, BooksOK, ChargesOK, RestOK
<1>5. ASSUME NEW h \in Handlers, PayFromWallet(h) PROVE TypeInv'
  <2>1. charge' = charge
    BY <1>5 DEF PayFromWallet, paystack
  <2> QED
    BY <1>0, <1>5, <2>1, PaysFromWallet DEF ChargesOK
<1>6. ASSUME NEW h \in Handlers, Opens(h) PROVE TypeInv'
  BY <1>0, <1>6, CardIsOpened DEF money, BooksOK
<1>7. ASSUME NEW h \in Handlers, BooksCard(h) PROVE TypeInv'
  <2>1. charge' = charge
    BY <1>7 DEF BooksCard
  <2> QED
    BY <1>0, <1>7, <2>1, CardIsBooked DEF ChargesOK
<1>8. ASSUME NEW h \in Handlers, BooksGuest(h) PROVE TypeInv'
  <2>1. charge' = charge
    BY <1>8 DEF BooksGuest, BookGuest
  <2> QED
    BY <1>0, <1>8, <2>1, GuestIsBooked DEF ChargesOK
<1>9. ASSUME NEW h \in Handlers, SaveLink(h) PROVE TypeInv'
  BY <1>9, LinkIsSaved
<1>10. ASSUME NEW h \in Handlers, WriteFinalized(h) PROVE TypeInv'
  <2>1. bill' \in [status : BillStatus, finalized : BOOLEAN, collected : Nat]
    BY <1>0, <1>10 DEF WriteFinalized, BooksOK, BillStatus
  <2>2. RequestsOK' /\ locks' \in [Handlers -> SUBSET Rows]
    BY <1>0, <1>10, Frees DEF WriteFinalized, RestOK
  <2> QED
    BY <1>0, <1>10, <2>1, <2>2 DEF WriteFinalized, paystack, BooksOK, ChargesOK, RestOK
<1>11. ASSUME NEW h \in Handlers, Cancels(h) PROVE TypeInv'
  BY <1>0, <1>11, BillIsCancelled DEF ChargesOK, paystack
<1>12. CASE Elsewhere
  BY <1>0, <1>12, ElsewhereIs
<1> QED
  BY <1>1, <1>2, <1>3, <1>4, <1>5, <1>6, <1>7, <1>8, <1>9, <1>10, <1>11, <1>12 DEF Steps

\* A handler that ends may write the rows that no other handler has locked.
LEMMA LocksFreed ==
    ASSUME Inv, NEW h \in Handlers, Ends(h),
           \A p \in Participants :
              part'[p] = part[p] \/ \A x \in Handlers \ {h} : p \notin locks[x]
    PROVE  LockInv'
<1>1. /\ req'[h] = Idle /\ \A x \in Handlers \ {h} : req'[x] = req[x]
      /\ locks'[h] = {} /\ \A x \in Handlers \ {h} : locks'[x] = locks[x]
  BY Frees DEF Inv, TypeInv, RestOK
<1>2. ~HoldsBill(Idle) /\ ~HoldsTargets(Idle)
  BY IdleRequest DEF HoldsBill, HoldsTargets
<1>3. \A a, b \in Handlers : a # b => locks'[a] \cap locks'[b] = {}
  BY <1>1 DEF Inv, LockInv
<1>4. ASSUME NEW x \in Handlers PROVE HoldsBill(req'[x]) => BillRow \in locks'[x]
  BY <1>1, <1>2 DEF Inv, LockInv
<1>5. ASSUME NEW x \in Handlers, HoldsTargets(req'[x])
      PROVE  /\ req'[x].targets \subseteq locks'[x]
             /\ \A p \in req'[x].targets : req'[x].seen[p] = part'[p]
  <2>1. x # h /\ req'[x] = req[x] /\ locks'[x] = locks[x] /\ HoldsTargets(req[x])
    BY <1>1, <1>2, <1>5
  <2>2. req[x].targets \subseteq locks[x] /\ \A p \in req[x].targets : req[x].seen[p] = part[p]
    BY <2>1 DEF Inv, LockInv
  <2>3. req[x].targets \subseteq Participants
    BY DEF Inv, TypeInv, RequestsOK, Requests
  <2>4. \A p \in req[x].targets : part'[p] = part[p]
    BY <2>1, <2>2, <2>3
  <2> QED
    BY <2>1, <2>2, <2>4
<1> QED
  BY <1>3, <1>4, <1>5 DEF LockInv

\* A payment writes rows that its handler has locked.
LEMMA OwnRows ==
    ASSUME Inv, NEW h \in Handlers, HoldsTargets(req[h]),
           \A p \in Participants \ req[h].targets : part'[p] = part[p]
    PROVE  \A p \in Participants :
              part'[p] = part[p] \/ \A x \in Handlers \ {h} : p \notin locks[x]
<1>1. req[h].targets \subseteq locks[h]
  BY DEF Inv, LockInv
<1>2. \A x \in Handlers \ {h} : locks[x] \cap locks[h] = {}
  BY DEF Inv, LockInv
<1> QED
  BY <1>1, <1>2

\* Every step keeps the locks in order.
LEMMA StepLocks ==
    ASSUME Inv, Steps
    PROVE  LockInv'
<1>1. ASSUME NEW h \in Handlers, Starts(h) PROVE LockInv'
  <2>1. PICK r : req' = [req EXCEPT ![h] = r] /\ RequestOK(r) /\ r.step = 0
    BY <1>1 DEF Starts
  <2>2. req'[h] = r /\ \A x \in Handlers \ {h} : req'[x] = req[x]
    BY <2>1, GivenRequest DEF Inv, TypeInv
  <2>3. ~HoldsBill(r) /\ ~HoldsTargets(r)
    BY <2>1 DEF HoldsBill, HoldsTargets
  <2>4. UNCHANGED <<part, locks>>
    BY <1>1 DEF Starts, money
  <2>5. \A x \in Handlers : HoldsBill(req'[x]) => BillRow \in locks[x]
    BY <2>2, <2>3 DEF Inv, LockInv
  <2>6. \A x \in Handlers : HoldsTargets(req'[x]) =>
            /\ req'[x].targets \subseteq locks[x]
            /\ \A p \in req'[x].targets : req'[x].seen[p] = part[p]
    BY <2>2, <2>3 DEF Inv, LockInv
  <2> QED
    BY <2>4, <2>5, <2>6 DEF Inv, LockInv
<1>2. ASSUME NEW h \in Handlers, Acquire(h) PROVE LockInv'
  <2>1. /\ Waits(h) /\ Free(Wanted(h), h) /\ locks' = [locks EXCEPT ![h] = @ \cup Wanted(h)]
        /\ part' = part
    BY <1>2 DEF Acquire, money
  <2>2. RequestOK(req[h]) /\ req[h] \in Requests /\ locks \in [Handlers -> SUBSET Rows]
    BY DEF Inv, TypeInv, RequestsOK, RestOK
  <2>3. locks'[h] = locks[h] \cup Wanted(h) /\ \A x \in Handlers \ {h} : locks'[x] = locks[x]
    BY <2>1, <2>2
  <2>4. /\ \A x \in Handlers \ {h} : req'[x] = req[x]
        /\ req'[h].op = req[h].op /\ req'[h].targets = req[h].targets
        /\ req'[h].step = req[h].step + 1
        /\ req'[h].seen = IF Wanted(h) \subseteq Participants
                          THEN [p \in req[h].targets |-> part[p]] ELSE req[h].seen
    BY <1>2, Acquires DEF Inv
  <2>5. \A a, b \in Handlers : a # b => locks'[a] \cap locks'[b] = {}
    <3>1. \A x \in Handlers \ {h} : locks[x] \cap Wanted(h) = {}
      BY <2>1 DEF Free
    <3> QED
      BY <2>3, <3>1 DEF Inv, LockInv
  <2>6. req[h].step \in 0..3 /\ req[h].op \in Ops /\ req[h].targets \subseteq Participants
        /\ req[h].payer \in Participants
    BY <2>2 DEF Requests, Participants
  <2>7. HoldsBill(req'[h]) => BillRow \in locks'[h]
    <3>1. HoldsBill(req'[h]) => HoldsBill(req[h]) \/ Wanted(h) = {BillRow}
      BY <2>1, <2>2, <2>4, <2>6, Waiting DEF HoldsBill
    <3> QED
      BY <2>3, <3>1 DEF Inv, LockInv
  <2>8. ASSUME HoldsTargets(req'[h])
        PROVE  /\ req'[h].targets \subseteq locks'[h]
               /\ \A p \in req'[h].targets : req'[h].seen[p] = part'[p]
    <3>1. CASE Wanted(h) = req[h].targets
      BY <2>1, <2>3, <2>4, <2>6, <3>1
    <3>2. CASE Wanted(h) # req[h].targets
      <4>1. HoldsTargets(req[h])
        BY <2>1, <2>2, <2>4, <2>6, <2>8, <3>2, Waiting DEF HoldsTargets
      <4>2. req[h].targets \subseteq locks[h] /\ \A p \in req[h].targets : req[h].seen[p] = part[p]
        BY <4>1 DEF Inv, LockInv
      <4> QED
        BY <2>1, <2>3, <2>4, <4>2
    <3> QED
      BY <3>1, <3>2
  <2>9. ASSUME NEW x \in Handlers \ {h}
        PROVE  /\ HoldsBill(req'[x]) => BillRow \in locks'[x]
               /\ HoldsTargets(req'[x]) =>
                    /\ req'[x].targets \subseteq locks'[x]
                    /\ \A p \in req'[x].targets : req'[x].seen[p] = part'[p]
    <3>1. req'[x] = req[x] /\ locks'[x] = locks[x] /\ part' = part
      BY <2>1, <2>3, <2>4
    <3> QED
      BY <3>1 DEF Inv, LockInv
  <2>10. ASSUME NEW x \in Handlers PROVE HoldsBill(req'[x]) => BillRow \in locks'[x]
    BY <2>7, <2>9
  <2>11. ASSUME NEW x \in Handlers, HoldsTargets(req'[x])
         PROVE  /\ req'[x].targets \subseteq locks'[x]
                /\ \A p \in req'[x].targets : req'[x].seen[p] = part'[p]
    BY <2>8, <2>9, <2>11
  <2> QED
    BY <2>5, <2>10, <2>11 DEF LockInv
<1>3. ASSUME NEW h \in Handlers, Ends(h), part' = part PROVE LockInv'
  BY <1>3, LocksFreed
<1>4. ASSUME NEW h \in Handlers, Passes(h) PROVE LockInv'
  <2>1. /\ \A x \in Handlers \ {h} : req'[x] = req[x]
        /\ req'[h].op = req[h].op /\ req'[h].step = req[h].step /\ req'[h].targets = req[h].targets
        /\ req'[h].seen = req[h].seen /\ part' = part /\ locks' = locks
    BY <1>4, PassedIs DEF money
  <2>2. ASSUME NEW x \in Handlers
        PROVE  /\ HoldsBill(req'[x]) => HoldsBill(req[x])
               /\ HoldsTargets(req'[x]) => HoldsTargets(req[x])
               /\ req'[x].targets = req[x].targets /\ req'[x].seen = req[x].seen
    BY <2>1 DEF HoldsBill, HoldsTargets
  <2> QED
    BY <2>1, <2>2 DEF Inv, LockInv
<1>5. ASSUME NEW h \in Handlers, HoldsTargets(req[h]), Ends(h),
             \A p \in Participants \ req[h].targets : part'[p] = part[p]
      PROVE  LockInv'
  BY <1>5, OwnRows, LocksFreed
<1>6. ASSUME NEW h \in Handlers, PayFromWallet(h) PROVE LockInv'
  BY <1>5, <1>6, PaysFromWallet DEF PayFromWallet
<1>7. ASSUME NEW h \in Handlers, BooksCard(h) PROVE LockInv'
  BY <1>5, <1>7, CardIsBooked DEF BooksCard
<1>8. ASSUME NEW h \in Handlers, BooksGuest(h) PROVE LockInv'
  BY <1>5, <1>8, GuestIsBooked DEF BooksGuest, BookGuest
<1>9. ASSUME NEW h \in Handlers, SaveLink(h) PROVE LockInv'
  <2>1. Ends(h) /\ \E g \in Guests : /\ Free({g}, h)
                                     /\ \A p \in Participants \ {g} : part'[p] = part[p]
    BY <1>9, LinkIsSaved
  <2>2. \A p \in Participants : part'[p] = part[p] \/ \A x \in Handlers \ {h} : p \notin locks[x]
    BY <2>1 DEF Free
  <2> QED
    BY <2>1, <2>2, LocksFreed
<1>10. ASSUME NEW h \in Handlers, Leaves(h) \/ Opens(h) \/ WriteFinalized(h) \/ Cancels(h)
       PROVE  LockInv'
  <2>1. Ends(h) /\ part' = part
    BY <1>10, CardIsOpened, BillIsCancelled DEF Leaves, WriteFinalized, money
  <2> QED
    BY <1>3, <2>1
<1>11. CASE Elsewhere
  <2>1. UNCHANGED <<part, req, locks>>
    BY <1>11, ElsewhereIs DEF Inv
  <2> QED
    BY <2>1 DEF Inv, LockInv
<1> QED
  BY <1>1, <1>2, <1>4, <1>6, <1>7, <1>8, <1>9, <1>10, <1>11 DEF Steps

\* A handler that holds the row of the bill is the only one.
LEMMA OneHoldsBill ==
    ASSUME Inv, NEW h \in Handlers, NEW x \in Handlers, HoldsBill(req[h]), HoldsBill(req[x])
    PROVE  x = h
BY DEF Inv, LockInv

\* A wallet payment past its check holds the row of the bill.
LEMMA FundedHolds ==
    ASSUME Inv, NEW h \in Handlers, req[h].funded
    PROVE  HoldsBill(req[h]) /\ Funded(req[h])
<1>1. RequestOK(req[h])
  BY DEF Inv, TypeInv, RequestsOK
<1> QED
  BY <1>1 DEF Inv, ReqInv, RequestOK, HoldsBill

KnownCharges == \A h \in Handlers : KnowsCharge(req[h])
FundedRequests == \A h \in Handlers : req[h].funded => Funded(req[h])
BookedArePaid == \A c \in Charges : booked[c] = 1 => charge[c].state = "paid"

\* What a request knows of its charge stays true: a paid charge does not change.
LEMMA StillKnown ==
    ASSUME Inv, NEW x \in Handlers, req'[x] = req[x],
           \A c \in Charges : charge[c].state = "paid" => charge'[c] = charge[c]
    PROVE  KnowsCharge(req[x])'
<1>1. RequestOK(req[x]) /\ KnowsCharge(req[x])
  BY DEF Inv, TypeInv, RequestsOK, ReqInv
<1>2. req[x].op \in Charged => req[x].charge \in Charges
  BY <1>1 DEF RequestOK
<1> QED
  BY <1>1, <1>2 DEF KnowsCharge

\* and so does the wallet check of the request that holds the bill.
LEMMA StillFunded ==
    ASSUME Inv, NEW x \in Handlers, req'[x] = req[x],
           ~HoldsBill(req[x]) \/ (wallet' = wallet /\ tally'.raced = tally.raced /\ bill' = bill)
    PROVE  (req[x].funded => Funded(req[x]))'
<1>1. SUFFICES ASSUME req[x].funded PROVE Funded(req[x])'
  OBVIOUS
<1>2. HoldsBill(req[x]) /\ Funded(req[x])
  BY <1>1, FundedHolds
<1> QED
  BY <1>2 DEF Funded

\* The others keep what they know when a handler ends.
LEMMA KnownFreed ==
    ASSUME Inv, NEW h \in Handlers, Ends(h),
           \A c \in Charges : charge[c].state = "paid" => charge'[c] = charge[c]
    PROVE  KnownCharges'
<1>1. req'[h] = Idle /\ \A x \in Handlers \ {h} : req'[x] = req[x]
  BY Frees DEF Inv, TypeInv, RestOK
<1>2. KnowsCharge(req[h])'
  BY <1>1, IdleRequest DEF KnowsCharge, Charged
<1>3. \A x \in Handlers \ {h} : KnowsCharge(req[x])'
  BY <1>1, StillKnown
<1> QED
  BY <1>2, <1>3 DEF KnownCharges

\* A request that ends leaves the others funded, unless one of them holds the bill.
LEMMA FundedFreed ==
    ASSUME Inv, NEW h \in Handlers, Ends(h),
           \/ wallet' = wallet /\ tally'.raced = tally.raced /\ bill' = bill
           \/ \A x \in Handlers \ {h} : ~HoldsBill(req[x])
    PROVE  FundedRequests'
<1>1. req'[h] = Idle /\ \A x \in Handlers \ {h} : req'[x] = req[x]
  BY Frees DEF Inv, TypeInv, RestOK
<1>2. (req[h].funded => Funded(req[h]))'
  BY <1>1, IdleRequest
<1>3. \A x \in Handlers \ {h} : (req[x].funded => Funded(req[x]))'
  BY <1>1, StillFunded
<1> QED
  BY <1>2, <1>3 DEF FundedRequests

\* Every step leaves the requests what they know.
LEMMA StepRequests ==
    ASSUME Inv, Steps
    PROVE  ReqInv'
<1>0. BookedOnce /\ BookedArePaid /\ booked \in [Charges -> Nat]
  BY DEF Inv, ReqInv, BookedOnce, BookedArePaid, TypeInv, BooksOK
<1>1. SUFFICES KnownCharges' /\ FundedRequests' /\ BookedOnce' /\ BookedArePaid'
  BY DEF KnownCharges, FundedRequests, BookedOnce, BookedArePaid, ReqInv
<1>2. ASSUME booked' = booked, \A c \in Charges : charge[c].state = "paid" => charge'[c] = charge[c]
      PROVE  BookedOnce' /\ BookedArePaid'
  BY <1>0, <1>2 DEF BookedOnce, BookedArePaid
<1>3. ASSUME NEW h \in Handlers, Starts(h)
      PROVE  KnownCharges' /\ FundedRequests' /\ BookedOnce' /\ BookedArePaid'
  <2>1. PICK r : /\ req' = [req EXCEPT ![h] = r] /\ RequestOK(r) /\ r.funded = FALSE
                 /\ KnowsCharge(r)
    BY <1>3 DEF Starts
  <2>2. req'[h] = r /\ \A x \in Handlers \ {h} : req'[x] = req[x]
    BY <2>1, GivenRequest DEF Inv, TypeInv
  <2>3. UNCHANGED <<wallet, tally, bill, charge, booked>>
    BY <1>3 DEF Starts, money
  <2>4. KnowsCharge(req[h])'
    BY <2>1, <2>2, <2>3 DEF KnowsCharge
  <2>5. \A x \in Handlers \ {h} : KnowsCharge(req[x])'
    BY <2>2, <2>3, StillKnown
  <2>6. (req[h].funded => Funded(req[h]))'
    BY <2>1, <2>2
  <2>7. \A x \in Handlers \ {h} : (req[x].funded => Funded(req[x]))'
    BY <2>2, <2>3, StillFunded
  <2>8. BookedOnce' /\ BookedArePaid'
    BY <1>2, <2>3
  <2> QED
    BY <2>4, <2>5, <2>6, <2>7, <2>8 DEF KnownCharges, FundedRequests
<1>4. ASSUME NEW h \in Handlers, Acquire(h)
      PROVE  KnownCharges' /\ FundedRequests' /\ BookedOnce' /\ BookedArePaid'
  <2>1. /\ \A x \in Handlers \ {h} : req'[x] = req[x]
        /\ req'[h].op = req[h].op /\ req'[h].targets = req[h].targets
        /\ req'[h].amount = req[h].amount /\ req'[h].charge = req[h].charge
        /\ req'[h].funded = FALSE
    BY <1>4, Acquires DEF Inv
  <2>2. UNCHANGED <<wallet, tally, bill, charge, booked>>
    BY <1>4 DEF Acquire, money, paystack
  <2>3. KnowsCharge(req[h])'
    BY <2>1, <2>2 DEF KnowsCharge, Inv, ReqInv
  <2>4. \A x \in Handlers \ {h} : KnowsCharge(req[x])'
    BY <2>1, <2>2, StillKnown
  <2>5. (req[h].funded => Funded(req[h]))'
    BY <2>1
  <2>6. \A x \in Handlers \ {h} : (req[x].funded => Funded(req[x]))'
    BY <2>1, <2>2, StillFunded
  <2>7. BookedOnce' /\ BookedArePaid'
    BY <1>2, <2>2
  <2> QED
    BY <2>3, <2>4, <2>5, <2>6, <2>7 DEF KnownCharges, FundedRequests
<1>5. ASSUME NEW h \in Handlers, Leaves(h)
      PROVE  KnownCharges' /\ FundedRequests' /\ BookedOnce' /\ BookedArePaid'
  <2>1. Ends(h) /\ UNCHANGED <<wallet, tally, bill, charge, booked>>
    BY <1>5 DEF Leaves, money
  <2> QED
    BY <1>2, <2>1, KnownFreed, FundedFreed
<1>6. ASSUME NEW h \in Handlers, Passes(h)
      PROVE  KnownCharges' /\ FundedRequests' /\ BookedOnce' /\ BookedArePaid'
  <2>1. /\ \A x \in Handlers \ {h} : req'[x] = req[x]
        /\ req'[h].op = "wallet" /\ Funded(req'[h])
        /\ UNCHANGED <<wallet, tally, bill, charge, booked>>
    BY <1>6, PassedIs DEF money
  <2>2. KnowsCharge(req[h])'
    BY <2>1 DEF KnowsCharge, Charged
  <2>3. \A x \in Handlers \ {h} : KnowsCharge(req[x])'
    BY <2>1, StillKnown
  <2>4. Funded(req[h])'
    BY <2>1 DEF Funded
  <2>5. \A x \in Handlers \ {h} : (req[x].funded => Funded(req[x]))'
    BY <2>1, StillFunded
  <2>6. BookedOnce' /\ BookedArePaid'
    BY <1>2, <2>1
  <2> QED
    BY <2>2, <2>3, <2>4, <2>5, <2>6 DEF KnownCharges, FundedRequests
<1>7. ASSUME NEW h \in Handlers, HoldsBill(req[h]) PROVE \A x \in Handlers \ {h} : ~HoldsBill(req[x])
  BY <1>7, OneHoldsBill
<1>8. ASSUME NEW h \in Handlers, PayFromWallet(h) \/ Cancels(h)
      PROVE  KnownCharges' /\ FundedRequests' /\ BookedOnce' /\ BookedArePaid'
  <2>1. HoldsBill(req[h]) /\ Ends(h) /\ UNCHANGED <<charge, booked>>
    BY <1>8, PaysFromWallet, BillIsCancelled DEF PayFromWallet, paystack
  <2> QED
    BY <1>2, <1>7, <2>1, KnownFreed, FundedFreed
<1>9. ASSUME NEW h \in Handlers, BooksCard(h) \/ BooksGuest(h)
      PROVE  KnownCharges' /\ FundedRequests' /\ BookedOnce' /\ BookedArePaid'
  <2>1. /\ Ends(h) /\ charge' = charge /\ req[h].charge \in Charges
        /\ booked[req[h].charge] = 0 /\ booked' = [booked EXCEPT ![req[h].charge] = @ + 1]
    BY <1>9, CardIsBooked, GuestIsBooked DEF BooksCard, BooksGuest, BookGuest
  <2>2. RequestOK(req[h]) /\ KnowsCharge(req[h])
    BY DEF Inv, TypeInv, RequestsOK, ReqInv
  <2>3. req[h].op \in Charged /\ HoldsBill(req[h])
    BY <1>9, <2>2, ReadyHolds DEF BooksCard, BooksGuest, Ops, Charged
  <2>4. charge[req[h].charge].state = "paid"
    BY <2>2, <2>3 DEF KnowsCharge
  <2>5. BookedOnce' /\ BookedArePaid'
    BY <1>0, <2>1, <2>4 DEF BookedOnce, BookedArePaid
  <2> QED
    BY <1>7, <2>1, <2>3, <2>5, KnownFreed, FundedFreed
<1>10. ASSUME NEW h \in Handlers, Opens(h) \/ SaveLink(h)
       PROVE  KnownCharges' /\ FundedRequests' /\ BookedOnce' /\ BookedArePaid'
  <2>1. /\ Ends(h) /\ UNCHANGED <<bill, wallet, booked>> /\ tally'.raced = tally.raced
        /\ \E c \in Charges : /\ charge[c].state = "none"
                              /\ \A x \in Charges \ {c} : charge'[x] = charge[x]
    BY <1>10, CardIsOpened, LinkIsSaved DEF money
  <2>2. \A c \in Charges : charge[c].state = "paid" => charge'[c] = charge[c]
    BY <2>1
  <2> QED
    BY <1>2, <2>1, <2>2, KnownFreed, FundedFreed
<1>11. ASSUME NEW h \in Handlers, WriteFinalized(h)
       PROVE  KnownCharges' /\ FundedRequests' /\ BookedOnce' /\ BookedArePaid'
  <2>1. Ends(h) /\ UNCHANGED <<charge, booked>> /\ Free({BillRow}, h)
    BY <1>11 DEF WriteFinalized, paystack
  <2>2. \A x \in Handlers \ {h} : ~HoldsBill(req[x])
    BY <2>1 DEF Free, Inv, LockInv
  <2> QED
    BY <1>2, <2>1, <2>2, KnownFreed, FundedFreed
<1>12. CASE Elsewhere
  <2>1. /\ UNCHANGED <<bill, booked, req>>
        /\ \A c \in Charges : charge[c].state = "paid" => charge'[c] = charge[c]
        /\ \/ tally' = tally /\ wallet' = wallet
           \/ /\ tally.raced => tally'.raced
              /\ \E u \in Users : /\ \A w \in Users \ {u} : wallet'[w] = wallet[w]
                                  /\ \A h \in Handlers : req[h].funded /\ req[h].payer = u => tally'.raced
    BY <1>12, ElsewhereIs DEF Inv
  <2>2. \A x \in Handlers : KnowsCharge(req[x])'
    BY <2>1, StillKnown
  <2>3. ASSUME NEW x \in Handlers, req[x].funded PROVE Funded(req[x])'
    <3>1. Funded(req[x]) /\ req[x].payer \in Users
      BY <2>3, FundedHolds DEF Inv, TypeInv, RequestsOK, Requests
    <3> QED
      BY <2>1, <2>3, <3>1 DEF Funded
  <2>4. FundedRequests'
    BY <2>1, <2>3 DEF FundedRequests
  <2>5. BookedOnce' /\ BookedArePaid'
    BY <1>2, <2>1
  <2> QED
    BY <2>2, <2>4, <2>5 DEF KnownCharges
<1> QED
  BY <1>3, <1>4, <1>5, <1>6, <1>8, <1>9, <1>10, <1>11, <1>12 DEF Steps

\* The invariant holds in every reachable state.
LEMMA InvAlways == Spec => []Inv
<1>1. Inv /\ [Next]_vars => Inv'
  <2> SUFFICES ASSUME Inv, [Next]_vars PROVE Inv'
    OBVIOUS
  <2>1. Steps
    BY NextSteps DEF Inv
  <2> QED
    BY <2>1, StepType, StepLocks, StepRequests DEF Inv
<1> QED
  BY <1>1, InitInv, PTL DEF Spec

-----------------------------------------------------------------------------
(* The money *)

MoneyTypes ==
    /\ Paid \in Nat /\ Sum(escrow) \in Nat /\ BookedMoney \in Nat /\ bill.collected \in Nat
    /\ tally \in Tallies
    /\ tally.surplus \in Nat /\ tally.wiped \in Int /\ tally.unfunded \in Nat

\* The sums are naturals.
LEMMA SumTypes == Inv => MoneyTypes
<1> SUFFICES ASSUME Inv PROVE MoneyTypes
  OBVIOUS
<1>1. BooksOK /\ ChargesOK
  BY DEF Inv, TypeInv
<1>2. Paid \in Nat
  BY <1>1, PaidType DEF BooksOK
<1>3. Sum(escrow) \in Nat
  <2>1. IsFiniteSet(Users)
    BY FiniteAssumption, FS_Subset DEF Participants
  <2> QED
    BY <1>1, <2>1, SumNat, Adds DEF BooksOK
<1>4. BookedMoney \in Nat
  <2> DEFINE f == [c \in Charges |-> booked[c] * charge[c].amount]
  <2>1. ASSUME NEW c \in Charges PROVE booked[c] * charge[c].amount \in Nat
    <3>1. charge[c].amount \in Nat /\ (booked[c] = 0 \/ booked[c] = 1)
      BY <1>1 DEF ChargesOK, ChargeRows, Inv, ReqInv
    <3>2. \A n \in Nat : 0 * n \in Nat /\ 1 * n \in Nat
      OBVIOUS
    <3> QED
      BY <3>1, <3>2
  <2>2. f \in [Charges -> Nat]
    BY <2>1
  <2>3. BookedMoney = SumOf(f)
    BY Adds DEF BookedMoney
  <2> HIDE DEF f
  <2> QED
    BY <2>2, <2>3, SumNat, FiniteAssumption
<1> QED
  BY <1>1, <1>2, <1>3, <1>4 DEF BooksOK, Tallies, MoneyTypes

\* The parts of CollectedAddsUp, with the booked money by its name.
Attributed == bill.collected = Paid + tally.surplus + tally.wiped
Backed == bill.collected = Sum(escrow) + tally.unfunded + BookedMoney
Raced == tally.unfunded > 0 => tally.raced

\* The sums of the bill, part by part.
LEMMA MoneyIs ==
    CollectedAddsUp <=> Attributed /\ Backed /\ Raced /\ UsersNeverOverpay /\ RefundCoversPaid
BY DEF CollectedAddsUp, CollectedIsAttributed, CollectedIsFunded, Attributed, Backed, Raced, BookedMoney

\* The sums of a new bill add up.
LEMMA InitMoney == Init => CollectedAddsUp
<1> SUFFICES ASSUME Init PROVE CollectedAddsUp
  OBVIOUS
<1> DEFINE zero(S) == [x \in S |-> 0]
<1>1. /\ bill.collected = 0 /\ bill.status = "active" /\ tally.surplus = 0 /\ tally.wiped = 0
      /\ tally.unfunded = 0
  BY DEF Init
<1>2. Paid = 0
  <2>1. [p \in Participants |-> part[p].paid] = [p \in Participants |-> 0]
    BY DEF Init
  <2> QED
    BY <2>1, SumZero, FiniteAssumption, Adds DEF Paid
<1>3. Sum(escrow) = 0
  <2>1. IsFiniteSet(Users)
    BY FiniteAssumption, FS_Subset DEF Participants
  <2>2. escrow = [u \in Users |-> 0]
    BY DEF Init
  <2> QED
    BY <2>1, <2>2, SumZero, Adds
<1>4. BookedMoney = 0
  <2>1. \A n \in Nat : 0 * n = 0
    OBVIOUS
  <2>2. \A c \in Charges : booked[c] * charge[c].amount = 0
    BY <2>1 DEF Init, NoCharge
  <2>3. [c \in Charges |-> booked[c] * charge[c].amount] = [c \in Charges |-> 0]
    BY <2>2
  <2> QED
    BY <2>3, SumZero, FiniteAssumption, Adds DEF BookedMoney
<1>5. Attributed /\ Backed /\ Raced /\ RefundCoversPaid
  BY <1>1, <1>2, <1>3, <1>4 DEF Attributed, Backed, Raced, RefundCoversPaid
<1>6. UsersNeverOverpay
  BY AmountsAssumption DEF Init, UsersNeverOverpay, Participants
<1> QED
  BY <1>5, <1>6, MoneyIs

\* Every step keeps the money together.
LEMMA StepMoney ==
    ASSUME Inv, Inv', CollectedAddsUp, Steps
    PROVE  CollectedAddsUp'
<1>0. /\ Attributed /\ Backed /\ Raced /\ UsersNeverOverpay /\ RefundCoversPaid
      /\ Paid \in Nat /\ Sum(escrow) \in Nat /\ BookedMoney \in Nat
      /\ bill.collected \in Nat /\ tally \in Tallies
      /\ tally.surplus \in Nat /\ tally.wiped \in Int /\ tally.unfunded \in Nat
  BY MoneyIs, SumTypes DEF MoneyTypes
<1>00. /\ Paid' \in Nat /\ Sum(escrow') \in Nat /\ BookedMoney' \in Nat
       /\ tally' \in Tallies /\ tally'.surplus \in Nat /\ tally'.wiped \in Int /\ tally'.unfunded \in Nat
  <2>1. Inv' => MoneyTypes'
    BY SumTypes, PTL
  <2> QED
    BY <2>1 DEF MoneyTypes
<1>01. SUFFICES Attributed' /\ Backed' /\ Raced' /\ UsersNeverOverpay' /\ RefundCoversPaid'
  BY DEF CollectedAddsUp, CollectedIsAttributed, CollectedIsFunded, Attributed, Backed, Raced, BookedMoney
<1>02. ChargesOK /\ ChargesOK' /\ BookedOnce /\ booked \in [Charges -> Nat]
  BY DEF Inv, TypeInv, BooksOK, ReqInv, BookedOnce
<1>1. ASSUME UNCHANGED <<bill, part, escrow, booked>>,
             \A c \in Charges : booked[c] = 1 => charge'[c].amount = charge[c].amount,
             tally'.surplus = tally.surplus, tally'.unfunded = tally.unfunded,
             tally'.wiped = tally.wiped, tally'.refunded = tally.refunded,
             tally'.stale = tally.stale, tally'.again = tally.again, tally.raced => tally'.raced
      PROVE  Attributed' /\ Backed' /\ Raced' /\ UsersNeverOverpay' /\ RefundCoversPaid'
  <2>1. Paid' = Paid /\ BookedMoney' = BookedMoney /\ Sum(escrow') = Sum(escrow)
    BY <1>1, <1>02, BookingStays DEF Paid
  <2>2. Attributed' /\ Backed' /\ Raced'
    BY <1>0, <1>1, <2>1 DEF Attributed, Backed, Raced
  <2>3. UsersNeverOverpay' /\ RefundCoversPaid'
    BY <1>0, <1>1, <2>1 DEF UsersNeverOverpay, RefundCoversPaid
  <2> QED
    BY <2>2, <2>3
<1>2. ASSUME NEW h \in Handlers, Starts(h) \/ Acquire(h) \/ Leaves(h) \/ Passes(h)
      PROVE  Attributed' /\ Backed' /\ Raced' /\ UsersNeverOverpay' /\ RefundCoversPaid'
  <2>1. UNCHANGED <<bill, part, escrow, booked, tally, charge>>
    BY <1>2, PassedIs DEF Starts, Acquire, Leaves, money, paystack
  <2> QED
    BY <1>1, <2>1
<1>3. \A c \in Charges : booked[c] = 1 => charge[c].state = "paid"
  BY DEF Inv, ReqInv
<1>4. ASSUME NEW h \in Handlers, Opens(h)
      PROVE  Attributed' /\ Backed' /\ Raced' /\ UsersNeverOverpay' /\ RefundCoversPaid'
  <2>1. /\ UNCHANGED <<bill, part, escrow, booked, tally>>
        /\ \E c \in Charges : /\ charge[c].state = "none"
                              /\ \A x \in Charges \ {c} : charge'[x] = charge[x]
    BY <1>4, CardIsOpened DEF money
  <2>2. \A c \in Charges : booked[c] = 1 => charge'[c].amount = charge[c].amount
    BY <1>3, <2>1
  <2> QED
    BY <1>1, <2>1, <2>2
<1>5. ASSUME NEW h \in Handlers, PayFromWallet(h)
      PROVE  Attributed' /\ Backed' /\ Raced' /\ UsersNeverOverpay' /\ RefundCoversPaid'
  <2>1. /\ bill'.collected = bill.collected + req[h].amount /\ bill'.status # "cancelled"
        /\ Paid' = Paid + req[h].amount /\ UsersNeverOverpay'
        /\ tally'.surplus = tally.surplus /\ tally'.wiped = tally.wiped /\ tally'.raced = tally.raced
        /\ \/ Sum(escrow') = Sum(escrow) + req[h].amount /\ tally'.unfunded = tally.unfunded
           \/ escrow' = escrow /\ tally.raced /\ tally'.unfunded = tally.unfunded + req[h].amount
    BY <1>0, <1>5, PaysFromWallet
  <2>2. booked' = booked /\ charge' = charge /\ req[h].amount \in Nat
    BY <1>5 DEF PayFromWallet, paystack, Inv, TypeInv, RequestsOK, Requests
  <2>3. BookedMoney' = BookedMoney
    BY <2>2 DEF BookedMoney
  <2>4. Attributed'
    BY <1>0, <2>1, <2>2 DEF Attributed
  <2>5. Backed'
    BY <1>0, <2>1, <2>2, <2>3 DEF Backed
  <2>6. Raced' /\ RefundCoversPaid'
    BY <1>0, <2>1 DEF Raced, RefundCoversPaid
  <2> QED
    BY <2>1, <2>4, <2>5, <2>6
<1>6. ASSUME NEW h \in Handlers, BooksCard(h) \/ BooksGuest(h)
      PROVE  Attributed' /\ Backed' /\ Raced' /\ UsersNeverOverpay' /\ RefundCoversPaid'
  <2>1. /\ bill'.collected = bill.collected + req[h].amount /\ bill'.status # "cancelled"
        /\ Paid' + tally'.surplus = Paid + tally.surplus + req[h].amount /\ UsersNeverOverpay'
        /\ tally'.wiped = tally.wiped /\ tally'.raced = tally.raced /\ tally'.unfunded = tally.unfunded
        /\ req[h].charge \in Charges /\ booked[req[h].charge] = 0
        /\ booked' = [booked EXCEPT ![req[h].charge] = @ + 1]
    <3>1. CASE BooksCard(h)
      BY <1>0, <3>1, CardIsBooked
    <3>2. CASE BooksGuest(h)
      <4>1. req[h].amount \in Nat
        BY DEF Inv, TypeInv, RequestsOK, Requests
      <4>2. Paid' + tally'.surplus = Paid + tally.surplus + req[h].amount
        BY <1>0, <3>2, <4>1, GuestIsBooked
      <4> QED
        BY <1>0, <3>2, <4>2, GuestIsBooked
    <3> QED
      BY <1>6, <3>1, <3>2
  <2>2. /\ RequestOK(req[h]) /\ KnowsCharge(req[h]) /\ req[h].amount \in Nat
        /\ charge' = charge /\ escrow' = escrow
    BY <1>6 DEF Inv, TypeInv, RequestsOK, Requests, ReqInv, BooksCard, BooksGuest, BookGuest
  <2>3. req[h].op \in Charged
    BY <1>6, <2>2, ReadyHolds DEF BooksCard, BooksGuest, Ops, Charged
  <2>4. charge[req[h].charge].amount = req[h].amount
    BY <2>2, <2>3 DEF KnowsCharge
  <2>5. BookedMoney' = BookedMoney + req[h].amount
    BY <1>02, <2>1, <2>2, <2>4, BookingAdds
  <2>6. Attributed'
    BY <1>0, <1>00, <2>1, <2>2 DEF Attributed
  <2>7. Backed'
    BY <1>0, <2>1, <2>2, <2>5 DEF Backed
  <2>8. Raced' /\ RefundCoversPaid'
    BY <1>0, <2>1 DEF Raced, RefundCoversPaid
  <2> QED
    BY <2>1, <2>6, <2>7, <2>8
<1>7. ASSUME NEW h \in Handlers, SaveLink(h)
      PROVE  Attributed' /\ Backed' /\ Raced' /\ UsersNeverOverpay' /\ RefundCoversPaid'
  <2>1. /\ UNCHANGED <<bill, escrow, booked>>
        /\ \E c \in Charges : /\ charge[c].state = "none"
                              /\ \A x \in Charges \ {c} : charge'[x] = charge[x]
        /\ Paid' + tally'.wiped = Paid + tally.wiped
        /\ tally'.stale \/ (Paid' = Paid /\ ~tally.stale)
        /\ tally'.surplus = tally.surplus /\ tally'.unfunded = tally.unfunded
        /\ tally'.raced = tally.raced /\ tally'.again = tally.again
        /\ tally'.refunded = tally.refunded /\ UsersNeverOverpay'
    BY <1>0, <1>7, LinkIsSaved
  <2>2. \A c \in Charges : booked[c] = 1 => charge'[c].amount = charge[c].amount
    BY <1>3, <2>1
  <2>3. BookedMoney' = BookedMoney
    BY <1>02, <2>1, <2>2, BookingStays
  <2>4. Attributed'
    BY <1>0, <1>00, <2>1 DEF Attributed
  <2>5. Backed' /\ Raced'
    BY <1>0, <2>1, <2>3 DEF Backed, Raced
  <2>6. RefundCoversPaid'
    BY <1>0, <2>1 DEF RefundCoversPaid
  <2> QED
    BY <2>1, <2>4, <2>5, <2>6
<1>8. ASSUME NEW h \in Handlers, WriteFinalized(h)
      PROVE  Attributed' /\ Backed' /\ Raced' /\ UsersNeverOverpay' /\ RefundCoversPaid'
  <2>1. /\ UNCHANGED <<part, escrow, booked, tally, charge>>
        /\ bill' = [bill EXCEPT !.finalized = TRUE, !.status = "active"]
    BY <1>8 DEF WriteFinalized, paystack
  <2>2. bill'.collected = bill.collected /\ bill'.status = "active"
    BY <2>1 DEF Inv, TypeInv, BooksOK
  <2>3. Paid' = Paid /\ BookedMoney' = BookedMoney
    BY <2>1 DEF Paid, BookedMoney
  <2> QED
    BY <1>0, <2>1, <2>2, <2>3 DEF Attributed, Backed, Raced, UsersNeverOverpay, RefundCoversPaid
<1>9. ASSUME NEW h \in Handlers, Cancels(h)
      PROVE  Attributed' /\ Backed' /\ Raced' /\ UsersNeverOverpay' /\ RefundCoversPaid'
  <2>1. /\ UNCHANGED <<part, escrow, booked, charge>>
        /\ bill'.collected = bill.collected
        /\ tally'.surplus = tally.surplus /\ tally'.unfunded = tally.unfunded
        /\ tally'.raced = tally.raced /\ tally'.wiped = tally.wiped
        /\ tally'.again \/ tally'.refunded = Paid
    BY <1>9, BillIsCancelled DEF paystack
  <2>2. Paid' = Paid /\ BookedMoney' = BookedMoney
    BY <2>1 DEF Paid, BookedMoney
  <2> QED
    BY <1>0, <2>1, <2>2 DEF Attributed, Backed, Raced, UsersNeverOverpay, RefundCoversPaid
<1>10. CASE Elsewhere
  <2>1. /\ UNCHANGED <<bill, part, escrow, booked>>
        /\ \A c \in Charges : charge'[c].amount = charge[c].amount
        /\ tally'.surplus = tally.surplus /\ tally'.unfunded = tally.unfunded
        /\ tally'.wiped = tally.wiped /\ tally'.refunded = tally.refunded
        /\ tally'.stale = tally.stale /\ tally'.again = tally.again
        /\ tally.raced => tally'.raced
    BY <1>10, ElsewhereIs DEF Inv
  <2> QED
    BY <1>1, <2>1
<1> QED
  BY <1>2, <1>4, <1>5, <1>6, <1>7, <1>8, <1>9, <1>10 DEF Steps

-----------------------------------------------------------------------------
(* The theorems *)

\* Every variable keeps its type: no balance, debt or tally goes below zero.
THEOREM TypeCorrect == Spec => []TypeOK
<1>1. Inv => TypeOK
  BY DEF Inv, TypeInv, BooksOK, RequestsOK, ChargesOK, RestOK, TypeOK, ChargeRows, Tallies,
         Requests, RequestOK
<1> QED
  BY <1>1, InvAlways, PTL

\* What the bill has collected is what its participants paid and what backs it,
\* nobody with an account pays more than the share, and the refunds of a
\* cancelled bill cover what was paid.
THEOREM MoneyAddsUp == Spec => []CollectedAddsUp
<1>1. Inv /\ Inv' /\ CollectedAddsUp /\ [Next]_vars => CollectedAddsUp'
  BY StepMoney, NextSteps DEF Inv
<1> QED
  BY <1>1, InvAlways, InitMoney, PTL DEF Spec

\* Only a webhook or finalizeBill reopens a cancelled bill.
THEOREM StaysCancelled == Spec => ReopenedOnlyByCardOrFinalize
<1> DEFINE Reopens == bill.status = "cancelled" /\ bill'.status # "cancelled"
           ByCardOrFinalize ==
              \E h \in Handlers : /\ req[h].op \in {"hook", "guestHook", "finalize"}
                                  /\ req'[h] = Idle
<1>1. ASSUME Inv, [Next]_vars, Reopens PROVE ByCardOrFinalize
  <2>1. Steps
    BY <1>1, NextSteps DEF Inv
  <2>3. ASSUME NEW h \in Handlers, Ends(h) PROVE req'[h] = Idle
    BY <1>1, <2>3, Frees DEF Inv, TypeInv, RestOK
  <2>4. ASSUME NEW h \in Handlers,
               Starts(h) \/ Acquire(h) \/ Leaves(h) \/ Passes(h) \/ Opens(h) \/ SaveLink(h)
        PROVE  UNCHANGED bill
    BY <1>1, <2>4, PassedIs, CardIsOpened, LinkIsSaved DEF Starts, Acquire, Leaves, money, paystack
  <2>5. ASSUME NEW h \in Handlers, Cancels(h) PROVE FALSE
    BY <1>1, <2>5, BillIsCancelled
  <2>6. ASSUME NEW h \in Handlers, PayFromWallet(h) PROVE FALSE
    <3>1. Funded(req[h])
      BY <1>1, <2>6, FundedHolds DEF PayFromWallet
    <3> QED
      BY <1>1, <3>1 DEF Funded
  <2>7. ASSUME NEW h \in Handlers, BooksCard(h) \/ WriteFinalized(h) PROVE ByCardOrFinalize
    BY <2>3, <2>7 DEF BooksCard, WriteFinalized, Ready
  <2>8. ASSUME NEW h \in Handlers, BooksGuest(h), req[h].op = "guestHook" PROVE ByCardOrFinalize
    BY <2>3, <2>8 DEF BooksGuest, BookGuest
  <2>10. ASSUME NEW h \in Handlers, BooksGuest(h) PROVE ByCardOrFinalize
    BY <1>1, <2>8, <2>10 DEF BooksGuest, Ready
  <2>9. CASE Elsewhere
    BY <1>1, <2>9, ElsewhereIs DEF Inv
  <2>11. ASSUME UNCHANGED bill PROVE FALSE
    BY <1>1, <2>11
  <2> HIDE DEF Reopens, ByCardOrFinalize
  <2> QED
    BY <2>1, <2>4, <2>5, <2>6, <2>7, <2>9, <2>10, <2>11 DEF Steps
<1>2. Inv /\ [Next]_vars =>
        [bill.status = "cancelled" /\ bill'.status # "cancelled"
           => \E h \in Handlers : /\ req[h].op \in {"hook", "guestHook", "finalize"}
                                   /\ req'[h] = Idle]_vars
  BY <1>1
<1> HIDE DEF Reopens, ByCardOrFinalize
<1> QED
  BY <1>2, InvAlways, PTL DEF Spec, ReopenedOnlyByCardOrFinalize

-----------------------------------------------------------------------------
(* Every charge is booked once *)

\* A step that opens a charge opens it unpaid, and no other changes.
LEMMA OpenedUnpaid ==
    ASSUME Inv, NEW h \in Handlers, Opens(h) \/ SaveLink(h)
    PROVE  \A x \in Charges : charge'[x].state = "paid" <=> charge[x].state = "paid"
<1>1. charge \in [Charges -> ChargeRows]
  BY DEF Inv, TypeInv, ChargesOK
<1>2. ASSUME NEW c \in Charges, NEW k, k.state = "open", charge[c].state = "none",
             charge' = [charge EXCEPT ![c] = k]
      PROVE  \A x \in Charges : charge'[x].state = "paid" <=> charge[x].state = "paid"
  <2>1. charge'[c] = k /\ \A x \in Charges \ {c} : charge'[x] = charge[x]
    BY <1>1, <1>2
  <2> QED
    BY <1>2, <2>1
<1>3. CASE Opens(h)
  <2>1. PICK c \in Charges :
           /\ charge[c].state = "none"
           /\ charge' = [charge EXCEPT ![c] = [state |-> "open", kind |-> "user", payer |-> req[h].payer,
                                               targets |-> req[h].targets, amount |-> req[h].amount]]
    BY <1>3 DEF Opens, OpenCardCharge
  <2> DEFINE k == [state |-> "open", kind |-> "user", payer |-> req[h].payer,
                   targets |-> req[h].targets, amount |-> req[h].amount]
  <2>2. k.state = "open"
    OBVIOUS
  <2> QED
    BY <1>2, <2>1, <2>2
<1>4. CASE SaveLink(h)
  <2>1. PICK g \in req[h].targets, c \in Charges :
           /\ charge[c].state = "none"
           /\ charge' = [charge EXCEPT ![c] = [state |-> "open", kind |-> "guest", payer |-> Creator,
                                               targets |-> {g}, amount |-> req[h].amount]]
    BY <1>4 DEF SaveLink
  <2> DEFINE k == [state |-> "open", kind |-> "guest", payer |-> Creator,
                   targets |-> {g}, amount |-> req[h].amount]
  <2>2. k.state = "open"
    OBVIOUS
  <2> QED
    BY <1>2, <2>1, <2>2
<1> QED
  BY <1>3, <1>4

\* A booking is of a charge that is paid and was not booked.
LEMMA BooksOnce ==
    ASSUME Inv, NEW h \in Handlers, BooksCard(h) \/ BooksGuest(h)
    PROVE  /\ UNCHANGED charge
           /\ \E c \in Charges : /\ charge[c].state = "paid" /\ booked[c] = 0 /\ booked'[c] = 1
                                 /\ \A x \in Charges \ {c} : booked'[x] = booked[x]
<1>1. /\ req[h].charge \in Charges /\ booked[req[h].charge] = 0
      /\ booked' = [booked EXCEPT ![req[h].charge] = @ + 1]
  BY CardIsBooked, GuestIsBooked
<1>2. req[h].op \in Charged
  BY DEF BooksCard, BooksGuest, Ready, Charged
<1>3. UNCHANGED charge
  BY DEF BooksCard, BooksGuest, BookGuest
<1>4. booked \in [Charges -> Nat]
  BY DEF Inv, TypeInv, BooksOK
<1>5. charge[req[h].charge].state = "paid"
  BY <1>2 DEF Inv, ReqInv, KnowsCharge
<1>6. /\ booked'[req[h].charge] = 1
      /\ \A x \in Charges \ {req[h].charge} : booked'[x] = booked[x]
  BY <1>1, <1>4
<1> QED
  BY <1>1, <1>3, <1>5, <1>6

\* The bill keeps the safety part of ChargeOnce for any of its charges: each step
\* pays it, books it or leaves it, and it is booked at most once, only when paid.
THEOREM ImplementsPromise ==
    Spec => Promise!Init /\ [][Promise!Next]_<<charge[Watched].state = "paid", booked[Watched]>>
<1> USE PeopleAssumption
<1>1. Init => Promise!Init
  BY DEF Init, NoCharge, Promise!Init
<1>2. ASSUME Inv, [Next]_vars
      PROVE  [Promise!Next]_<<charge[Watched].state = "paid", booked[Watched]>>
  <2> USE DEF Promise!Next, Promise!Pay, Promise!Record
  <2>1. Steps
    BY <1>2, NextSteps DEF Inv
  <2>2. booked[Watched] \in {0, 1} /\ charge \in [Charges -> ChargeRows]
    BY <1>2 DEF Inv, ReqInv, TypeInv, ChargesOK
  <2>3. ASSUME NEW h \in Handlers,
               \/ Starts(h) \/ Acquire(h) \/ Leaves(h) \/ Passes(h)
               \/ PayFromWallet(h) \/ WriteFinalized(h) \/ Cancels(h)
        PROVE  UNCHANGED <<charge, booked>>
    BY <2>3 DEF Starts, Acquire, Leaves, Passes, PayFromWallet, WriteFinalized, Cancels,
                RefundAndCancel, Refuses, money, paystack
  <2>4. ASSUME NEW h \in Handlers, Opens(h) \/ SaveLink(h)
        PROVE  /\ UNCHANGED booked
               /\ charge'[Watched].state = "paid" <=> charge[Watched].state = "paid"
    <3>1. UNCHANGED booked
      BY <1>2, <2>4, CardIsOpened, LinkIsSaved DEF money
    <3> QED
      BY <1>2, <2>4, <3>1, OpenedUnpaid
  <2>5. ASSUME NEW h \in Handlers, BooksCard(h) \/ BooksGuest(h)
        PROVE  [Promise!Next]_<<charge[Watched].state = "paid", booked[Watched]>>
    BY <1>2, <2>2, <2>5, BooksOnce
  <2>6. ASSUME NEW c \in Charges, PayAtPaystack(c)
        PROVE  [Promise!Next]_<<charge[Watched].state = "paid", booked[Watched]>>
    <3>1. /\ UNCHANGED booked /\ charge[c].state = "open"
          /\ charge' = [charge EXCEPT ![c].state = "paid"]
      BY <2>6 DEF PayAtPaystack, money
    <3>2. charge'[c].state = "paid" /\ \A x \in Charges \ {c} : charge'[x] = charge[x]
      BY <2>2, <3>1 DEF ChargeRows
    <3>3. booked[Watched] \in {0, 1} /\ (charge[Watched].state = "paid" => charge'[Watched].state = "paid")
      BY <2>2, <3>1, <3>2
    <3> QED
      BY <3>1, <3>2, <3>3
  <2>7. ASSUME NEW u \in Users, Spend(u) PROVE UNCHANGED <<charge, booked>>
    BY <2>7 DEF Spend, paystack
  <2>8. ASSUME NEW g \in Guests, LinkExpires(g) PROVE UNCHANGED <<charge, booked>>
    BY <2>8 DEF LinkExpires, money, paystack
  <2>9. CASE UNCHANGED vars
    BY <2>9 DEF vars, money, paystack
  <2> QED
    BY <2>1, <2>3, <2>4, <2>5, <2>6, <2>7, <2>8, <2>9 DEF Steps, Elsewhere
<1> QED
  BY <1>1, <1>2, InvAlways, PTL DEF Spec
=============================================================================
