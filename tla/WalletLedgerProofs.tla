------------------------- MODULE WalletLedgerProofs -------------------------
(***************************************************************************)
(* Proofs about WalletLedger, for any wallets, requests, amounts and fee.  *)
(* IInv joins the type invariant with what every row satisfies; each       *)
(* operation changes rows through CreditRow, DebitRow, LockRow and         *)
(* RefundRow, so the row lemmas carry the argument and the step lemma only *)
(* finds out which rows an operation touches.  The books follow from the   *)
(* sums of SumTheorems: an operation posts to one or two entries of each   *)
(* kind.                                                                   *)
(***************************************************************************)
EXTENDS WalletLedger, SumTheorems, TLAPS

\* What a row and its statement satisfy together.
RowOK(x, s) ==
    /\ x.available >= 0
    /\ x.available = x.ledger
    /\ x.available = x.credited - x.debited
    /\ s <= x.available

RowsOK == \A w \in Wallets : RowOK(wallet[w], statement[w])

IInv == TypeOK /\ RowsOK

-----------------------------------------------------------------------------
(* Lemmas about the operators *)

\* The platform fee (calculateFee) is never negative and never exceeds the
\* amount it is taken from, so what is left to credit is not negative.
LEMMA FeeBound ==
    ASSUME NEW a \in Nat
    PROVE  calculateFee(a) \in Int /\ calculateFee(a) >= 0 /\ calculateFee(a) <= a
<1>1. FeePermille \in Int /\ 0 <= FeePermille /\ FeePermille <= 1000 /\ FeeCap \in Nat
  BY FeeAssumption
<1>2. a * FeePermille \in Int /\ 0 <= a * FeePermille /\ a * FeePermille <= a * 1000
  BY <1>1
<1> DEFINE p == a * FeePermille
<1>3. p \in Int /\ 0 <= p /\ p <= a * 1000
  BY <1>2
<1> HIDE DEF p
<1>4. p \div 1000 \in Int /\ 0 <= p \div 1000 /\ p \div 1000 <= a
  BY <1>3
<1>5. calculateFee(a) = IF p \div 1000 < FeeCap THEN p \div 1000 ELSE FeeCap
  BY DEF calculateFee, p
<1> QED
  BY <1>1, <1>4, <1>5

\* A credit (CreditRow), posted with its amount, keeps a row right.
LEMMA CreditRowOK ==
    ASSUME NEW x \in WalletRow, NEW s \in Int, NEW a \in Nat,
           RowOK(x, s)
    PROVE  CreditRow(x, a) \in WalletRow /\ RowOK(CreditRow(x, a), s + a)
<1> DEFINE b == x.available + a
           c == x.ledger + a
           d == x.credited + a
           y == CreditRow(x, a)
<1>1. /\ x.available \in Int /\ x.ledger \in Int
      /\ x.credited \in Int /\ x.debited \in Int
  BY DEF WalletRow
<1>2. b \in Int /\ c \in Int /\ d \in Int
  BY <1>1
<1>3. y = [x EXCEPT !.available = b, !.ledger = c, !.credited = d]
  BY DEF CreditRow
<1>4. y.available = b /\ y.ledger = c /\ y.credited = d /\ y.debited = x.debited
  BY <1>3 DEF WalletRow
<1> HIDE DEF y
<1>5. y.available >= 0
  BY <1>1, <1>4 DEF RowOK
<1>6. y.available = y.ledger
  BY <1>1, <1>4 DEF RowOK
<1>7. y.available = y.credited - y.debited
  BY <1>1, <1>4 DEF RowOK
<1>8. s + a <= y.available
  BY <1>1, <1>4 DEF RowOK
<1>9. RowOK(y, s + a)
  BY <1>5, <1>6, <1>7, <1>8 DEF RowOK
<1> HIDE DEF b, c, d
<1>10. y \in WalletRow
  BY <1>2, <1>3 DEF WalletRow
<1> QED
  BY <1>9, <1>10 DEF y

\* So does a debit (DebitRow) the row has the funds for.
LEMMA DebitRowOK ==
    ASSUME NEW x \in WalletRow, NEW s \in Int, NEW a \in Nat,
           RowOK(x, s), x.available >= a
    PROVE  DebitRow(x, a) \in WalletRow /\ RowOK(DebitRow(x, a), s - a)
<1> DEFINE b == x.available - a
           c == x.ledger - a
           d == x.debited + a
           y == DebitRow(x, a)
<1>1. /\ x.available \in Int /\ x.ledger \in Int
      /\ x.credited \in Int /\ x.debited \in Int
  BY DEF WalletRow
<1>2. b \in Int /\ c \in Int /\ d \in Int
  BY <1>1
<1>3. y = [x EXCEPT !.available = b, !.ledger = c, !.debited = d]
  BY DEF DebitRow
<1>4. y.available = b /\ y.ledger = c /\ y.debited = d /\ y.credited = x.credited
  BY <1>3 DEF WalletRow
<1> HIDE DEF y
<1>5. y.available >= 0
  BY <1>1, <1>4 DEF RowOK
<1>6. y.available = y.ledger
  BY <1>1, <1>4 DEF RowOK
<1>7. y.available = y.credited - y.debited
  BY <1>1, <1>4 DEF RowOK
<1>8. s - a <= y.available
  BY <1>1, <1>4 DEF RowOK
<1>9. RowOK(y, s - a)
  BY <1>5, <1>6, <1>7, <1>8 DEF RowOK
<1> HIDE DEF b, c, d
<1>10. y \in WalletRow
  BY <1>2, <1>3 DEF WalletRow
<1> QED
  BY <1>9, <1>10 DEF y

\* Changing the escrow alone disturbs nothing RowOK speaks of.
LEMMA EscrowRowOK ==
    ASSUME NEW x \in WalletRow, NEW s \in Int, NEW e \in Int, RowOK(x, s)
    PROVE  [x EXCEPT !.escrow = e] \in WalletRow /\ RowOK([x EXCEPT !.escrow = e], s)
  BY DEF WalletRow, RowOK

\* And a lock into escrow (LockRow) the row has the funds for.
LEMMA LockRowOK ==
    ASSUME NEW x \in WalletRow, NEW s \in Int, NEW a \in Nat,
           RowOK(x, s), x.available >= a
    PROVE  LockRow(x, a) \in WalletRow /\ RowOK(LockRow(x, a), s - a)
<1> DEFINE y == DebitRow(x, a)
<1>1. y \in WalletRow /\ RowOK(y, s - a)
  BY DebitRowOK
<1>2. LockRow(x, a) = [y EXCEPT !.escrow = y.escrow + a]
  BY DEF LockRow
<1>3. y.escrow + a \in Int
  BY <1>1 DEF WalletRow
<1> HIDE DEF y
<1> QED
  BY <1>1, <1>2, <1>3, EscrowRowOK

\* And a refund out of escrow (RefundRow), whatever the escrow holds.
LEMMA RefundRowOK ==
    ASSUME NEW x \in WalletRow, NEW s \in Int, NEW a \in Nat, RowOK(x, s)
    PROVE  RefundRow(x, a) \in WalletRow /\ RowOK(RefundRow(x, a), s + a)
<1> DEFINE y == CreditRow(x, a)
           e == IF y.escrow - a > 0 THEN y.escrow - a ELSE 0
<1>1. y \in WalletRow /\ RowOK(y, s + a)
  BY CreditRowOK
<1>2. RefundRow(x, a) = [y EXCEPT !.escrow = e]
  BY DEF RefundRow
<1>3. e \in Int
  BY <1>1 DEF WalletRow
<1> HIDE DEF y, e
<1> QED
  BY <1>1, <1>2, <1>3, EscrowRowOK

-----------------------------------------------------------------------------
(* The inductive step *)

\* lockIntoEscrow keeps the rows right on both of its paths: with the funds it
\* moves them, without it only lowers the statement.
LEMMA LockKeepsRows ==
    ASSUME IInv, NEW w \in Wallets, NEW a \in Nat, NEW e \in Accounts,
           lockIntoEscrow(w, a, e)
    PROVE  /\ wallet' \in [Wallets -> WalletRow]
           /\ statement' \in [Wallets -> Int]
           /\ account' \in [Accounts -> Int]
           /\ RowsOK'
<1> USE DEF IInv, TypeOK
<1>1. statement' = [statement EXCEPT ![w] = @ - a] /\ account' = [account EXCEPT ![e] = @ + a]
  BY DEF lockIntoEscrow
<1>2. statement' \in [Wallets -> Int] /\ account' \in [Accounts -> Int]
  BY <1>1
<1>3. CASE CanSpend(w, a)
  <2>1. wallet' = [wallet EXCEPT ![w] = LockRow(@, a)]
    BY <1>3 DEF lockIntoEscrow
  <2>2. LockRow(wallet[w], a) \in WalletRow /\ RowOK(LockRow(wallet[w], a), statement[w] - a)
    BY <1>3, LockRowOK DEF CanSpend, RowsOK
  <2> QED
    BY <1>1, <1>2, <2>1, <2>2 DEF RowsOK
<1>4. CASE ~CanSpend(w, a)
  <2>1. wallet' = wallet
    BY <1>4 DEF lockIntoEscrow
  <2>2. RowOK(wallet[w], statement[w] - a)
    BY DEF RowsOK, RowOK, WalletRow
  <2> QED
    BY <1>1, <1>2, <2>1, <2>2 DEF RowsOK
<1> QED
  BY <1>3, <1>4

\* releaseEscrowToWallet to the holder's own wallet, as both settlements call
\* it, keeps the rows right.
LEMMA ReleaseKeepsRows ==
    ASSUME IInv, NEW w \in Wallets, NEW a \in Nat, NEW e \in Accounts,
           releaseEscrowToWallet(w, w, a, calculateFee(a), e)
    PROVE  /\ wallet' \in [Wallets -> WalletRow]
           /\ statement' \in [Wallets -> Int]
           /\ account' \in [Accounts -> Int]
           /\ RowsOK'
<1> USE DEF IInv, TypeOK
<1> DEFINE net  == a - calculateFee(a)
           x    == [wallet[w] EXCEPT !.escrow = @ - a]
<1>1. net \in Nat /\ calculateFee(a) \in Int
  BY FeeBound
<1>2. x \in WalletRow /\ RowOK(x, statement[w])
  BY DEF RowsOK, RowOK, WalletRow
<1>3. CreditRow(x, net) \in WalletRow /\ RowOK(CreditRow(x, net), statement[w] + net)
  BY <1>1, <1>2, CreditRowOK
<1>4. wallet' = [wallet EXCEPT ![w] = CreditRow(x, net)]
  BY DEF releaseEscrowToWallet
<1>5. statement' = [statement EXCEPT ![w] = @ + net]
  BY DEF releaseEscrowToWallet
<1>6. account' \in [Accounts -> Int]
  BY <1>1 DEF releaseEscrowToWallet, Accounts
<1> HIDE DEF net, x
<1> QED
  BY <1>1, <1>3, <1>4, <1>5, <1>6 DEF RowsOK

\* A payment from one wallet to another (payInvoice, internalTransfer) keeps
\* the rows right.
LEMMA PayKeepsRows ==
    ASSUME IInv, NEW p \in Wallets, NEW w \in Wallets, p # w,
           NEW a \in Nat, NEW net \in Nat, CanSpend(p, a),
           wallet' = [wallet EXCEPT ![p] = DebitRow(@, a), ![w] = CreditRow(@, net)],
           statement' = [statement EXCEPT ![p] = @ - a, ![w] = @ + net]
    PROVE  /\ wallet' \in [Wallets -> WalletRow]
           /\ statement' \in [Wallets -> Int]
           /\ RowsOK'
<1> USE DEF IInv, TypeOK
<1>1. DebitRow(wallet[p], a) \in WalletRow /\ RowOK(DebitRow(wallet[p], a), statement[p] - a)
  BY DebitRowOK DEF CanSpend, RowsOK
<1>2. CreditRow(wallet[w], net) \in WalletRow /\ RowOK(CreditRow(wallet[w], net), statement[w] + net)
  BY CreditRowOK DEF RowsOK
<1>3. wallet' = [v \in Wallets |-> IF v = w THEN CreditRow(wallet[w], net)
                                   ELSE IF v = p THEN DebitRow(wallet[p], a) ELSE wallet[v]]
  OBVIOUS
<1>4. statement' = [v \in Wallets |-> IF v = w THEN statement[w] + net
                                      ELSE IF v = p THEN statement[p] - a ELSE statement[v]]
  OBVIOUS
<1> QED
  BY <1>1, <1>2, <1>3, <1>4 DEF RowsOK

\* Every step of the specification keeps IInv.
LEMMA IInvStep ==
    ASSUME IInv, [Next]_vars
    PROVE  IInv'
<1> USE DEF IInv, TypeOK
<1>amt. ASSUME NEW a \in Amounts PROVE a \in Nat
  BY <1>amt, AmountsAssumption
<1>1. CASE UNCHANGED vars
  BY <1>1 DEF vars, RowsOK
<1>2. ASSUME NEW w \in Wallets, NEW a \in Amounts, FundWallet(w, a) PROVE IInv'
  <2>1. CreditRow(wallet[w], a) \in WalletRow /\ RowOK(CreditRow(wallet[w], a), statement[w] + a)
    BY <1>2, <1>amt, CreditRowOK DEF RowsOK
  <2>2. ops' \in Nat /\ raised' \in Nat /\ req' \in [Requests -> Pending \cup {Idle}]
    BY <1>2 DEF FundWallet, Commit
  <2>3. account' \in [Accounts -> Int]
    BY <1>2, <1>amt DEF FundWallet, creditWallet, Accounts
  <2> QED
    BY <1>2, <1>amt, <2>1, <2>2, <2>3 DEF FundWallet, creditWallet, RowsOK
<1>3. ASSUME NEW r \in Requests, NEW w \in Wallets, NEW a \in Amounts,
             DonateCheck(r, w, a) \/ WithdrawCheck(r, w, a)
      PROVE  IInv'
  BY <1>3 DEF DonateCheck, WithdrawCheck, Pending, RowsOK
<1>4. ASSUME NEW r \in Requests, executeWalletDonation(r) PROVE IInv'
  <2>1. req[r] \in Pending
    BY <1>4 DEF executeWalletDonation, Idle
  <2>2. req[r].wallet \in Wallets /\ req[r].amount \in Nat
    BY <2>1, AmountsAssumption DEF Pending
  <2>3. lockIntoEscrow(req[r].wallet, req[r].amount, "campaign_escrow")
    BY <1>4 DEF executeWalletDonation
  <2>4. ops' \in Nat /\ raised' \in Nat /\ req' \in [Requests -> Pending \cup {Idle}]
    BY <1>4, <2>2 DEF executeWalletDonation, Commit
  <2> QED
    BY <2>2, <2>3, <2>4, LockKeepsRows DEF Accounts
<1>5. ASSUME NEW r \in Requests, requestWithdrawal(r) PROVE IInv'
  <2> DEFINE w == req[r].wallet
             a == req[r].amount
  <2>1. req[r] \in Pending
    BY <1>5 DEF requestWithdrawal, Idle
  <2>2. w \in Wallets /\ a \in Nat
    BY <2>1, AmountsAssumption DEF Pending
  <2>3. /\ wallet[w].available >= a
        /\ wallet' = [wallet EXCEPT ![w] = DebitRow(@, a)]
        /\ statement' = [statement EXCEPT ![w] = @ - a]
        /\ account' = [account EXCEPT !["withdrawal_transit"] = @ + a]
    BY <1>5 DEF requestWithdrawal, debitWallet, CanSpend
  <2>4. ops' \in Nat /\ raised' \in Nat /\ req' \in [Requests -> Pending \cup {Idle}]
    BY <1>5 DEF requestWithdrawal, Commit
  <2> HIDE DEF w, a
  <2>5. DebitRow(wallet[w], a) \in WalletRow /\ RowOK(DebitRow(wallet[w], a), statement[w] - a)
    BY <2>2, <2>3, DebitRowOK DEF RowsOK
  <2>6. account' \in [Accounts -> Int]
    BY <2>2, <2>3 DEF Accounts
  <2> QED
    BY <2>2, <2>3, <2>4, <2>5, <2>6 DEF RowsOK
<1>6. ASSUME NEW r \in Requests, RequestRollsBack(r) PROVE IInv'
  BY <1>6 DEF RequestRollsBack, RowsOK
<1>7. ASSUME NEW w \in Wallets, NEW a \in Amounts, donateToCampaign(w, a) \/ paySplitBill(w, a)
      PROVE  IInv'
  <2>1. \E e \in Accounts : lockIntoEscrow(w, a, e)
    BY <1>7 DEF donateToCampaign, paySplitBill, Accounts
  <2>2. ops' \in Nat /\ raised' \in Nat /\ req' \in [Requests -> Pending \cup {Idle}]
    BY <1>7 DEF donateToCampaign, paySplitBill, Commit
  <2> QED
    BY <1>amt, <2>1, <2>2, LockKeepsRows
<1>8. ASSUME NEW p \in Wallets, NEW w \in Wallets, NEW a \in Amounts, payInvoice(p, w, a)
      PROVE  IInv'
  <2> DEFINE net == a - calculateFee(a)
  <2>1. a \in Nat /\ net \in Nat /\ calculateFee(a) \in Int
    BY <1>amt, FeeBound
  <2>2. /\ p # w /\ CanSpend(p, a)
        /\ wallet' = [wallet EXCEPT ![p] = DebitRow(@, a), ![w] = CreditRow(@, net)]
        /\ statement' = [statement EXCEPT ![p] = @ - a, ![w] = @ + net]
    BY <1>8 DEF payInvoice
  <2>3. account' \in [Accounts -> Int]
    BY <1>8, <2>1 DEF payInvoice, Accounts
  <2>4. ops' \in Nat /\ raised' \in Nat /\ req' \in [Requests -> Pending \cup {Idle}]
    BY <1>8 DEF payInvoice, Commit
  <2> HIDE DEF net
  <2> QED
    BY <2>1, <2>2, <2>3, <2>4, PayKeepsRows
<1>9. ASSUME NEW p \in Wallets, NEW w \in Wallets, NEW a \in Amounts, internalTransfer(p, w, a)
      PROVE  IInv'
  <2>1. /\ p # w /\ CanSpend(p, a)
        /\ wallet' = [wallet EXCEPT ![p] = DebitRow(@, a), ![w] = CreditRow(@, a)]
        /\ statement' = [statement EXCEPT ![p] = @ - a, ![w] = @ + a]
    BY <1>9 DEF internalTransfer
  <2>2. ops' \in Nat /\ raised' \in Nat /\ req' \in [Requests -> Pending \cup {Idle}]
        /\ account' \in [Accounts -> Int]
    BY <1>9 DEF internalTransfer, Commit
  <2> QED
    BY <1>amt, <2>1, <2>2, PayKeepsRows
<1>10. ASSUME NEW w \in Wallets, settleCampaign(w) \/ settleSplitBill(w)
       PROVE  IInv'
  <2>1. \E e \in Accounts, a \in Nat : releaseEscrowToWallet(w, w, a, calculateFee(a), e)
    BY <1>10 DEF settleCampaign, settleSplitBill, Accounts
  <2>2. ops' \in Nat /\ raised' \in Nat /\ req' \in [Requests -> Pending \cup {Idle}]
    BY <1>10 DEF settleCampaign, settleSplitBill, Commit
  <2> QED
    BY <2>1, <2>2, ReleaseKeepsRows
<1>11. ASSUME NEW w \in Wallets, NEW a \in Amounts, refundCampaignBackers(w, a) PROVE IInv'
  <2>1. RefundRow(wallet[w], a) \in WalletRow /\ RowOK(RefundRow(wallet[w], a), statement[w] + a)
    BY <1>amt, RefundRowOK DEF RowsOK
  <2>2. ops' \in Nat /\ raised' \in Nat /\ req' \in [Requests -> Pending \cup {Idle}]
    BY <1>11 DEF refundCampaignBackers, Commit
  <2>3. account' \in [Accounts -> Int]
    BY <1>11, <1>amt DEF refundCampaignBackers, refundEscrowToWallet, Accounts
  <2> QED
    BY <1>11, <1>amt, <2>1, <2>2, <2>3 DEF refundCampaignBackers, refundEscrowToWallet, RowsOK
<1>12. ASSUME NEW w \in Wallets, freezeWallet(w) \/ unfreezeWallet(w) PROVE IInv'
  BY <1>12 DEF freezeWallet, unfreezeWallet, RowsOK, RowOK, WalletRow
<1> QED
  BY <1>1, <1>2, <1>3, <1>4, <1>5, <1>6, <1>7, <1>8, <1>9, <1>10, <1>11, <1>12 DEF Next

\* The invariant holds in the beginning.
LEMMA IInvInit == Init => IInv
  BY DEF Init, IInv, TypeOK, RowsOK, RowOK, WalletRow, NewWallet, Idle, Accounts

\* IInv holds in every reachable state.
THEOREM IInvInvariant == Spec => []IInv
<1>1. IInv /\ [Next]_vars => IInv'
  BY IInvStep
<1> QED
  BY IInvInit, <1>1, PTL DEF Spec

-----------------------------------------------------------------------------
(* The theorems *)

\* Every column keeps its type under every operation.
THEOREM TypeCorrect == Spec => []TypeOK
<1>1. IInv => TypeOK
  BY DEF IInv
<1> QED
  BY IInvInvariant, <1>1, PTL

\* No interleaving of stale balance checks overdraws a wallet.
THEOREM NeverOverdrawn == Spec => []NoOverdraft
<1>1. IInv => NoOverdraft
  BY DEF IInv, RowsOK, RowOK, NoOverdraft
<1> QED
  BY IInvInvariant, <1>1, PTL

\* The five columns of every wallet agree, after any history.
THEOREM BalancesAgree == Spec => []BalanceIdentity
<1>1. IInv => BalanceIdentity
  BY DEF IInv, RowsOK, RowOK, BalanceIdentity
<1> QED
  BY IInvInvariant, <1>1, PTL

\* A movement never lacks its ledger entry.
THEOREM StatementsBounded == Spec => []StatementNeverExceeds
<1>1. IInv => StatementNeverExceeds
  BY DEF IInv, RowsOK, RowOK, StatementNeverExceeds
<1> QED
  BY IInvInvariant, <1>1, PTL
-----------------------------------------------------------------------------
(* Frozen wallets *)

\* Adding to the available balance of a row and maybe changing its escrow.
LEMMA RowsGrow ==
    ASSUME NEW x \in WalletRow, NEW a \in Nat, NEW e \in Int
    PROVE  /\ CreditRow(x, a).available = x.available + a
           /\ RefundRow(x, a).available = x.available + a
           /\ CreditRow([x EXCEPT !.escrow = e], a).available = x.available + a
  BY DEF WalletRow, CreditRow, RefundRow

\* A step takes nothing from a wallet that is frozen when the step is taken.
LEMMA FrozenStep ==
    ASSUME IInv, [Next]_vars, NEW w \in Wallets, ~Active(w)
    PROVE  wallet'[w].available >= wallet[w].available
<1> USE DEF IInv, TypeOK
<1>amt. ASSUME NEW a \in Amounts PROVE a \in Nat
  BY <1>amt, AmountsAssumption
<1>row. wallet[w] \in WalletRow /\ wallet[w].available \in Int
  BY DEF WalletRow
<1>1. CASE wallet' = wallet
  BY <1>1, <1>row
<1>2. ASSUME NEW v \in Wallets, v # w, NEW x, wallet' = [wallet EXCEPT ![v] = x]
      PROVE  wallet'[w].available >= wallet[w].available
  BY <1>2, <1>row
<1>3. ASSUME NEW v \in Wallets, NEW a \in Amounts, FundWallet(v, a)
      PROVE  wallet'[w].available >= wallet[w].available
  <2>1. v # w
    BY <1>3 DEF FundWallet, creditWallet
  <2> QED
    BY <1>2, <1>3, <2>1 DEF FundWallet, creditWallet
<1>4. ASSUME NEW v \in Wallets, NEW a, NEW e, lockIntoEscrow(v, a, e)
      PROVE  wallet'[w].available >= wallet[w].available
  <2>1. v # w
    BY <1>4 DEF lockIntoEscrow
  <2>2. CASE wallet' = [wallet EXCEPT ![v] = LockRow(@, a)]
    BY <1>2, <2>1, <2>2
  <2> QED
    BY <1>1, <1>4, <2>2 DEF lockIntoEscrow
<1>5. ASSUME NEW r \in Requests, executeWalletDonation(r) \/ requestWithdrawal(r)
      PROVE  wallet'[w].available >= wallet[w].available
  <2>1. req[r] \in Pending
    BY <1>5 DEF executeWalletDonation, requestWithdrawal, Idle
  <2>2. req[r].wallet \in Wallets
    BY <2>1 DEF Pending
  <2>3. CASE executeWalletDonation(r)
    BY <1>4, <2>2, <2>3 DEF executeWalletDonation
  <2>4. CASE requestWithdrawal(r)
    <3>1. req[r].wallet # w
      BY <2>4 DEF requestWithdrawal, debitWallet, CanSpend
    <3> QED
      BY <1>2, <2>2, <2>4, <3>1 DEF requestWithdrawal, debitWallet
  <2> QED
    BY <1>5, <2>3, <2>4
<1>6. ASSUME NEW v \in Wallets, NEW a \in Amounts, donateToCampaign(v, a) \/ paySplitBill(v, a)
      PROVE  wallet'[w].available >= wallet[w].available
  BY <1>4, <1>6 DEF donateToCampaign, paySplitBill
<1>7. ASSUME NEW p \in Wallets, NEW v \in Wallets, NEW a \in Amounts,
             payInvoice(p, v, a) \/ internalTransfer(p, v, a)
      PROVE  wallet'[w].available >= wallet[w].available
  <2>1. p # w /\ v # w
    BY <1>7 DEF payInvoice, internalTransfer, CanSpend
  <2>2. wallet'[w] = wallet[w]
    BY <1>7, <2>1 DEF payInvoice, internalTransfer
  <2> QED
    BY <1>row, <2>2
<1>8. ASSUME NEW v \in Wallets, settleCampaign(v) \/ settleSplitBill(v)
      PROVE  wallet'[w].available >= wallet[w].available
  <2>0. PICK a \in Nat, x0 \in Accounts :
           releaseEscrowToWallet(v, v, a, calculateFee(a), x0)
    BY <1>8 DEF settleCampaign, settleSplitBill, Accounts
  <2> DEFINE net == a - calculateFee(a)
             e   == wallet[v].escrow - a
             x   == [wallet[v] EXCEPT !.escrow = e]
  <2>1. a \in Nat /\ net \in Nat
    BY FeeBound
  <2>2. wallet' = [wallet EXCEPT ![v] = CreditRow(x, net)]
    BY <2>0 DEF releaseEscrowToWallet
  <2>3. e \in Int
    BY <2>1 DEF WalletRow
  <2> HIDE DEF net, e
  <2>4. CASE v = w
    <3>1. wallet'[w].available = wallet[w].available + net
      BY <1>row, <2>1, <2>2, <2>3, <2>4, RowsGrow
    <3> QED
      BY <1>row, <2>1, <3>1
  <2> QED
    BY <1>2, <2>2, <2>4
<1>9. ASSUME NEW v \in Wallets, NEW a \in Amounts, refundCampaignBackers(v, a)
      PROVE  wallet'[w].available >= wallet[w].available
  <2>1. wallet' = [wallet EXCEPT ![v] = RefundRow(@, a)]
    BY <1>9 DEF refundCampaignBackers, refundEscrowToWallet
  <2>2. CASE v = w
    <3>1. wallet'[w].available = wallet[w].available + a
      BY <1>amt, <1>row, <2>1, <2>2, RowsGrow, 0 \in Int
    <3> QED
      BY <1>amt, <1>row, <3>1
  <2> QED
    BY <1>2, <2>1, <2>2
<1>10. ASSUME NEW v \in Wallets, freezeWallet(v) \/ unfreezeWallet(v)
       PROVE  wallet'[w].available >= wallet[w].available
  <2>1. wallet'[w].available = wallet[w].available
    BY <1>10, <1>row DEF freezeWallet, unfreezeWallet, WalletRow
  <2> QED
    BY <1>row, <2>1
<1>11. ASSUME NEW r \in Requests, \/ RequestRollsBack(r)
                                  \/ \E v \in Wallets, a \in Amounts :
                                        DonateCheck(r, v, a) \/ WithdrawCheck(r, v, a)
       PROVE  wallet'[w].available >= wallet[w].available
  BY <1>1, <1>11 DEF RequestRollsBack, DonateCheck, WithdrawCheck
<1>12. CASE UNCHANGED vars
  BY <1>1, <1>12 DEF vars
<1> QED
  BY <1>3, <1>5, <1>6, <1>7, <1>8, <1>9, <1>10, <1>11, <1>12 DEF Next

\* A frozen wallet loses no money, whatever was checked before the freeze.
THEOREM FrozenKeepsMoney == Spec => FrozenNeverSpends
<1>1. IInv /\ [Next]_vars
         => [\A w \in Wallets : ~Active(w) => wallet'[w].available >= wallet[w].available]_vars
  BY FrozenStep
<1> QED
  BY IInvInvariant, <1>1, PTL DEF Spec, FrozenNeverSpends

-----------------------------------------------------------------------------
(* The books *)

\* The sums of the model are those of SumTheorems.
LEMMA SumsAre == \A f : SumFunction(f) = SumOf(f)
BY DEF SumFunction, SumFunctionOnSet, SumOf, FoldFunction, FoldFunctionOnSet, MapThenFoldSet

\* h is f with an entry of a posted to x.
Posts(f, h, S, x, a) ==
    /\ f \in [S -> Int] /\ h \in [S -> Int] /\ x \in S /\ a \in Int
    /\ h[x] = f[x] + a /\ SameBut(f, h, S, x)

\* A posting adds its amount to the sum.
LEMMA Posted ==
    ASSUME NEW S, IsFiniteSet(S), NEW f, NEW x, NEW a, NEW h, Posts(f, h, S, x, a)
    PROVE  SumOf(f) \in Int /\ SumOf(h) = SumOf(f) + a
<1>1. f \in [S -> Int] /\ h \in [S -> Int] /\ x \in S /\ a \in Int /\ h[x] = f[x] + a
      /\ SameBut(f, h, S, x)
  BY DEF Posts
<1>2. f[x] \in Int /\ SumOf(f) \in Int
  BY <1>1, SumType
<1>3. SumOf(h) = SumOf(f) - f[x] + h[x]
  BY <1>1, SumUpdate
<1> QED
  BY <1>1, <1>2, <1>3

\* h is f with entries of a and b posted to x and y.
PostsBoth(f, h, S, x, a, y, b) ==
    /\ f \in [S -> Int] /\ h \in [S -> Int] /\ x \in S /\ y \in S \ {x} /\ a \in Int /\ b \in Int
    /\ h[x] = f[x] + a /\ h[y] = f[y] + b /\ \A z \in S \ {x, y} : h[z] = f[z]

\* So do two postings.
LEMMA PostedBoth ==
    ASSUME NEW S, IsFiniteSet(S), NEW f, NEW x, NEW a, NEW y, NEW b, NEW h,
           PostsBoth(f, h, S, x, a, y, b)
    PROVE  SumOf(f) \in Int /\ SumOf(h) = SumOf(f) + a + b
<1> DEFINE mid == [f EXCEPT ![x] = h[x]]
<1>1. f \in [S -> Int] /\ h \in [S -> Int] /\ x \in S /\ y \in S \ {x} /\ a \in Int /\ b \in Int
  BY DEF PostsBoth
<1>2. Posts(f, mid, S, x, a)
  BY DEF PostsBoth, Posts, SameBut
<1>3. Posts(mid, h, S, y, b)
  BY DEF PostsBoth, Posts, SameBut
<1> HIDE DEF mid
<1>4. SumOf(f) \in Int /\ SumOf(mid) = SumOf(f) + a
  BY <1>2, Posted
<1>5. SumOf(h) = SumOf(mid) + b
  BY <1>3, Posted
<1> QED
  BY <1>1, <1>4, <1>5

\* The accounts are six.
LEMMA AccountsFinite == IsFiniteSet(Accounts)
<1>1. /\ Accounts = {"payment_gateway", "withdrawal_transit", "campaign_escrow"} \cup
                    {"bill_escrow", "platform_revenue", "user_contra"}
  BY DEF Accounts
<1>2. ASSUME NEW a, NEW b, NEW c PROVE IsFiniteSet({a, b, c})
  <2>1. IsFiniteSet({c})
    BY FS_Singleton
  <2>2. IsFiniteSet({c} \cup {b})
    BY <2>1, FS_AddElement
  <2>3. IsFiniteSet(({c} \cup {b}) \cup {a})
    BY <2>2, FS_AddElement
  <2>4. ({c} \cup {b}) \cup {a} = {a, b, c}
    OBVIOUS
  <2> QED
    BY <2>3, <2>4
<1>3. /\ IsFiniteSet({"payment_gateway", "withdrawal_transit", "campaign_escrow"})
      /\ IsFiniteSet({"bill_escrow", "platform_revenue", "user_contra"})
  BY <1>2, Zenon
<1> QED
  BY <1>1, <1>3, FS_Union, Zenon

\* The total in the two states of a step.
LEMMA Totals == /\ Total = SumOf(statement) + SumOf(account)
                /\ Total' = SumOf(statement') + SumOf(account')
<1>1. SumFunction(statement) = SumOf(statement) /\ SumFunction(account) = SumOf(account)
  BY SumsAre
<1>2. SumFunction(statement') = SumOf(statement') /\ SumFunction(account') = SumOf(account')
  BY SumsAre
<1> QED
  BY <1>1, <1>2 DEF Total

\* Two entries that cancel out.
LEMMA Balanced ==
    ASSUME NEW w, NEW x, NEW a, NEW b,
           Posts(statement, statement', Wallets, w, a), Posts(account, account', Accounts, x, b), a + b = 0
    PROVE  Total' = Total
<1>1. SumOf(statement) \in Int /\ SumOf(statement') = SumOf(statement) + a
  BY Posted, WalletsAssumption
<1>2. SumOf(account) \in Int /\ SumOf(account') = SumOf(account) + b
  BY Posted, AccountsFinite
<1>3. a \in Int /\ b \in Int
  BY DEF Posts
<1> QED
  BY <1>1, <1>2, <1>3, Totals

\* What a step may do to the total.
BooksKept ==
    Total' # Total =>
        /\ account'["user_contra"] > account["user_contra"]
        /\ Total' - Total = account'["platform_revenue"] - account["platform_revenue"]

\* Every operation, by what it posts.
LEMMA BooksStep ==
    ASSUME IInv', IInv, [Next]_vars
    PROVE  BooksKept
<1>typ. statement \in [Wallets -> Int] /\ account \in [Accounts -> Int]
        /\ statement' \in [Wallets -> Int] /\ account' \in [Accounts -> Int]
  BY DEF IInv, TypeOK
<1>acc. /\ "payment_gateway" \in Accounts /\ "withdrawal_transit" \in Accounts
        /\ "campaign_escrow" \in Accounts /\ "bill_escrow" \in Accounts
        /\ "platform_revenue" \in Accounts /\ "user_contra" \in Accounts
  BY DEF Accounts
<1>amt. \A a \in Amounts : a \in Nat /\ a \in Int /\ -a \in Int
  BY AmountsAssumption
<1>req. \A r \in Requests : req[r] # Idle => req[r].wallet \in Wallets /\ req[r].amount \in Amounts
  BY DEF IInv, TypeOK, Pending
<1>0. ASSUME UNCHANGED <<statement, account>> PROVE BooksKept
  <2>1. Total' = Total
    BY <1>0, Totals
  <2> QED
    BY <2>1 DEF BooksKept
<1>1. ASSUME NEW w \in Wallets, NEW x \in Accounts, NEW a \in Amounts,
             statement' = [statement EXCEPT ![w] = @ + a], account' = [account EXCEPT ![x] = @ - a]
      PROVE  BooksKept
  <2> DEFINE b == -a
  <2>1. Posts(statement, statement', Wallets, w, a)
    BY <1>typ, <1>amt, <1>1 DEF Posts, SameBut
  <2>2. account[x] \in Int /\ account[x] - a = account[x] + b /\ b \in Int /\ a + b = 0
    BY <1>typ, <1>amt
  <2> HIDE DEF b
  <2>3. Posts(account, account', Accounts, x, b)
    BY <1>typ, <1>1, <2>2 DEF Posts, SameBut
  <2>4. Total' = Total
    BY <2>1, <2>2, <2>3, Balanced
  <2> QED
    BY <2>4 DEF BooksKept
<1>2. ASSUME NEW w \in Wallets, NEW x \in Accounts, NEW a \in Amounts,
             statement' = [statement EXCEPT ![w] = @ - a], account' = [account EXCEPT ![x] = @ + a]
      PROVE  BooksKept
  <2> DEFINE b == -a
  <2>1. Posts(account, account', Accounts, x, a)
    BY <1>typ, <1>amt, <1>2 DEF Posts, SameBut
  <2>2. statement[w] \in Int /\ statement[w] - a = statement[w] + b /\ b \in Int /\ b + a = 0
    BY <1>typ, <1>amt
  <2> HIDE DEF b
  <2>3. Posts(statement, statement', Wallets, w, b)
    BY <1>typ, <1>2, <2>2 DEF Posts, SameBut
  <2>4. Total' = Total
    BY <2>1, <2>2, <2>3, Balanced
  <2> QED
    BY <2>4 DEF BooksKept
<1>3. ASSUME NEW w \in Wallets, NEW a \in Amounts,
             \/ FundWallet(w, a) \/ donateToCampaign(w, a) \/ paySplitBill(w, a)
             \/ refundCampaignBackers(w, a)
      PROVE  BooksKept
  <2>1. CASE FundWallet(w, a)
    BY <1>1, <1>acc, <2>1 DEF FundWallet, creditWallet
  <2>2. CASE donateToCampaign(w, a)
    BY <1>2, <1>acc, <2>2 DEF donateToCampaign, lockIntoEscrow
  <2>3. CASE paySplitBill(w, a)
    BY <1>2, <1>acc, <2>3 DEF paySplitBill, lockIntoEscrow
  <2>4. CASE refundCampaignBackers(w, a)
    BY <1>1, <1>acc, <2>4 DEF refundCampaignBackers, refundEscrowToWallet
  <2> QED
    BY <1>3, <2>1, <2>2, <2>3, <2>4
<1>4. ASSUME NEW r \in Requests, executeWalletDonation(r) \/ requestWithdrawal(r)
      PROVE  BooksKept
  <2>1. req[r] # Idle
    BY <1>4 DEF executeWalletDonation, requestWithdrawal, Idle
  <2>2. req[r].wallet \in Wallets /\ req[r].amount \in Amounts
    BY <1>req, <2>1
  <2>3. CASE executeWalletDonation(r)
    BY <1>2, <1>acc, <2>2, <2>3 DEF executeWalletDonation, lockIntoEscrow
  <2>4. CASE requestWithdrawal(r)
    BY <1>2, <1>acc, <2>2, <2>4 DEF requestWithdrawal, debitWallet
  <2> QED
    BY <1>4, <2>3, <2>4
<1>5. ASSUME NEW p \in Wallets, NEW w \in Wallets, NEW a \in Amounts, payInvoice(p, w, a)
      PROVE  BooksKept
  <2> DEFINE fee == calculateFee(a)
             net == a - fee
             minus == -a
  <2>1. /\ p # w
        /\ statement' = [statement EXCEPT ![p] = @ - a, ![w] = @ + net]
        /\ account' = [account EXCEPT !["user_contra"] = @ + a - net, !["platform_revenue"] = @ + fee]
    BY <1>5 DEF payInvoice
  <2>2. a \in Int /\ fee \in Int /\ fee >= 0 /\ net \in Int /\ minus \in Int /\ minus + net = -fee
    BY <1>amt, FeeBound
  <2>3. statement[p] \in Int /\ statement[p] - a = statement[p] + minus
    BY <1>typ, <2>2
  <2>4. account["user_contra"] \in Int /\ account["user_contra"] + a - net = account["user_contra"] + fee
    BY <1>typ, <1>acc, <2>2
  <2>41. fee \in Int /\ -fee \in Int
    BY <2>2
  <2> HIDE DEF fee, net, minus
  <2>5. PostsBoth(statement, statement', Wallets, p, minus, w, net)
    BY <1>typ, <2>1, <2>2, <2>3 DEF PostsBoth
  <2>6. PostsBoth(account, account', Accounts, "user_contra", fee, "platform_revenue", fee)
    BY <1>typ, <1>acc, <2>1, <2>2, <2>4 DEF PostsBoth
  <2>7. SumOf(statement) \in Int /\ SumOf(statement') = SumOf(statement) + minus + net
    BY <2>5, PostedBoth, WalletsAssumption
  <2>8. SumOf(account) \in Int /\ SumOf(account') = SumOf(account) + fee + fee
    BY <2>6, PostedBoth, AccountsFinite
  <2>9. Total' = Total + fee /\ Total \in Int
    BY <2>2, <2>7, <2>8, Totals
  <2>10. /\ account'["user_contra"] = account["user_contra"] + fee
         /\ account'["platform_revenue"] = account["platform_revenue"] + fee
         /\ account["user_contra"] \in Int /\ account["platform_revenue"] \in Int
    BY <2>6 DEF PostsBoth
  <2> QED
    BY <2>2, <2>9, <2>10 DEF BooksKept
<1>6. ASSUME NEW p \in Wallets, NEW w \in Wallets, NEW a \in Amounts, internalTransfer(p, w, a)
      PROVE  BooksKept
  <2> DEFINE minus == -a
  <2>1. p # w /\ statement' = [statement EXCEPT ![p] = @ - a, ![w] = @ + a] /\ account' = account
    BY <1>6 DEF internalTransfer
  <2>2. /\ a \in Int /\ minus \in Int /\ minus + a = 0
        /\ statement[p] \in Int /\ statement[p] - a = statement[p] + minus
    BY <1>typ, <1>amt
  <2> HIDE DEF minus
  <2>3. PostsBoth(statement, statement', Wallets, p, minus, w, a)
    BY <1>typ, <2>1, <2>2 DEF PostsBoth
  <2>4. SumOf(statement) \in Int /\ SumOf(statement') = SumOf(statement) + minus + a
    BY <2>3, PostedBoth, WalletsAssumption
  <2>5. Total' = Total
    BY <2>1, <2>2, <2>4, Totals
  <2> QED
    BY <2>5 DEF BooksKept
<1>7. ASSUME NEW w \in Wallets, settleCampaign(w) \/ settleSplitBill(w)
      PROVE  BooksKept
  <2>1. PICK gross \in Nat, x \in {"campaign_escrow", "bill_escrow"} :
           releaseEscrowToWallet(w, w, gross, calculateFee(gross), x)
    <3>1. CASE settleCampaign(w)
      <4>1. account["campaign_escrow"] \in Nat
        BY <1>typ, <1>acc, <3>1 DEF settleCampaign
      <4> QED
        BY <3>1, <4>1 DEF settleCampaign
    <3>2. CASE settleSplitBill(w)
      <4>1. account["bill_escrow"] \in Nat
        BY <1>typ, <1>acc, <3>2 DEF settleSplitBill
      <4> QED
        BY <3>2, <4>1 DEF settleSplitBill
    <3> QED
      BY <1>7, <3>1, <3>2
  <2> DEFINE fee == calculateFee(gross)
             net == gross - fee
             minus == -gross
  <2>2. /\ statement' = [statement EXCEPT ![w] = @ + net]
        /\ account' = [account EXCEPT ![x] = @ - gross, !["platform_revenue"] = @ + fee]
    BY <2>1 DEF releaseEscrowToWallet
  <2>3. gross \in Int /\ fee \in Int /\ net \in Int /\ minus \in Int /\ net + minus + fee = 0
    BY FeeBound
  <2>4. x \in Accounts /\ account[x] \in Int /\ account[x] - gross = account[x] + minus
    BY <1>typ, <1>acc, <2>3
  <2>5. x # "platform_revenue"
    OBVIOUS
  <2> HIDE DEF fee, net, minus
  <2>6. Posts(statement, statement', Wallets, w, net)
    BY <1>typ, <2>2, <2>3 DEF Posts, SameBut
  <2>7. PostsBoth(account, account', Accounts, x, minus, "platform_revenue", fee)
    BY <1>typ, <1>acc, <2>2, <2>3, <2>4, <2>5 DEF PostsBoth
  <2>8. SumOf(statement) \in Int /\ SumOf(statement') = SumOf(statement) + net
    BY <2>6, Posted, WalletsAssumption
  <2>9. SumOf(account) \in Int /\ SumOf(account') = SumOf(account) + minus + fee
    BY <2>7, PostedBoth, AccountsFinite
  <2>10. Total' = Total
    BY <2>3, <2>8, <2>9, Totals
  <2> QED
    BY <2>10 DEF BooksKept
<1>8. ASSUME NEW w \in Wallets, freezeWallet(w) \/ unfreezeWallet(w) PROVE BooksKept
  BY <1>0, <1>8 DEF freezeWallet, unfreezeWallet
<1>9. ASSUME NEW r \in Requests, \/ RequestRollsBack(r)
                                 \/ \E w \in Wallets, a \in Amounts : DonateCheck(r, w, a) \/ WithdrawCheck(r, w, a)
      PROVE  BooksKept
  BY <1>0, <1>9 DEF RequestRollsBack, DonateCheck, WithdrawCheck
<1>10. CASE UNCHANGED vars
  BY <1>0, <1>10 DEF vars
<1> HIDE DEF BooksKept
<1> QED
  BY <1>3, <1>4, <1>5, <1>6, <1>7, <1>8, <1>9, <1>10 DEF Next

\* The ledger stays balanced through every operation but a fee-bearing invoice (payInvoice),
\* which books the fee twice: for any wallets, amounts and fee.
THEOREM OnlyInvoices == Spec => OnlyInvoiceFeesUnbalance
<1>1. IInv /\ IInv' /\ [Next]_vars => [BooksKept]_vars
  BY BooksStep
<1> QED
  BY IInvInvariant, <1>1, PTL DEF Spec, OnlyInvoiceFeesUnbalance, BooksKept
=============================================================================
