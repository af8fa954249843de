----------------------------- MODULE BillShares -----------------------------
(***************************************************************************)
(* Who is on a split bill and what each owes (split-bill.service.ts):      *)
(* createBill, updateBill, addParticipant, removeParticipant and the share *)
(* computations they call.  These handlers hold the rows of the bill and   *)
(* of all its participants from their first read to their commit, so each  *)
(* is one step.  Amounts are in kobo.                                      *)
(***************************************************************************)
EXTENDS Integers, FiniteSets, Sequences, SequencesExt, Functions

CONSTANTS
    People,         \* users and phones that may be put on the bill
    Owner,          \* the creator, who is on the bill from the start
    Methods,        \* the split methods in use
    Totals,         \* amounts of the bill
    Payments,       \* amounts that participants pay
    Shares,         \* amounts that a request may give a participant
    Percentages,    \* percentages of the whole that a request may ask for
    MaxEdits,       \* bound: changes of the bill
    MaxMoves        \* bound: payments and answers to invitations

ASSUME OwnerAssumption == Owner \in People
ASSUME PeopleAssumption == IsFiniteSet(People)
ASSUME AmountsAssumption ==
    /\ Totals \subseteq Nat /\ Shares \subseteq Nat /\ Payments \subseteq Nat \ {0}
    /\ Percentages \subseteq 0..100
ASSUME BoundsAssumption == MaxEdits \in Nat /\ MaxMoves \in Nat
ASSUME MethodsAssumption == Methods \subseteq {"EVEN", "PERCENTAGE", "MANUAL"}

VARIABLES
    method,         \* splitMethod, "none" before the bill is created
    total,          \* totalAmount
    collected,      \* totalCollected
    billStatus,     \* status of the bill
    rows,           \* the participant row of each person
    order,          \* the people with a row, as (createdAt, id) sorts them
    headcount,      \* totalParticipants
    skewed,         \* history: a change since the last computation left out shares
                \* or named a participant twice
    swapped,        \* history: createBill gave somebody another's amount
    edits, moves    \* counters of the bounds

shareVars == <<method, total, collected, billStatus, rows, order, headcount, skewed, swapped, edits, moves>>

SharesStatus == {"unpaid", "invited", "accepted", "declined", "partial", "paid"}
Absent == [state |-> "none", owed |-> 0, paid |-> 0, remaining |-> 0, pct |-> 0, status |-> "unpaid"]

SharesTypeOK ==
    /\ method \in Methods \cup {"none"} /\ total \in Nat /\ collected \in Nat
    /\ billStatus \in {"active", "partially_paid", "funded"}
    /\ rows \in [People -> [state : {"none", "live", "removed"}, owed : Nat, paid : Nat,
                            remaining : Nat, pct : 0..100, status : SharesStatus]]
    /\ order \in Seq(People) /\ IsInjective(order)
    /\ \A p \in People : rows[p].state = "live" => p \in ToSet(order)
    /\ headcount \in Nat /\ {skewed, swapped} \subseteq BOOLEAN /\ edits \in 0..MaxEdits /\ moves \in 0..MaxMoves

SharesInit ==
    /\ method = "none" /\ total = 0 /\ collected = 0 /\ billStatus = "active"
    /\ rows = [p \in People |-> Absent]
    /\ order = << >> /\ headcount = 0 /\ skewed = FALSE /\ swapped = FALSE /\ edits = 0 /\ moves = 0

Edit == edits < MaxEdits /\ edits' = edits + 1 /\ UNCHANGED moves
Move == moves < MaxMoves /\ moves' = moves + 1 /\ UNCHANGED edits

TotalOf(f) == FoldFunction(LAMBDA x, y : x + y, 0, f)
\* Mutant of OrZero: an amount below zero stays.
OrZero_Signed(n) == n

OrZero(n) == IF n > 0 THEN n ELSE 0

Live(rs) == {p \in People : rs[p].state = "live"}

\* The place of a row among those that are not deleted, by (createdAt, id).
Position(ord, p) == CHOOSE i \in DOMAIN ord : ord[i] = p
Place(rs, ord, p) == Cardinality({q \in Live(rs) : Position(ord, q) <= Position(ord, p)})

-----------------------------------------------------------------------------
(* computeAndSaveShares *)

\* The remainder of an even split goes to the first ones, one kobo each.
EvenShares(amount, n) ==
    [i \in 1..n |-> (amount \div n) + (IF i <= amount % n THEN 1 ELSE 0)]

\* Each share is rounded down, the first one gets what is left over.
PercentageShares(amount, pcts) ==
    LET down == [i \in DOMAIN pcts |-> (amount * pcts[i]) \div 100]
    IN [down EXCEPT ![1] = @ + (amount - TotalOf(down))]

Asked(ask, f) == [i \in DOMAIN ask |-> f[ask[i]]]

SharesOf(m, amount, ask, f) ==
    CASE m = "EVEN" -> EvenShares(amount, Len(ask))
      [] m = "PERCENTAGE" -> PercentageShares(amount, Asked(ask, f))
      [] m = "MANUAL" -> Asked(ask, f)

SharesValid(m, amount, ask, f) ==
    /\ m = "PERCENTAGE" => TotalOf(Asked(ask, f)) = 100
    /\ m = "MANUAL" => TotalOf(Asked(ask, f)) = amount

NewStatus(row, owed) ==
    CASE row.status \in {"invited", "declined"} -> row.status
      [] row.status \notin {"invited", "declined"} /\ row.paid >= owed /\ owed > 0 -> "paid"
      [] row.status \notin {"invited", "declined"} /\ row.paid > 0 /\ row.paid < owed -> "partial"
      [] row.status \notin {"invited", "declined"} /\ row.paid = 0 /\ owed > 0 -> "unpaid"
      [] OTHER -> IF row.paid = 0 THEN "unpaid" ELSE row.status

\* Mutant of Pair: the rows that were removed take part.
Pair_WithRemoved(rs, ord, shares) ==
    LET Row(p) == LET owed == shares[CHOOSE i \in DOMAIN ord : ord[i] = p] IN
                  [rs[p] EXCEPT !.owed = owed, !.remaining = OrZero(owed - rs[p].paid)]
    IN [p \in People |-> IF \E i \in DOMAIN ord \cap DOMAIN shares : ord[i] = p
                         THEN Row(p) ELSE rs[p]]

\* The i-th share goes to the i-th row by (createdAt, id), whoever asked for it.
Pair(rs, ord, shares) ==
    LET Row(p) == LET owed == shares[Place(rs, ord, p)] IN
                  [rs[p] EXCEPT !.owed = owed, !.remaining = OrZero(owed - rs[p].paid),
                                !.status = NewStatus(rs[p], owed)]
    IN [p \in People |-> IF p \in Live(rs) THEN Row(p) ELSE rs[p]]

computeAndSaveShares(rs, ord, m, amount, ask, f) ==
    /\ SharesValid(m, amount, ask, f)
    /\ rows' = Pair(rs, ord, SharesOf(m, amount, ask, f))
    /\ skewed' = FALSE

-----------------------------------------------------------------------------
(* createBill *)

NewRow(p, pct) ==
    [Absent EXCEPT !.state = "live", !.pct = pct, !.status = IF p = Owner THEN "unpaid" ELSE "invited"]

\* What a request says of each participant: a percentage or an amount.
Figures(m, S) ==
    [S -> CASE m = "EVEN" -> {0} [] m = "PERCENTAGE" -> Percentages [] m = "MANUAL" -> Shares]
Pct(m, f, p) == IF m = "PERCENTAGE" THEN f[p] ELSE 0
Orders(S) == SetToSeqs(S)
Requested(m, S) == IF m = "PERCENTAGE" THEN Orders(S) ELSE {SetToSeq(S)}
ValidFigures(m, amount, S) ==
    {f \in Figures(m, S) : SharesValid(m, amount, SetToSeq(S), f)}

\* The rows of one INSERT have the same createdAt: their ids, random, sort them.
createBill ==
    /\ method = "none" /\ Edit
    /\ \E m \in Methods, amount \in Totals, S \in SUBSET People :
         /\ Owner \in S /\ amount > 0
         /\ \E ask \in Requested(m, S), ord \in Orders(S), f \in ValidFigures(m, amount, S) :
              /\ order' = ord
              /\ computeAndSaveShares([p \in People |-> IF p \in S THEN NewRow(p, Pct(m, f, p)) ELSE Absent],
                                      ord, m, amount, ask, f)
              /\ swapped' = (m = "MANUAL" /\ \E p \in S : rows'[p].owed # f[p])
         /\ method' = m /\ total' = amount /\ headcount' = Cardinality(S)
    /\ UNCHANGED <<collected, billStatus>>

-----------------------------------------------------------------------------
(* updateBill *)

Someone == \E p \in Live(rows) : rows[p].paid > 0

\* A participant who is kept keeps the percentage it had unless it gets another;
\* one who was removed still owns the unique (bill, user) key.
Relist(S, m, f) ==
    [p \in People |->
        CASE p \in S /\ p \in Live(rows) ->
                IF m = "PERCENTAGE" THEN [rows[p] EXCEPT !.pct = f[p]] ELSE rows[p]
          [] p \in S /\ p \notin Live(rows) -> [NewRow(p, Pct(m, f, p)) EXCEPT !.status = "invited"]
          [] p \notin S /\ p \in Live(rows) -> [rows[p] EXCEPT !.state = "removed"]
          [] OTHER -> rows[p]]

\* With amounts: every row is upserted, also that of somebody who was removed,
\* which stays deleted; statuses stay.
UpsertManual(S, f) ==
    [p \in People |->
        IF p \in S
        THEN LET paid == IF p \in Live(rows) THEN rows[p].paid ELSE 0
                 row == IF p \in Live(rows) THEN rows[p]
                        ELSE [Absent EXCEPT !.status = "invited",
                                 !.state = IF rows[p].state = "removed" THEN "removed" ELSE "live"]
             IN [row EXCEPT !.owed = f[p], !.paid = paid, !.remaining = OrZero(f[p] - paid), !.pct = 0]
        ELSE IF p \in Live(rows) THEN [rows[p] EXCEPT !.state = "removed"] ELSE rows[p]]

\* Mutant of PaidStay: anybody may be left out of the new list.
PaidStay_Unchecked(S) == S # {}

PaidStay(S) == \A p \in Live(rows) : rows[p].paid > 0 => p \in S

UpdateParticipants(m, amount, S) ==
    /\ S # {} /\ PaidStay(S)
    /\ ((amount # total \/ m # method) /\ Someone) => m = "MANUAL"
    /\ headcount' = Cardinality(S)
    /\ \E f \in ValidFigures(m, amount, S), added \in Orders(S \ ToSet(order)) :
         /\ order' = order \o added
         /\ IF m = "MANUAL"
            THEN /\ rows' = UpsertManual(S, f)
                 /\ skewed' = \E p \in S : rows[p].state = "removed"
            ELSE /\ \A p \in S : rows[p].state # "removed"
                 /\ \E ask \in Requested(m, S) :
                      computeAndSaveShares(Relist(S, m, f), order \o added, m, amount, ask, f)

\* Without a list the shares follow from the stored percentages, in the order
\* in which an unsorted query returns the rows.
UpdateAmounts(m, amount) ==
    /\ amount # total \/ m # method
    /\ ~Someone /\ m # "MANUAL"
    /\ \E ask \in Requested(m, Live(rows)) :
         computeAndSaveShares(rows, order, m, amount, ask, [p \in People |-> rows[p].pct])
    /\ UNCHANGED <<order, headcount>>

updateBill ==
    /\ method # "none" /\ Edit
    /\ \E m \in Methods, amount \in Totals :
         /\ method' = m /\ total' = amount
         /\ UpdateAmounts(m, amount) \/ \E S \in SUBSET People : UpdateParticipants(m, amount, S)
    /\ UNCHANGED <<collected, billStatus, swapped>>

-----------------------------------------------------------------------------
(* addParticipant, removeParticipant *)

\* A redistribution is a list of the request: it may name any of the participants
\* and one of them again.  The whole list must have the sum, the last value that
\* names somebody is the one that stays (bound: nobody is named three times).
Redistributions(S, values, sum) ==
    {l \in UNION {[last : [N -> values], before : UNION {[M -> values] : M \in SUBSET N}] :
                  N \in (SUBSET S) \ {{}}} :
        TotalOf(l.last) + TotalOf(l.before) = sum}
NoList == [last |-> << >>, before |-> << >>]

\* Everybody is named, and no value that counts is overwritten.
Complete(l, S) == DOMAIN l.last = S /\ TotalOf(l.before) = 0

\* No value is below what its participant has paid.
CoversPaid(l) ==
    /\ \A q \in DOMAIN l.last : rows[q].paid <= l.last[q]
    /\ \A q \in DOMAIN l.before : rows[q].paid <= l.before[q]

applyManualRedistribution(f) ==
    [p \in People |-> IF p \in DOMAIN f
                      THEN [rows[p] EXCEPT !.owed = f[p], !.remaining = OrZero(f[p] - rows[p].paid)]
                      ELSE rows[p]]
applyPercentageRedistribution(f) ==
    [p \in People |-> IF p \in DOMAIN f THEN [rows[p] EXCEPT !.pct = f[p]] ELSE rows[p]]

Owed(S) == TotalOf([p \in S |-> rows[p].owed])
PctSum(S) == TotalOf([p \in S |-> rows[p].pct])

AddManual(p) ==
    \E amount \in Shares \ {0}, moved \in BOOLEAN :
       /\ moved = (amount > total - Owed(Live(rows)))
       /\ \E l \in (IF moved THEN Redistributions(Live(rows), Shares, total - amount) ELSE {NoList}) :
            /\ CoversPaid(l)
            /\ rows' = [applyManualRedistribution(l.last) EXCEPT
                          ![p] = [NewRow(p, 0) EXCEPT !.owed = amount, !.remaining = amount,
                                                      !.status = "invited"]]
            /\ skewed' = (skewed \/ (moved /\ ~Complete(l, Live(rows))))

AddPercentage(p) ==
    \E pct \in Percentages \ {0} :
       \E l \in (IF PctSum(Live(rows)) + pct > 100
                 THEN Redistributions(Live(rows), Percentages, 100 - pct) ELSE {NoList}) :
       \E ask \in Orders(Live(rows) \cup {p}) :
          LET rs == [applyPercentageRedistribution(l.last) EXCEPT
                       ![p] = [NewRow(p, pct) EXCEPT !.status = "invited"]]
          IN computeAndSaveShares(rs, Append(order, p), method, total, ask, [q \in People |-> rs[q].pct])

\* Mutant of AddEven: the others keep their shares.
AddEven_NotComputed(p) ==
    /\ rows' = [rows EXCEPT ![p] = [NewRow(p, 0) EXCEPT !.status = "invited"]]
    /\ UNCHANGED skewed

AddEven(p) ==
    computeAndSaveShares([rows EXCEPT ![p] = [NewRow(p, 0) EXCEPT !.status = "invited"]],
                         Append(order, p), method, total, SetToSeq(Live(rows) \cup {p}), << >>)

\* Somebody who was removed cannot come back: the key is still taken.
addParticipant ==
    /\ method # "none" /\ billStatus # "funded" /\ Edit
    /\ \E p \in People :
         /\ rows[p].state = "none"
         /\ \/ method = "MANUAL" /\ AddManual(p)
            \/ method = "PERCENTAGE" /\ AddPercentage(p)
            \/ method = "EVEN" /\ AddEven(p)
         /\ order' = Append(order, p)
    /\ headcount' = headcount + 1
    /\ UNCHANGED <<method, total, collected, billStatus, swapped>>

SoftDelete(rs, p) == [rs EXCEPT ![p].state = "removed"]

RemoveManual(p, rest) ==
    \E l \in (IF rows[p].owed > 0 THEN Redistributions(rest, Shares, total) ELSE {NoList}) :
       /\ CoversPaid(l)
       /\ rows' = SoftDelete(applyManualRedistribution(l.last), p)
       /\ skewed' = (skewed \/ (rows[p].owed > 0 /\ ~Complete(l, rest)))

\* The percentages are redistributed, the amounts are not computed again.
RemovePercentage(p, rest) ==
    \E l \in (IF rows[p].pct > 0 THEN Redistributions(rest, Percentages, 100) ELSE {NoList}) :
       /\ rows' = SoftDelete(applyPercentageRedistribution(l.last), p)
       /\ skewed' = TRUE

RemoveEven(p, rest) ==
    computeAndSaveShares(SoftDelete(rows, p), order, method, total, SetToSeq(rest), << >>)

removeParticipant ==
    /\ method # "none" /\ Edit
    /\ \E p \in Live(rows) :
         /\ Cardinality(Live(rows)) > 1 /\ rows[p].paid = 0
         /\ LET rest == Live(rows) \ {p} IN
            \/ method = "MANUAL" /\ RemoveManual(p, rest)
            \/ method = "PERCENTAGE" /\ RemovePercentage(p, rest)
            \/ method = "EVEN" /\ RemoveEven(p, rest)
    /\ headcount' = headcount - 1
    /\ UNCHANGED <<method, total, collected, billStatus, order, swapped>>

-----------------------------------------------------------------------------
(* The rest of the bill, as far as it decides on shares *)

\* payBillShare by a participant for itself (SplitBill has the whole of it).
PayShare ==
    /\ Move
    /\ \E p \in Live(rows), amount \in Payments :
         /\ rows[p].status # "declined" /\ amount <= OrZero(rows[p].owed - rows[p].paid)
         /\ LET paid == rows[p].paid + amount IN
            rows' = [rows EXCEPT ![p].paid = paid, ![p].remaining = rows[p].owed - paid,
                                 ![p].status = IF paid = rows[p].owed THEN "paid" ELSE "partial"]
         /\ collected' = collected + amount
    /\ billStatus' = IF collected' >= total THEN "funded" ELSE "partially_paid"
    /\ UNCHANGED <<method, total, order, headcount, skewed, swapped>>

\* An invitation is answered (BillInvite has the whole of it).
AnswerInvite ==
    /\ Move
    /\ \E p \in Live(rows), answer \in {"accepted", "declined"} :
         /\ rows[p].status = "invited"
         /\ rows' = [rows EXCEPT ![p].status = answer]
    /\ UNCHANGED <<method, total, collected, billStatus, order, headcount, skewed, swapped>>

SharesNext ==
    createBill \/ updateBill \/ addParticipant \/ removeParticipant \/ PayShare \/ AnswerInvite

-----------------------------------------------------------------------------
(* Properties *)

\* The shares of the people on the bill add up to the bill after any sequence
\* of changes, unless a redistribution left somebody out or named somebody twice,
\* a participant was removed from a percentage split, or an update named somebody
\* removed before.
\* Where such an update named nobody else, nobody is left to owe anything.
SharesSumToTotal ==
    method # "none" /\ ~skewed /\ Live(rows) # {} => Owed(Live(rows)) = total

\* Two participants of an even split differ by one kobo at most, in whatever
\* order people came and left.
EvenSharesAreFair ==
    method = "EVEN" => \A p, q \in Live(rows) : rows[p].owed - rows[q].owed <= 1

\* What remains follows from share and payments, however often either changed.
RemainingFollows ==
    \A p \in Live(rows) : rows[p].remaining = OrZero(rows[p].owed - rows[p].paid)

\* Nobody who has paid is dropped, so totalCollected is what the people on the
\* bill have paid.
PayersStay == collected = TotalOf([p \in Live(rows) |-> rows[p].paid])

\* "Caller provides exact amounts per participant": what createBill was told is
\* what each one owes.  It is not: rows of one INSERT are sorted by a random id.
ManualSharesAsAsked == ~swapped
=============================================================================
