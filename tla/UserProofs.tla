----------------------------- MODULE UserProofs -----------------------------
(***************************************************************************)
(* What belongs to one user, proved for every user.  Each component has an *)
(* invariant of its own that its steps keep; the components share no       *)
(* column, so the user keeps all of them.                                  *)
(***************************************************************************)
EXTENDS MCUser, SumTheorems

-----------------------------------------------------------------------------
(* The parked refunds *)

\* The one empty reference is taken by the first credit, and the sweep has found
\* payouts that are due.
PayoutInv ==
    /\ PayoutTypeOK /\ ClosedWhenCredited /\ NeverCreditedTwice
    /\ \A p \in Payouts : credited[p] > 0 => references
    /\ \A p \in sweeping : payout[p].due

\* Nothing is parked in the beginning.
LEMMA PayoutInits == PayoutInit => PayoutInv
<1> SUFFICES ASSUME PayoutInit PROVE PayoutInv
  OBVIOUS
<1>1. /\ payout = [p \in Payouts |-> [status |-> "none", due |-> FALSE]]
      /\ credited = [p \in Payouts |-> 0] /\ sweeping = {} /\ notifying = {} /\ reopened = {}
      /\ claiming = [c \in Claims |-> {}]
  BY DEF PayoutInit, NoClaim
<1>2. creatorOf \in [Payouts -> {"wallet", "noWallet", "nobody"}] /\ strict \in BOOLEAN
  BY DEF PayoutInit
<1>3. references \in BOOLEAN
  BY Zenon DEF PayoutInit
<1>4. payout \in [Payouts -> [status : PayoutStatus, due : BOOLEAN]]
  BY <1>1 DEF PayoutStatus
<1>5. PayoutTypeOK
  BY <1>1, <1>2, <1>3, <1>4 DEF PayoutTypeOK
<1> QED
  BY <1>1, <1>5 DEF PayoutInv, ClosedWhenCredited, NeverCreditedTwice

\* What a transaction that credits the rows leaves behind: rows are credited only while
\* none has been.
LEMMA CreditIs ==
    ASSUME PayoutInv, NEW rows \in SUBSET Pending, NEW status \in {"CLAIMED", "RETURNED"},
           Credit(rows, status) \/ UNCHANGED <<payout, credited, references>>
    PROVE  /\ payout' \in [Payouts -> [status : PayoutStatus, due : BOOLEAN]]
           /\ credited' \in [Payouts -> Nat] /\ references' \in BOOLEAN
           /\ \A p \in Payouts :
                /\ payout'[p].due = payout[p].due
                /\ payout'[p].status # payout[p].status =>
                      p \in rows /\ payout'[p].status = status /\ credited'[p] > 0
                /\ credited'[p] # credited[p] =>
                      p \in rows /\ payout'[p].status = status
                /\ credited'[p] <= 1
                /\ credited'[p] > 0 => references'
<1>1. /\ payout \in [Payouts -> [status : PayoutStatus, due : BOOLEAN]]
      /\ credited \in [Payouts -> Nat] /\ references \in BOOLEAN
      /\ \A p \in Payouts : credited[p] <= 1 /\ (credited[p] > 0 => references)
  BY DEF PayoutInv, PayoutTypeOK, NeverCreditedTwice
<1>2. CASE UNCHANGED <<payout, credited, references>>
  BY <1>1, <1>2
<1>3. CASE rows # {} /\ Insertable(rows) /\ Credit(rows, status)
  <2>1. ~references /\ \A p \in Payouts : credited[p] = 0
    BY <1>1, <1>3 DEF Insertable
  <2>2. /\ payout' = [p \in Payouts |-> IF p \in rows THEN [payout[p] EXCEPT !.status = status] ELSE payout[p]]
        /\ credited' = [p \in Payouts |-> IF p \in rows THEN credited[p] + 1 ELSE credited[p]]
    BY <1>3 DEF Credit
  <2>3. references' = TRUE
    BY <1>3, Zenon DEF Credit
  <2>4. rows \subseteq Payouts /\ \A p \in rows : payout[p].status = "PENDING"
    BY DEF Pending
  <2>5. ASSUME NEW p \in Payouts
        PROVE  /\ payout'[p] \in [status : PayoutStatus, due : BOOLEAN] /\ payout'[p].due = payout[p].due
               /\ payout'[p].status = IF p \in rows THEN status ELSE payout[p].status
               /\ credited'[p] = IF p \in rows THEN 1 ELSE 0
    BY <1>1, <2>1, <2>2 DEF PayoutStatus
  <2>6. /\ payout' \in [Payouts -> [status : PayoutStatus, due : BOOLEAN]]
        /\ credited' \in [Payouts -> Nat]
    <3>1. /\ payout' = [p \in Payouts |-> payout'[p]]
          /\ credited' = [p \in Payouts |-> credited'[p]]
      BY <2>2
    <3>2. \A p \in Payouts : credited'[p] \in Nat
      BY <2>5
    <3> QED
      BY <2>5, <3>1, <3>2
  <2> QED
    BY <2>1, <2>3, <2>4, <2>5, <2>6
<1>4. CASE rows = {} /\ Credit(rows, status)
  <2>1. payout' = payout /\ credited' = credited
    <3>1. Insertable(rows)
      BY <1>4 DEF Insertable
    <3>2. /\ payout' = [p \in Payouts |-> IF p \in rows THEN [payout[p] EXCEPT !.status = status] ELSE payout[p]]
          /\ credited' = [p \in Payouts |-> IF p \in rows THEN credited[p] + 1 ELSE credited[p]]
      BY <1>4, <3>1 DEF Credit
    <3> QED
      BY <1>1, <1>4, <3>2
  <2>2. references' = references
    <3>1. Insertable(rows)
      BY <1>4 DEF Insertable
    <3>2. references' = (references \/ rows # {})
      BY <1>4, <3>1, Zenon DEF Credit
    <3> QED
      BY <1>1, <1>4, <3>2, Zenon
  <2> QED
    BY <1>1, <2>1, <2>2
<1>5. CASE ~Insertable(rows) /\ Credit(rows, status)
  BY <1>2, <1>5 DEF Credit
<1> QED
  BY <1>2, <1>3, <1>4, <1>5

\* Every step of the parked refunds.
LEMMA StepPayout == PayoutInv /\ [PayoutNext]_payoutVars => PayoutInv'
<1> SUFFICES ASSUME PayoutInv, [PayoutNext]_payoutVars PROVE PayoutInv'
  OBVIOUS
<1>1. /\ payout \in [Payouts -> [status : PayoutStatus, due : BOOLEAN]]
      /\ creatorOf \in [Payouts -> {"wallet", "noWallet", "nobody"}]
      /\ notifying \subseteq Payouts /\ sweeping \subseteq Payouts /\ reopened \subseteq Payouts
      /\ claiming \in [Claims -> SUBSET Payouts]
      /\ strict \in BOOLEAN /\ references \in BOOLEAN /\ credited \in [Payouts -> Nat]
      /\ \A p \in Payouts :
           /\ payout[p].status \in {"RETURNED", "EXPIRED"} => payout[p].due
           /\ payout[p].status = "EXPIRED" => creatorOf[p] # "wallet"
           /\ credited[p] <= 1 /\ (credited[p] > 0 => references)
           /\ p \notin reopened => (payout[p].status \in {"CLAIMED", "RETURNED"} <=> credited[p] > 0)
      /\ \A p \in sweeping : payout[p].due
  BY DEF PayoutInv, PayoutTypeOK, NeverCreditedTwice, ClosedWhenCredited
<1>2. CASE UNCHANGED payoutVars
  BY <1>2 DEF payoutVars, PayoutInv, PayoutTypeOK, NeverCreditedTwice, ClosedWhenCredited
<1>3. ASSUME NEW p \in Payouts, NEW s \in {"PENDING", "EXPIRED"}, payout' = [payout EXCEPT ![p].status = s],
             UNCHANGED <<creatorOf, claiming, strict, references, credited>>,
             s = "EXPIRED" => payout[p].due /\ creatorOf[p] # "wallet",
             p \in reopened' \/ credited[p] = 0,
             reopened' \subseteq Payouts, reopened \subseteq reopened',
             notifying' \subseteq Payouts, sweeping' \subseteq sweeping
      PROVE  PayoutInv'
  <2>1. /\ payout' \in [Payouts -> [status : PayoutStatus, due : BOOLEAN]]
        /\ payout'[p].status = s /\ payout'[p].due = payout[p].due
        /\ \A q \in Payouts \ {p} : payout'[q] = payout[q]
    BY <1>1, <1>3 DEF PayoutStatus
  <2>2. ASSUME NEW q \in Payouts
        PROVE  /\ payout'[q].status \in {"RETURNED", "EXPIRED"} => payout'[q].due
               /\ payout'[q].status = "EXPIRED" => creatorOf[q] # "wallet"
               /\ q \notin reopened' => (payout'[q].status \in {"CLAIMED", "RETURNED"} <=> credited[q] > 0)
               /\ q \in sweeping => payout'[q].due
    <3>1. CASE q = p
      BY <1>1, <1>3, <2>1, <3>1
    <3>2. CASE q # p
      BY <1>1, <1>3, <2>1, <3>2
    <3> QED
      BY <3>1, <3>2
  <2>3. PayoutTypeOK'
    BY <1>1, <1>3, <2>1, <2>2 DEF PayoutTypeOK
  <2> QED
    BY <1>1, <1>3, <2>2, <2>3 DEF PayoutInv, NeverCreditedTwice, ClosedWhenCredited
<1>4. ASSUME NEW p \in Payouts, createForGuestCancel(p) PROVE PayoutInv'
  <2>1. p \in reopened \/ credited[p] = 0
    BY <1>1, <1>4 DEF createForGuestCancel
  <2> QED
    BY <1>1, <1>3, <1>4, <2>1 DEF createForGuestCancel
<1>5. ASSUME NEW p \in Payouts, notify(p) PROVE PayoutInv'
  <2>1. p \in reopened' \/ credited[p] = 0
    BY <1>1, <1>5 DEF notify, Pending
  <2> QED
    BY <1>1, <1>3, <1>5, <2>1 DEF notify
<1>6. ASSUME NEW p \in Payouts, NinetyDays(p) PROVE PayoutInv'
  <2>1. /\ payout' = [payout EXCEPT ![p].due = TRUE]
        /\ UNCHANGED <<creatorOf, notifying, claiming, sweeping, strict, references, credited, reopened>>
    BY <1>6 DEF NinetyDays
  <2>2. payout' \in [Payouts -> [status : PayoutStatus, due : BOOLEAN]]
        /\ \A q \in Payouts : payout'[q].status = payout[q].status /\ (payout[q].due => payout'[q].due)
    BY <1>1, <2>1
  <2>3. PayoutTypeOK'
    BY <1>1, <2>1, <2>2 DEF PayoutTypeOK
  <2> QED
    BY <1>1, <2>1, <2>2, <2>3 DEF PayoutInv, NeverCreditedTwice, ClosedWhenCredited
<1>7. ASSUME NEW rows \in SUBSET Pending, NEW s \in {"CLAIMED", "RETURNED"},
             Credit(rows, s) \/ UNCHANGED <<payout, credited, references>>,
             s = "RETURNED" => \A p \in rows : payout[p].due,
             UNCHANGED <<creatorOf, notifying, strict, reopened>>,
             claiming' \in [Claims -> SUBSET Payouts], sweeping' \subseteq sweeping
      PROVE  PayoutInv'
  <2>1. /\ payout' \in [Payouts -> [status : PayoutStatus, due : BOOLEAN]]
        /\ credited' \in [Payouts -> Nat] /\ references' \in BOOLEAN
        /\ \A p \in Payouts :
             /\ payout'[p].due = payout[p].due
             /\ payout'[p].status # payout[p].status =>
                   p \in rows /\ payout'[p].status = s /\ credited'[p] > 0
             /\ credited'[p] # credited[p] => p \in rows /\ payout'[p].status = s
             /\ credited'[p] <= 1
             /\ credited'[p] > 0 => references'
    BY <1>7, CreditIs
  <2>2. \A p \in rows : payout[p].status = "PENDING" /\ p \in Payouts
    BY DEF Pending
  <2>3. ASSUME NEW q \in Payouts
        PROVE  /\ payout'[q].status \in {"RETURNED", "EXPIRED"} => payout'[q].due
               /\ payout'[q].status = "EXPIRED" => creatorOf[q] # "wallet"
               /\ q \notin reopened => (payout'[q].status \in {"CLAIMED", "RETURNED"} <=> credited'[q] > 0)
    BY <1>1, <1>7, <2>1, <2>2
  <2>4. PayoutTypeOK'
    BY <1>1, <1>7, <2>1, <2>3 DEF PayoutTypeOK
  <2> QED
    BY <1>1, <1>7, <2>1, <2>3, <2>4 DEF PayoutInv, NeverCreditedTwice, ClosedWhenCredited
<1>8. ASSUME NEW c \in Claims, claimForUser(c) \/ CommitClaim(c) PROVE PayoutInv'
  <2>1. CASE claimForUser(c)
    <3>1. claiming' = [claiming EXCEPT ![c] = Pending]
          /\ UNCHANGED <<payout, creatorOf, notifying, sweeping, strict, references, credited, reopened>>
      BY <2>1 DEF claimForUser
    <3>2. claiming' \in [Claims -> SUBSET Payouts]
      BY <1>1, <3>1 DEF Pending
    <3> QED
      BY <1>1, <3>1, <3>2 DEF PayoutInv, PayoutTypeOK, NeverCreditedTwice, ClosedWhenCredited
  <2>2. CASE CommitClaim(c)
    <3>1. /\ claiming' = [claiming EXCEPT ![c] = NoClaim]
          /\ Credit(claiming[c] \cap Pending, "CLAIMED") \/ UNCHANGED <<payout, credited, references>>
          /\ UNCHANGED <<creatorOf, notifying, sweeping, strict, reopened>>
      BY <2>2 DEF CommitClaim
    <3>2. claiming' \in [Claims -> SUBSET Payouts]
      BY <1>1, <3>1 DEF NoClaim
    <3> QED
      BY <1>7, <3>1, <3>2
  <2> QED
    BY <1>8, <2>1, <2>2
<1>9. CASE runExpirySweep
  <2>1. /\ sweeping' = {p \in Pending : payout[p].due}
        /\ UNCHANGED <<payout, creatorOf, notifying, claiming, strict, references, credited, reopened>>
    BY <1>9 DEF runExpirySweep
  <2>2. sweeping' \subseteq Payouts /\ \A p \in sweeping' : payout[p].due
    BY <2>1 DEF Pending
  <2> QED
    BY <1>1, <2>1, <2>2 DEF PayoutInv, PayoutTypeOK, NeverCreditedTwice, ClosedWhenCredited
<1>10. ASSUME NEW p \in Payouts, returnToBillCreator(p) PROVE PayoutInv'
  <2>1. /\ p \in sweeping /\ sweeping' = sweeping \ {p} /\ payout[p].due
        /\ reopened' = IF creatorOf[p] = "nobody" /\ p \notin Pending THEN reopened \cup {p} ELSE reopened
        /\ UNCHANGED <<creatorOf, notifying, claiming, strict>>
    BY <1>1, <1>10 DEF returnToBillCreator
  <2>2. CASE /\ creatorOf[p] = "nobody" \/ (creatorOf[p] = "noWallet" /\ p \in Pending)
             /\ payout' = [payout EXCEPT ![p].status = "EXPIRED"]
             /\ UNCHANGED <<credited, references>>
    <3>1. p \in reopened' \/ credited[p] = 0
      BY <1>1, <2>1, <2>2 DEF Pending
    <3> QED
      BY <1>1, <1>3, <2>1, <2>2, <3>1
  <2>3. CASE creatorOf[p] = "wallet" /\ Credit({p} \cap Pending, "RETURNED")
    <3>1. reopened' = reopened
      BY <2>1, <2>3
    <3> QED
      BY <1>1, <1>7, <2>1, <2>3, <3>1
  <2>4. CASE creatorOf[p] = "noWallet" /\ p \notin Pending /\ UNCHANGED <<payout, credited, references>>
    <3>1. reopened' = reopened
      BY <2>1, <2>4
    <3>2. PayoutInv'
      BY <1>1, <2>1, <2>4, <3>1 DEF PayoutInv, PayoutTypeOK, NeverCreditedTwice, ClosedWhenCredited
    <3> QED
      BY <3>2
  <2> QED
    BY <1>10, <2>2, <2>3, <2>4 DEF returnToBillCreator
<1> QED
  BY <1>2, <1>4, <1>5, <1>6, <1>8, <1>9, <1>10 DEF PayoutNext

-----------------------------------------------------------------------------
(* The points *)

\* What a payment is worth, in the order of its awards.
DueOf(t) == IF t.kind = "split" THEN awardForSplitBillDonation(t) ELSE awardForDonation(t)
Row(a, p) == [user |-> a.user, action |-> a.action, source |-> p]

\* A champion who is paid is one of the campaign, and not the giver.
ChampionOK(t) == t.champion # Nobody => t.champion \in ChampionOf[t.cause]

\* The awards that a payment still has to make are the last ones it is worth.
AwardsLeft(p, t, left) ==
    /\ left \in Seq(Award) /\ Len(left) <= Len(DueOf(t))
    /\ \A i \in 1..Len(left) : left[i] = DueOf(t)[Len(DueOf(t)) - Len(left) + i]

\* The rows it has earned are of the ones before; all of them, when it was not disturbed.
AwardsMade(p, t, left, rows, disturbed) ==
    /\ \A e \in rows : e.source = p =>
          \E i \in 1..(Len(DueOf(t)) - Len(left)) : e = Row(DueOf(t)[i], p)
    /\ ~disturbed => \A i \in 1..(Len(DueOf(t)) - Len(left)) : Row(DueOf(t)[i], p) \in rows

AllOn == \A a \in ActionCodes : rules[a]

\* One payment: it settles before its awards begin, works while it has some left, and
\* meets a rule that is off only as a disturbed one.
PaymentInv(p) ==
    /\ p \notin DOMAIN settled => awarding[p] = Idle
    /\ awarding[p].at = "idle" <=> awarding[p].left = << >>
    /\ awarding[p].at \in {"rule", "insert"} => rules # << >> \/ p \in spoiled
    /\ p \in DOMAIN settled =>
         /\ ChampionOK(settled[p])
         /\ AwardsLeft(p, settled[p], awarding[p].left)
         /\ AwardsMade(p, settled[p], awarding[p].left, DOMAIN earned, p \in spoiled)
         /\ p \notin spoiled /\ awarding[p].at # "idle" => rules = << >> \/ AllOn

\* A server that starts has nothing to award.
BootInv(b) == awarding[b].left = << >> /\ awarding[b].at \in {"idle", "count", "seed", "rule"}

PointsInv ==
    /\ PointsTypeOK /\ AwardedOnce
    /\ \A p \in Payments : PaymentInv(p)
    /\ \A b \in Boots : BootInv(b)

\* A sequence followed by another one.
JoinIs(S, u, v, d) ==
    /\ d \in Seq(S) /\ Len(d) = Len(u) + Len(v)
    /\ \A i \in 1..Len(u) : d[i] = u[i]
    /\ \A i \in 1..Len(v) : d[Len(u) + i] = v[i]

\* Their concatenation is that.
LEMMA Joined ==
    ASSUME NEW S, NEW u \in Seq(S), NEW v \in Seq(S)
    PROVE  JoinIs(S, u, v, u \o v)
BY DEF JoinIs

\* Short sequences.
LEMMA Short ==
    ASSUME NEW S, NEW x \in S
    PROVE  /\ <<x>> \in Seq(S) /\ Len(<<x>>) = 1 /\ <<x>>[1] = x
           /\ \A y \in S : /\ <<x, y>> \in Seq(S) /\ Len(<<x, y>>) = 2
                           /\ <<x, y>>[1] = x /\ <<x, y>>[2] = y
OBVIOUS

\* A payment is worth one to three rows, each of an action of its own; the champion's
\* goes to a champion of its campaign who is not the giver.
LEMMA DueIs ==
    ASSUME NEW t \in Payment
    PROVE  /\ DueOf(t) \in Seq(Award) /\ Len(DueOf(t)) \in 1..3
           /\ \A i, j \in 1..Len(DueOf(t)) : DueOf(t)[i].action = DueOf(t)[j].action => i = j
           /\ \A i \in 1..Len(DueOf(t)) : DueOf(t)[i].action = "champion" =>
                 DueOf(t)[i].user = t.champion /\ t.champion # Nobody /\ t.champion # t.payer
<1> DEFINE A(u, c) == [user |-> u, action |-> c]
           due == DueOf(t)
<1>1. /\ t.kind \in {"donation", "split"} /\ t.payer \in Members
      /\ t.beneficiary \in Members \cup {Nobody} /\ t.champion \in Members \cup {Nobody}
  BY DEF Payment
<1>2. /\ \A u \in Members, c \in ActionCodes : A(u, c) \in Award
      /\ \A u, c : A(u, c).user = u /\ A(u, c).action = c
  BY DEF Award
<1>3. t.kind = "split" => due = <<A(t.payer, "split")>>
  BY DEF DueOf, awardForSplitBillDonation
<1>4. t.kind # "split" =>
        due = (IF t.beneficiary = Nobody THEN <<A(t.payer, "direct")>>
               ELSE <<A(t.payer, "behalf_payer"), A(t.beneficiary, "behalf_beneficiary")>>)
              \o (IF t.champion \in {Nobody, t.payer} THEN << >> ELSE <<A(t.champion, "champion")>>)
  BY DEF DueOf, awardForDonation
<1> HIDE DEF A, due
<1>5. CASE t.kind = "split"
  <2>1. A(t.payer, "split") \in Award
    BY <1>1, <1>2 DEF ActionCodes
  <2> DEFINE u == <<A(t.payer, "split")>>
  <2>2. u \in Seq(Award) /\ Len(u) = 1 /\ u[1] = A(t.payer, "split")
    BY <2>1, Short
  <2>3. due = u
    BY <1>3, <1>5
  <2> HIDE DEF u
  <2>4. due \in Seq(Award) /\ Len(due) = 1 /\ due[1] = A(t.payer, "split")
    BY <2>2, <2>3
  <2> QED
    BY <1>2, <1>5, <2>4 DEF due
<1>6. CASE t.kind # "split" /\ t.beneficiary = Nobody /\ t.champion \in {Nobody, t.payer}
  <2> DEFINE u == <<A(t.payer, "direct")>>
  <2>1. A(t.payer, "direct") \in Award
    BY <1>1, <1>2, <1>6 DEF ActionCodes
  <2>2. u \in Seq(Award) /\ Len(u) = 1
        /\ u[1] = A(t.payer, "direct")
    BY <2>1, Short
  <2>3. due = u \o << >>
    BY <1>4, <1>6
  <2> HIDE DEF u
  <2>4. due \in Seq(Award) /\ Len(due) = 1 /\ due[1] = u[1]
    BY <2>2, <2>3
  <2> QED
    BY <1>2, <1>6, <2>2, <2>4 DEF due
<1>7. CASE t.kind # "split" /\ t.beneficiary = Nobody /\ t.champion \notin {Nobody, t.payer}
  <2> DEFINE u == <<A(t.payer, "direct")>>
  <2>1. A(t.payer, "direct") \in Award /\ A(t.champion, "champion") \in Award
    BY <1>1, <1>2, <1>7 DEF ActionCodes
  <2>2. u \in Seq(Award) /\ Len(u) = 1
        /\ u[1] = A(t.payer, "direct")
    BY <2>1, Short
  <2> DEFINE v == <<A(t.champion, "champion")>>
  <2>3. due = u \o v
    BY <1>4, <1>7
  <2>5. v \in Seq(Award) /\ Len(v) = 1 /\ v[1] = A(t.champion, "champion")
    BY <2>1, Short
  <2> HIDE DEF u, v
  <2>6. JoinIs(Award, u, v, due)
    BY <2>2, <2>3, <2>5, Joined
  <2>4. due \in Seq(Award) /\ Len(due) = 2
        /\ due[1] = u[1] /\ due[1 + 1] = v[1]
    BY <2>2, <2>5, <2>6 DEF JoinIs
  <2> QED
    BY <1>2, <1>7, <2>2, <2>4, <2>5 DEF due
<1>8. CASE t.kind # "split" /\ t.beneficiary # Nobody /\ t.champion \in {Nobody, t.payer}
  <2> DEFINE u == <<A(t.payer, "behalf_payer"), A(t.beneficiary, "behalf_beneficiary")>>
  <2>1. A(t.payer, "behalf_payer") \in Award /\ A(t.beneficiary, "behalf_beneficiary") \in Award
    BY <1>1, <1>2, <1>8 DEF ActionCodes
  <2>2. u \in Seq(Award) /\ Len(u) = 2
        /\ u[1] = A(t.payer, "behalf_payer") /\ u[2] = A(t.beneficiary, "behalf_beneficiary")
    BY <2>1, Short
  <2>3. due = u \o << >>
    BY <1>4, <1>8
  <2> HIDE DEF u
  <2>4. due \in Seq(Award) /\ Len(due) = 2 /\ due[1] = u[1] /\ due[2] = u[2]
    BY <2>2, <2>3
  <2> QED
    BY <1>2, <1>8, <2>2, <2>4 DEF due
<1>9. CASE t.kind # "split" /\ t.beneficiary # Nobody /\ t.champion \notin {Nobody, t.payer}
  <2> DEFINE u == <<A(t.payer, "behalf_payer"), A(t.beneficiary, "behalf_beneficiary")>>
  <2>1. /\ A(t.payer, "behalf_payer") \in Award /\ A(t.beneficiary, "behalf_beneficiary") \in Award
        /\ A(t.champion, "champion") \in Award
    BY <1>1, <1>2, <1>9 DEF ActionCodes
  <2>2. u \in Seq(Award) /\ Len(u) = 2
        /\ u[1] = A(t.payer, "behalf_payer") /\ u[2] = A(t.beneficiary, "behalf_beneficiary")
    BY <2>1, Short
  <2> DEFINE v == <<A(t.champion, "champion")>>
  <2>3. due = u \o v
    BY <1>4, <1>9
  <2>5. v \in Seq(Award) /\ Len(v) = 1 /\ v[1] = A(t.champion, "champion")
    BY <2>1, Short
  <2> HIDE DEF u, v
  <2>6. JoinIs(Award, u, v, due)
    BY <2>2, <2>3, <2>5, Joined
  <2>4. due \in Seq(Award) /\ Len(due) = 3
        /\ due[1] = u[1] /\ due[2] = u[2] /\ due[2 + 1] = v[1]
    BY <2>2, <2>5, <2>6 DEF JoinIs
  <2> QED
    BY <1>2, <1>9, <2>2, <2>4, <2>5 DEF due
<1> QED
  BY <1>5, <1>6, <1>7, <1>8, <1>9

\* Nothing has settled in the beginning.
LEMMA PointsInits == PointsInit => PointsInv
<1> SUFFICES ASSUME PointsInit PROVE PointsInv
  OBVIOUS
<1>1. /\ rules = << >> /\ earned = << >> /\ settled = << >> /\ spoiled = {}
      /\ awarding = [p \in Processes |-> Idle]
  BY DEF PointsInit
<1>2. Idle \in [left : Seq(Award), at : {"idle", "count", "seed", "rule", "insert"}]
      /\ Idle.left = << >> /\ Idle.at = "idle"
  BY DEF Idle
<1>3. DOMAIN earned = {} /\ DOMAIN settled = {}
  BY <1>1
<1>4. awarding \in [Processes -> [left : Seq(Award), at : {"idle", "count", "seed", "rule", "insert"}]]
  BY <1>1, <1>2
<1>5. \A p \in Processes : awarding[p] = Idle
  BY <1>1
<1>6. PointsTypeOK /\ AwardedOnce
  BY <1>1, <1>3, <1>4 DEF PointsTypeOK, AwardedOnce
<1> QED
  BY <1>2, <1>3, <1>5, <1>6 DEF PointsInv, PaymentInv, BootInv, Processes

\* What the awards of one payment do not touch in another.
Kept(p) ==
    /\ awarding'[p] = awarding[p] /\ (p \in DOMAIN settled' <=> p \in DOMAIN settled)
    /\ p \in DOMAIN settled => settled'[p] = settled[p]
    /\ \A e : e.source = p => (e \in DOMAIN earned' <=> e \in DOMAIN earned)
    /\ p \in spoiled => p \in spoiled'
    /\ rules # << >> => rules' # << >>
    /\ p \notin spoiled' /\ awarding[p].at # "idle" /\ (rules = << >> \/ AllOn) => rules' = << >> \/ AllOn'

\* A payment that a step leaves alone keeps what is known of it.
LEMMA OthersKept ==
    ASSUME NEW p \in Payments, PaymentInv(p), Kept(p)
    PROVE  PaymentInv(p)'
<1>1. /\ awarding'[p] = awarding[p] /\ (p \in DOMAIN settled' <=> p \in DOMAIN settled)
      /\ p \in DOMAIN settled => settled'[p] = settled[p]
      /\ \A e : e.source = p => (e \in DOMAIN earned' <=> e \in DOMAIN earned)
      /\ p \in spoiled => p \in spoiled'
      /\ rules # << >> => rules' # << >>
      /\ p \notin spoiled' /\ awarding[p].at # "idle" /\ (rules = << >> \/ AllOn) => rules' = << >> \/ AllOn'
  BY DEF Kept
<1>2. /\ (p \notin DOMAIN settled => awarding[p] = Idle)'
      /\ (awarding[p].at = "idle" <=> awarding[p].left = << >>)'
      /\ (awarding[p].at \in {"rule", "insert"} => rules # << >> \/ p \in spoiled)'
  BY <1>1 DEF PaymentInv, Idle
<1>3. ASSUME p \in DOMAIN settled'
      PROVE  /\ ChampionOK(settled[p])' /\ AwardsLeft(p, settled[p], awarding[p].left)'
             /\ AwardsMade(p, settled[p], awarding[p].left, DOMAIN earned, p \in spoiled)'
             /\ (p \notin spoiled /\ awarding[p].at # "idle" => rules = << >> \/ AllOn)'
  <2> DEFINE t == settled[p]
             left == awarding[p].left
             n == Len(DueOf(t)) - Len(left)
  <2>1. /\ settled'[p] = t /\ awarding'[p].left = left
        /\ ChampionOK(t) /\ AwardsLeft(p, t, left)
        /\ \A e \in DOMAIN earned : e.source = p => \E i \in 1..n : e = Row(DueOf(t)[i], p)
        /\ p \notin spoiled => \A i \in 1..n : Row(DueOf(t)[i], p) \in DOMAIN earned
    BY <1>1, <1>3 DEF PaymentInv, AwardsMade
  <2> HIDE DEF t, left, n
  <2>2. \A a : Row(a, p).source = p
    BY DEF Row
  <2>3. /\ \A e \in DOMAIN earned' : e.source = p => \E i \in 1..n : e = Row(DueOf(t)[i], p)
        /\ p \notin spoiled' => \A i \in 1..n : Row(DueOf(t)[i], p) \in DOMAIN earned'
    BY <1>1, <2>1, <2>2
  <2>4. AwardsMade(p, settled'[p], awarding'[p].left, DOMAIN earned', p \in spoiled')
    BY <2>1, <2>3 DEF AwardsMade, n
  <2>5. p \notin spoiled' /\ awarding'[p].at # "idle" => rules' = << >> \/ AllOn'
    BY <1>1, <1>3 DEF PaymentInv
  <2> QED
    BY <2>1, <2>4, <2>5
<1> QED
  BY <1>2, <1>3 DEF PaymentInv

Ats == {"idle", "count", "seed", "rule", "insert"}

\* A step of one process that only looks at the rules, or seeds them.
LEMMA Looks ==
    ASSUME PointsInv, NEW p \in Processes, NEW x \in Ats \ {"idle"},
           awarding' = [awarding EXCEPT ![p].at = x],
           p \in Boots \/ awarding[p].at # "idle", x = "insert" => p \in Payments,
           x \in {"rule", "insert"} => rules' # << >> \/ p \in spoiled' \/ p \notin Payments,
           \/ rules' = rules
           \/ rules = << >> /\ rules' # << >> /\ rules' = [a \in ActionCodes |-> TRUE],
           spoiled' = spoiled \/ spoiled' = spoiled \cup ({p} \cap Payments),
           UNCHANGED <<earned, settled>>
    PROVE  PointsInv'
<1>1. /\ PointsTypeOK /\ AwardedOnce /\ \A q \in Payments : PaymentInv(q)
      /\ \A b \in Boots : BootInv(b)
      /\ awarding \in [Processes -> [left : Seq(Award), at : Ats]]
  BY DEF PointsInv, PointsTypeOK, Ats
<1>2. /\ awarding' \in [Processes -> [left : Seq(Award), at : Ats]]
      /\ awarding'[p].left = awarding[p].left /\ awarding'[p].at = x
      /\ \A q \in Processes \ {p} : awarding'[q] = awarding[q]
  BY <1>1
<1>3. /\ rules # << >> => rules' # << >>
      /\ rules' \in [ActionCodes -> BOOLEAN] \/ rules' = << >>
      /\ (rules = << >> \/ AllOn) => rules' = << >> \/ AllOn'
  BY <1>1 DEF PointsTypeOK, AllOn
<1>4. PointsTypeOK' /\ AwardedOnce'
  BY <1>1, <1>2, <1>3 DEF PointsTypeOK, AwardedOnce, Ats
<1>5. ASSUME NEW q \in Payments, q # p PROVE PaymentInv(q)'
  <2>1. q \in spoiled' <=> q \in spoiled
    BY <1>5
  <2>2. Kept(q)
    BY <1>2, <1>3, <1>5, <2>1 DEF Kept, Processes
  <2> QED
    BY <1>1, <2>2, OthersKept
<1>6. ASSUME p \in Payments PROVE PaymentInv(p)'
  <2>1. awarding[p].at # "idle" /\ awarding[p].left # << >> /\ p \in DOMAIN settled
    BY <1>1, <1>6, BootsAssumption DEF PaymentInv, Idle
  <2>2. AwardsLeft(p, settled'[p], awarding'[p].left)
        /\ AwardsMade(p, settled'[p], awarding'[p].left, DOMAIN earned', p \in spoiled')
        /\ ChampionOK(settled'[p])
    <3>1. p \in spoiled => p \in spoiled'
      OBVIOUS
    <3>2. /\ settled'[p] = settled[p] /\ awarding'[p].left = awarding[p].left /\ earned' = earned
          /\ ChampionOK(settled[p]) /\ AwardsLeft(p, settled[p], awarding[p].left)
          /\ AwardsMade(p, settled[p], awarding[p].left, DOMAIN earned, p \in spoiled)
      BY <1>1, <1>2, <1>6, <2>1 DEF PaymentInv
    <3>3. AwardsMade(p, settled[p], awarding[p].left, DOMAIN earned, p \in spoiled')
      BY <3>1, <3>2 DEF AwardsMade
    <3> QED
      BY <3>2, <3>3
  <2>3. p \notin spoiled' /\ awarding'[p].at # "idle" => rules' = << >> \/ AllOn'
    BY <1>1, <1>3, <1>6, <2>1 DEF PaymentInv
  <2>4. (awarding[p].at = "idle" <=> awarding[p].left = << >>)'
        /\ (awarding[p].at \in {"rule", "insert"} => rules # << >> \/ p \in spoiled)'
        /\ p \in DOMAIN settled'
    BY <1>2, <1>6, <2>1
  <2> QED
    BY <2>2, <2>3, <2>4 DEF PaymentInv
<1>7. ASSUME NEW b \in Boots PROVE BootInv(b)'
  <2>1. b \in Processes /\ b \notin Payments
    BY BootsAssumption DEF Processes
  <2>2. CASE b = p
    BY <1>1, <1>2, <2>1, <2>2 DEF BootInv, Ats
  <2>3. CASE b # p
    BY <1>1, <1>2, <2>1, <2>3 DEF BootInv
  <2> QED
    BY <2>2, <2>3
<1> QED
  BY <1>4, <1>5, <1>6, <1>7 DEF PointsInv

\* A process leaves off an award, or all: of a payment, because it is disturbed.
LEMMA LeavesOff ==
    ASSUME PointsInv, NEW p \in Processes, NEW w \in [left : Seq(Award), at : Ats],
           awarding' = [awarding EXCEPT ![p] = w],
           w.at \in {"idle", "count"}, w.at = "idle" <=> w.left = << >>,
           w.left = << >> \/ (awarding[p].left # << >> /\ w.left = Tail(awarding[p].left)),
           awarding[p].at # "idle", p \in Payments => p \in spoiled',
           p \notin Payments => w = Idle,
           spoiled \subseteq spoiled' /\ spoiled' \subseteq Payments, UNCHANGED <<rules, earned, settled>>
    PROVE  PointsInv'
<1>1. /\ PointsTypeOK /\ AwardedOnce /\ \A q \in Payments : PaymentInv(q)
      /\ \A b \in Boots : BootInv(b)
      /\ awarding \in [Processes -> [left : Seq(Award), at : Ats]]
  BY DEF PointsInv, PointsTypeOK, Ats
<1>2. /\ awarding' \in [Processes -> [left : Seq(Award), at : Ats]] /\ awarding'[p] = w
      /\ \A q \in Processes \ {p} : awarding'[q] = awarding[q]
  BY <1>1
<1>3. PointsTypeOK' /\ AwardedOnce'
  BY <1>1, <1>2 DEF PointsTypeOK, AwardedOnce, Ats
<1>4. AllOn' <=> AllOn
  BY DEF AllOn
<1>5. ASSUME NEW q \in Payments, q # p PROVE PaymentInv(q)'
  <2>1. Kept(q)
    BY <1>2, <1>4, <1>5 DEF Kept, Processes
  <2> QED
    BY <1>1, <2>1, OthersKept
<1>6. ASSUME p \in Payments PROVE PaymentInv(p)'
  <2> DEFINE t == settled[p]
             left == awarding[p].left
             d == DueOf(t)
  <2>1. /\ awarding[p].at # "idle" /\ p \in DOMAIN settled /\ t \in Payment /\ p \in spoiled'
        /\ ChampionOK(t) /\ AwardsLeft(p, t, left) /\ AwardsMade(p, t, left, DOMAIN earned, p \in spoiled)
    BY <1>1, <1>6 DEF PaymentInv, Idle, PointsTypeOK
  <2>2. d \in Seq(Award) /\ Len(d) \in 1..3
    BY <2>1, DueIs
  <2> HIDE DEF t, left, d
  <2>3. /\ left \in Seq(Award) /\ Len(left) <= Len(d)
        /\ \A i \in 1..Len(left) : left[i] = d[Len(d) - Len(left) + i]
    BY <2>1 DEF AwardsLeft, d
  <2>4. /\ w.left \in Seq(Award) /\ Len(w.left) <= Len(left)
        /\ \A i \in 1..Len(w.left) : w.left[i] = d[Len(d) - Len(w.left) + i]
    <3>1. CASE w.left = << >>
      BY <2>2, <2>3, <3>1
    <3>2. CASE left # << >> /\ w.left = Tail(left)
      <4>1. /\ Len(w.left) = Len(left) - 1 /\ Len(left) \in Nat /\ Len(left) > 0
            /\ \A i \in 1..Len(w.left) : w.left[i] = left[i + 1]
        BY <2>3, <3>2
      <4>2. ASSUME NEW i \in 1..Len(w.left) PROVE w.left[i] = d[Len(d) - Len(w.left) + i]
        <5>1. i + 1 \in 1..Len(left) /\ Len(d) - Len(left) + (i + 1) = Len(d) - Len(w.left) + i
          BY <2>2, <4>1
        <5> QED
          BY <2>3, <4>1, <5>1
      <4> QED
        BY <4>1, <4>2
    <3> QED
      BY <3>1, <3>2 DEF left
  <2>5. AwardsLeft(p, t, w.left)
    BY <2>2, <2>3, <2>4 DEF AwardsLeft, d
  <2>6. AwardsMade(p, t, w.left, DOMAIN earned, TRUE)
    <3>1. \A i \in 1..(Len(d) - Len(left)) : i \in 1..(Len(d) - Len(w.left))
      BY <2>2, <2>3, <2>4
    <3> QED
      BY <2>1, <3>1 DEF AwardsMade, d
  <2>7. AwardsMade(p, settled'[p], awarding'[p].left, DOMAIN earned', p \in spoiled')
    <3>1. settled'[p] = t /\ awarding'[p].left = w.left /\ DOMAIN earned' = DOMAIN earned
      BY <1>2 DEF t
    <3> QED
      BY <2>1, <2>6, <3>1 DEF AwardsMade
  <2>8. /\ (p \notin DOMAIN settled => awarding[p] = Idle)'
        /\ (awarding[p].at = "idle" <=> awarding[p].left = << >>)'
        /\ (awarding[p].at \in {"rule", "insert"} => rules # << >>)'
    BY <1>2, <2>1
  <2>9. ChampionOK(settled[p])' /\ AwardsLeft(p, settled[p], awarding[p].left)'
    BY <1>2, <2>1, <2>5 DEF t
  <2> QED
    BY <2>1, <2>7, <2>8, <2>9 DEF PaymentInv
<1>7. ASSUME NEW b \in Boots PROVE BootInv(b)'
  <2>1. b \in Processes /\ b \notin Payments
    BY BootsAssumption DEF Processes
  <2>2. CASE b = p
    BY <1>2, <2>1, <2>2 DEF BootInv, Idle
  <2>3. CASE b # p
    BY <1>1, <1>2, <2>1, <2>3 DEF BootInv
  <2> QED
    BY <2>2, <2>3
<1> QED
  BY <1>3, <1>5, <1>6, <1>7 DEF PointsInv

\* The payment's next award is made: a row it has not earned yet.
LEMMA Awards ==
    ASSUME PointsInv, NEW p \in Processes, award(p)
    PROVE  PointsInv'
<1> DEFINE t == settled[p]
           left == awarding[p].left
           d == DueOf(t)
           n == Len(d) - Len(left)
           row == Row(Head(left), p)
           rest == Tail(left)
           w == [left |-> rest, at |-> IF rest = << >> THEN "idle" ELSE "count"]
<1>1. /\ PointsTypeOK /\ AwardedOnce /\ \A q \in Payments : PaymentInv(q)
      /\ \A b \in Boots : BootInv(b)
      /\ awarding \in [Processes -> [left : Seq(Award), at : Ats]]
      /\ awarding[p].at = "insert" /\ UNCHANGED <<rules, settled, spoiled>>
  BY DEF PointsInv, PointsTypeOK, Ats, award
<1>2. p \in Payments
  BY <1>1 DEF Processes, BootInv
<1>3. /\ p \in DOMAIN settled /\ t \in Payment /\ left \in Seq(Award) /\ left # << >>
      /\ ChampionOK(t) /\ AwardsLeft(p, t, left) /\ AwardsMade(p, t, left, DOMAIN earned, p \in spoiled)
      /\ (p \notin spoiled => rules = << >> \/ AllOn)
  BY <1>1, <1>2 DEF PaymentInv, Idle, PointsTypeOK
<1>4. /\ d \in Seq(Award) /\ Len(d) \in 1..3
      /\ \A i, j \in 1..Len(d) : d[i].action = d[j].action => i = j
  BY <1>3, DueIs
<1>5. /\ awarding' = [awarding EXCEPT ![p] = w]
      /\ earned' = [e \in DOMAIN earned \cup {row} |->
                      IF e # row THEN earned[e] ELSE IF e \in DOMAIN earned THEN earned[e] + 1 ELSE 1]
  BY <1>3 DEF award, Advance, Earn, Row
<1>6. /\ Head(left) \in Award /\ Head(left) = left[1]
      /\ rest \in Seq(Award) /\ Len(left) \in Nat /\ Len(left) > 0 /\ Len(rest) = Len(left) - 1
      /\ \A i \in 1..Len(rest) : rest[i] = left[i + 1]
  BY <1>3
<1>7. w \in [left : Seq(Award), at : Ats] /\ w.left = rest
      /\ (w.at = "idle" <=> rest = << >>) /\ w.at \in {"idle", "count"}
  BY <1>6 DEF Ats
<1> HIDE DEF t, left, d, row, rest, w
<1>8. /\ Len(left) <= Len(d) /\ \A i \in 1..Len(left) : left[i] = d[n + i]
      /\ \A e \in DOMAIN earned : e.source = p => \E i \in 1..n : e = Row(d[i], p)
      /\ p \notin spoiled => \A i \in 1..n : Row(d[i], p) \in DOMAIN earned
  BY <1>3 DEF AwardsLeft, AwardsMade, d
<1>9. /\ n + 1 \in 1..Len(d) /\ Len(d) - Len(rest) = n + 1 /\ n \in Nat
      /\ Head(left) = d[n + 1] /\ row = Row(d[n + 1], p)
  <2>1. 1 \in 1..Len(left) /\ Len(left) <= Len(d) /\ n \in Nat /\ n + 1 <= Len(d)
    BY <1>4, <1>6, <1>8
  <2>2. Head(left) = d[n + 1]
    BY <1>6, <1>8, <2>1
  <2> QED
    BY <1>4, <1>6, <2>1, <2>2 DEF row
<1> HIDE DEF n
<1>10. row \notin DOMAIN earned
  <2> SUFFICES ASSUME row \in DOMAIN earned PROVE FALSE
    OBVIOUS
  <2>1. row.source = p
    BY <1>9 DEF Row
  <2>2. PICK i \in 1..n : row = Row(d[i], p)
    BY <1>8, <2>1
  <2>3. d[i].action = d[n + 1].action
    BY <1>9, <2>2 DEF Row
  <2>4. i \in 1..Len(d) /\ n + 1 \in 1..Len(d) /\ i # n + 1
    BY <1>4, <1>9
  <2> QED
    BY <1>4, <2>3, <2>4
<1>11. /\ DOMAIN earned' = DOMAIN earned \cup {row} /\ earned'[row] = 1
       /\ \A e \in DOMAIN earned : earned'[e] = earned[e]
  BY <1>5, <1>10
<1>12. /\ awarding' \in [Processes -> [left : Seq(Award), at : Ats]] /\ awarding'[p] = w
       /\ \A q \in Processes \ {p} : awarding'[q] = awarding[q]
  BY <1>1, <1>5, <1>7
<1>13. row \in Event /\ row.source = p
  BY <1>2, <1>6 DEF Event, Award, Row, row
<1>14. PointsTypeOK' /\ AwardedOnce'
  <2>1. \A e \in DOMAIN earned' : e \in Event /\ earned'[e] \in 1..2 /\ earned'[e] = 1 /\ e.source \in DOMAIN settled
    BY <1>1, <1>3, <1>11, <1>13 DEF PointsTypeOK, AwardedOnce
  <2> QED
    BY <1>1, <1>12, <2>1 DEF PointsTypeOK, AwardedOnce, Ats
<1>15. AllOn' <=> AllOn
  BY <1>1 DEF AllOn
<1>16. ASSUME NEW q \in Payments, q # p PROVE PaymentInv(q)'
  <2>1. \A e : e.source = q => (e \in DOMAIN earned' <=> e \in DOMAIN earned)
    BY <1>11, <1>13, <1>16
  <2>2. Kept(q)
    BY <1>1, <1>12, <1>15, <1>16, <2>1 DEF Kept, Processes
  <2> QED
    BY <1>1, <2>2, OthersKept
<1>17. PaymentInv(p)'
  <2>1. AwardsLeft(p, t, rest)
    <3>1. ASSUME NEW i \in 1..Len(rest) PROVE rest[i] = d[Len(d) - Len(rest) + i]
      <4>1. i + 1 \in 1..Len(left) /\ n + (i + 1) = Len(d) - Len(rest) + i
        BY <1>4, <1>6, <1>9
      <4> QED
        BY <1>6, <1>8, <4>1
    <3>2. Len(rest) <= Len(d)
      BY <1>4, <1>6, <1>8
    <3> QED
      BY <1>6, <3>1, <3>2 DEF AwardsLeft, d
  <2>2. AwardsMade(p, t, rest, DOMAIN earned', p \in spoiled)
    <3>1. \A e \in DOMAIN earned' : e.source = p => \E i \in 1..(n + 1) : e = Row(d[i], p)
      <4>1. n + 1 \in 1..(n + 1) /\ \A i \in 1..n : i \in 1..(n + 1)
        BY <1>9
      <4> QED
        BY <1>8, <1>9, <1>11, <4>1
    <3>2. p \notin spoiled => \A i \in 1..(n + 1) : Row(d[i], p) \in DOMAIN earned'
      <4>1. \A i \in 1..(n + 1) : i \in 1..n \/ i = n + 1
        BY <1>9
      <4> QED
        BY <1>8, <1>9, <1>11, <4>1
    <3> QED
      BY <1>9, <3>1, <3>2 DEF AwardsMade, d
  <2>3. settled'[p] = t /\ awarding'[p].left = rest /\ spoiled' = spoiled /\ p \in DOMAIN settled'
    BY <1>1, <1>3, <1>7, <1>12 DEF t
  <2>4. (awarding[p].at = "idle" <=> awarding[p].left = << >>)'
        /\ (awarding[p].at \in {"rule", "insert"} => rules # << >>)'
        /\ (p \notin spoiled /\ awarding[p].at # "idle" => rules = << >> \/ AllOn)'
    BY <1>1, <1>3, <1>7, <1>12, <1>15
  <2> QED
    BY <1>3, <2>1, <2>2, <2>3, <2>4 DEF PaymentInv
<1>18. ASSUME NEW b \in Boots PROVE BootInv(b)'
  <2>1. b \in Processes /\ b # p
    BY <1>2, BootsAssumption DEF Processes
  <2> QED
    BY <1>1, <1>12, <2>1 DEF BootInv
<1> QED
  BY <1>14, <1>16, <1>17, <1>18 DEF PointsInv

\* A sequence with elements is not the empty one.
LEMMA NotEmpty ==
    ASSUME NEW S, NEW s \in Seq(S), Len(s) \in 1..3
    PROVE  s # << >>
  OBVIOUS

\* A payment commits, with all its awards before it.
LEMMA Settles ==
    ASSUME PointsInv, NEW p \in Payments, p \notin DOMAIN settled, NEW t \in Payment, ChampionOK(t),
           settled' = [q \in DOMAIN settled \cup {p} |-> IF q = p THEN t ELSE settled[q]],
           awarding' = [awarding EXCEPT ![p] = [left |-> DueOf(t), at |-> "count"]],
           spoiled' = (IF rules = << >> \/ \A a \in ActionCodes : rules[a] THEN spoiled ELSE spoiled \cup {p}),
           UNCHANGED <<rules, earned>>
    PROVE  PointsInv'
<1> DEFINE d == DueOf(t)
           w == [left |-> d, at |-> "count"]
<1>1. /\ PointsTypeOK /\ AwardedOnce /\ \A q \in Payments : PaymentInv(q)
      /\ \A b \in Boots : BootInv(b)
      /\ awarding \in [Processes -> [left : Seq(Award), at : Ats]]
  BY DEF PointsInv, PointsTypeOK, Ats
<1>2. d \in Seq(Award) /\ Len(d) \in 1..3
  BY DueIs
<1>3. awarding' = [awarding EXCEPT ![p] = w]
  OBVIOUS
<1> HIDE DEF d
<1>4. w \in [left : Seq(Award), at : Ats] /\ w.left = d /\ w.at = "count" /\ d # << >>
  <2>1. "count" \in Ats /\ d \in Seq(Award)
    BY <1>2 DEF Ats
  <2>2. d # << >>
    BY <1>2, NotEmpty
  <2> QED
    BY <2>1, <2>2
<1> HIDE DEF w
<1>5. /\ awarding' \in [Processes -> [left : Seq(Award), at : Ats]] /\ awarding'[p] = w
      /\ \A q \in Processes \ {p} : awarding'[q] = awarding[q]
  BY <1>1, <1>3, <1>4 DEF Processes
<1>6. /\ DOMAIN settled' = DOMAIN settled \cup {p} /\ settled'[p] = t
      /\ \A q \in DOMAIN settled : settled'[q] = settled[q]
  OBVIOUS
<1>7. PointsTypeOK' /\ AwardedOnce'
  BY <1>1, <1>5, <1>6 DEF PointsTypeOK, AwardedOnce, Ats
<1>8. AllOn' <=> AllOn
  BY DEF AllOn
<1>9. ASSUME NEW q \in Payments, q # p PROVE PaymentInv(q)'
  <2>1. Kept(q)
    BY <1>5, <1>6, <1>8, <1>9 DEF Kept, Processes
  <2> QED
    BY <1>1, <2>1, OthersKept
<1>10. PaymentInv(p)'
  <2>1. \A e \in DOMAIN earned : e.source # p
    BY <1>1 DEF PointsTypeOK
  <2>2. AwardsLeft(p, t, d)
    BY <1>2 DEF AwardsLeft, d
  <2>3. AwardsMade(p, t, d, DOMAIN earned, p \in spoiled')
    <3>1. \A i \in 1..(Len(d) - Len(d)) : FALSE
      BY <1>2
    <3> QED
      BY <2>1, <3>1 DEF AwardsMade, d
  <2>4. settled'[p] = t /\ awarding'[p].left = d /\ DOMAIN earned' = DOMAIN earned /\ p \in DOMAIN settled'
    BY <1>4, <1>5, <1>6
  <2>5. (awarding[p].at = "idle" <=> awarding[p].left = << >>)'
        /\ (awarding[p].at \in {"rule", "insert"} => rules # << >>)'
    BY <1>4, <1>5
  <2>6. p \notin spoiled' => rules' = << >> \/ AllOn'
    BY <1>8 DEF AllOn
  <2>7. AwardsMade(p, settled'[p], awarding'[p].left, DOMAIN earned', p \in spoiled')
    BY <2>3, <2>4
  <2>8. ChampionOK(settled[p])' /\ AwardsLeft(p, settled[p], awarding[p].left)'
    BY <2>2, <2>4
  <2> QED
    BY <2>4, <2>5, <2>6, <2>7, <2>8 DEF PaymentInv
<1>11. ASSUME NEW b \in Boots PROVE BootInv(b)'
  <2>1. b \in Processes /\ b # p
    BY BootsAssumption DEF Processes
  <2> QED
    BY <1>1, <1>5, <2>1 DEF BootInv
<1> QED
  BY <1>7, <1>9, <1>10, <1>11 DEF PointsInv

\* Every step of the points.
LEMMA StepPoints == PointsInv /\ [PointsNext]_pointsVars => PointsInv'
<1> SUFFICES ASSUME PointsInv, [PointsNext]_pointsVars PROVE PointsInv'
  OBVIOUS
<1>1. /\ PointsTypeOK /\ AwardedOnce /\ \A q \in Payments : PaymentInv(q)
      /\ \A b \in Boots : BootInv(b)
      /\ awarding \in [Processes -> [left : Seq(Award), at : Ats]] /\ spoiled \subseteq Payments
  BY DEF PointsInv, PointsTypeOK, Ats
<1>2. CASE UNCHANGED pointsVars
  <2>1. UNCHANGED <<rules, earned, settled, awarding, spoiled>>
    BY <1>2 DEF pointsVars
  <2> QED
    BY <2>1 DEF PointsInv, PointsTypeOK, AwardedOnce, PaymentInv, BootInv, AllOn
<1>3. ASSUME NEW b \in Boots, onModuleInit(b) PROVE PointsInv'
  <2>1. awarding' = [awarding EXCEPT ![b].at = "count"] /\ UNCHANGED <<rules, earned, settled, spoiled>>
    BY <1>3 DEF onModuleInit
  <2>2. b \in Processes /\ "count" \in Ats \ {"idle"}
    BY DEF Processes, Ats
  <2> QED
    BY <2>1, <2>2, Looks
<1>4. ASSUME NEW p \in Processes, seedDefaultRules(p) PROVE PointsInv'
  <2>1. /\ awarding[p].at # "idle" /\ UNCHANGED <<rules, earned, settled, spoiled>>
        /\ \E x \in {"seed", "rule"} : awarding' = [awarding EXCEPT ![p].at = x] /\ (x = "rule" => rules' # << >>)
    BY <1>4 DEF seedDefaultRules
  <2>2. PICK x \in {"seed", "rule"} : awarding' = [awarding EXCEPT ![p].at = x] /\ (x = "rule" => rules' # << >>)
    BY <2>1
  <2>3. x \in Ats \ {"idle"} /\ x # "insert"
    BY DEF Ats
  <2> QED
    BY <2>1, <2>2, <2>3, Looks
<1>5. ASSUME NEW p \in Processes, SaveDefaults(p) PROVE PointsInv'
  <2>1. /\ awarding[p].at # "idle" /\ UNCHANGED <<earned, settled, spoiled>>
        /\ awarding' = [awarding EXCEPT ![p].at = "rule"]
        /\ rules' = IF rules = << >> THEN [a \in ActionCodes |-> TRUE] ELSE rules
    BY <1>5 DEF SaveDefaults
  <2>2. rules' # << >>
    <3>1. "direct" \in DOMAIN [a \in ActionCodes |-> TRUE] /\ DOMAIN << >> = {}
      BY DEF ActionCodes
    <3>2. [a \in ActionCodes |-> TRUE] # << >>
      BY <3>1
    <3> QED
      BY <2>1, <3>2
  <2>3. "rule" \in Ats \ {"idle"}
    BY DEF Ats
  <2> QED
    BY <2>1, <2>2, <2>3, Looks
<1>6. ASSUME NEW p \in Processes, ReadRule(p) PROVE PointsInv'
  <2>1. awarding[p].at = "rule" /\ UNCHANGED <<rules, earned, settled, spoiled>>
    BY <1>6 DEF ReadRule
  <2>2. CASE p \in Payments /\ rules # << >> /\ rules[Head(awarding[p].left).action]
    <3>1. awarding' = [awarding EXCEPT ![p].at = "insert"]
      BY <1>6, <2>2 DEF ReadRule
    <3>2. "insert" \in Ats \ {"idle"}
      BY DEF Ats
    <3> QED
      BY <2>1, <2>2, <3>1, <3>2, Looks
  <2>3. CASE Advance(p) /\ ~(p \in Payments /\ rules # << >> /\ rules[Head(awarding[p].left).action])
    <3> DEFINE left == awarding[p].left
               rest == IF left = << >> THEN << >> ELSE Tail(left)
               w == [left |-> rest, at |-> IF rest = << >> THEN "idle" ELSE "count"]
    <3>1. awarding' = [awarding EXCEPT ![p] = w]
      BY <2>3 DEF Advance
    <3>2. left \in Seq(Award) /\ (p \in Payments => left # << >>) /\ (p \notin Payments => left = << >>)
      BY <1>1, <2>1 DEF PaymentInv, BootInv, Processes
    <3>3. rest \in Seq(Award) /\ w \in [left : Seq(Award), at : Ats]
      <4>1. rest \in Seq(Award)
        BY <3>2
      <4> HIDE DEF rest
      <4> QED
        BY <4>1 DEF Ats
    <3>4. p \in Payments => p \in spoiled
      <4> SUFFICES ASSUME p \in Payments, p \notin spoiled PROVE FALSE
        OBVIOUS
      <4>1. rules # << >> /\ p \in DOMAIN settled /\ AllOn
        BY <1>1, <2>1 DEF PaymentInv, Idle
      <4>2. Head(left).action \in ActionCodes
        <5>1. Head(left) \in Award
          BY <3>2
        <5> QED
          BY <5>1 DEF Award
      <4> QED
        BY <2>3, <4>1, <4>2 DEF AllOn
    <3>5. w.at \in {"idle", "count"} /\ (w.at = "idle" <=> w.left = << >>)
          /\ (w.left = << >> \/ (left # << >> /\ w.left = Tail(left)))
      OBVIOUS
    <3>6. p \notin Payments => w = Idle
      BY <3>2 DEF Idle
    <3> HIDE DEF w, rest
    <3> QED
      BY <1>1, <2>1, <3>1, <3>3, <3>4, <3>5, <3>6, LeavesOff
  <2> QED
    BY <1>6, <2>2, <2>3 DEF ReadRule
<1>7. ASSUME NEW p \in Processes, award(p) PROVE PointsInv'
  BY <1>7, Awards
<1>12. ASSUME NEW p \in Processes, SeedingFails(p) PROVE PointsInv'
  <2>1. /\ awarding[p].at # "idle" /\ UNCHANGED <<rules, earned, settled>>
        /\ awarding' = [awarding EXCEPT ![p].at = "rule"]
        /\ spoiled' = spoiled \cup ({p} \cap Payments)
    BY <1>12 DEF SeedingFails
  <2>2. "rule" \in Ats \ {"idle"} /\ (p \in spoiled' \/ p \notin Payments)
    BY <2>1 DEF Ats
  <2> QED
    BY <2>1, <2>2, Looks
<1>13. ASSUME NEW p \in Processes, AwardFails(p) PROVE PointsInv'
  <2> DEFINE left == awarding[p].left
             rest == IF left = << >> THEN << >> ELSE Tail(left)
             w == [left |-> rest, at |-> IF rest = << >> THEN "idle" ELSE "count"]
  <2>1. /\ awarding[p].at # "idle" /\ awarding' = [awarding EXCEPT ![p] = w]
        /\ spoiled' = spoiled \cup ({p} \cap Payments) /\ UNCHANGED <<rules, earned, settled>>
    BY <1>13 DEF AwardFails, Advance
  <2>2. left \in Seq(Award) /\ (p \in Payments => left # << >>) /\ (p \notin Payments => left = << >>)
    BY <1>1, <2>1 DEF PaymentInv, BootInv, Processes
  <2>3. w \in [left : Seq(Award), at : Ats]
    <3>1. rest \in Seq(Award)
      BY <2>2
    <3> HIDE DEF rest
    <3> QED
      BY <3>1 DEF Ats
  <2>4. w.at \in {"idle", "count"} /\ (w.at = "idle" <=> w.left = << >>)
        /\ (w.left = << >> \/ (left # << >> /\ w.left = Tail(left)))
    OBVIOUS
  <2>5. p \notin Payments => w = Idle
    BY <2>2 DEF Idle
  <2>6. spoiled \subseteq spoiled' /\ spoiled' \subseteq Payments /\ (p \in Payments => p \in spoiled')
    BY <1>1, <2>1
  <2> HIDE DEF w, rest
  <2> QED
    BY <2>1, <2>3, <2>4, <2>5, <2>6, LeavesOff
<1>8. ASSUME NEW p \in Processes, AwardsLost(p) PROVE PointsInv'
  <2>1. /\ awarding[p].at # "idle" /\ awarding' = [awarding EXCEPT ![p] = Idle]
        /\ spoiled' = spoiled \cup ({p} \cap Payments) /\ UNCHANGED <<rules, earned, settled>>
    BY <1>8 DEF AwardsLost
  <2>2. Idle \in [left : Seq(Award), at : Ats] /\ Idle.left = << >> /\ Idle.at = "idle"
    BY DEF Idle, Ats
  <2>3. spoiled \subseteq spoiled' /\ spoiled' \subseteq Payments /\ (p \in Payments => p \in spoiled')
    BY <1>1, <2>1
  <2> QED
    BY <2>1, <2>2, <2>3, LeavesOff
<1>9. CASE EditRule
  <2>1. /\ rules # << >> /\ UNCHANGED <<earned, settled, awarding>>
        /\ spoiled' = spoiled \cup {p \in Payments : p \notin DOMAIN settled \/ awarding[p].at # "idle"}
    BY <1>9 DEF EditRule
  <2>2. PICK a \in ActionCodes : rules' = [rules EXCEPT ![a] = FALSE]
    BY <1>9 DEF EditRule
  <2>3. rules' # << >> /\ rules' \in [ActionCodes -> BOOLEAN]
    <3>1. rules \in [ActionCodes -> BOOLEAN]
      BY <1>1, <2>1 DEF PointsTypeOK
    <3>2. rules' \in [ActionCodes -> BOOLEAN] /\ DOMAIN rules' = ActionCodes
      BY <2>2, <3>1
    <3>3. "direct" \in ActionCodes /\ DOMAIN << >> = {}
      BY DEF ActionCodes
    <3> QED
      BY <3>2, <3>3
  <2>4. PointsTypeOK' /\ AwardedOnce'
    BY <1>1, <2>1, <2>3 DEF PointsTypeOK, AwardedOnce
  <2>5. ASSUME NEW q \in Payments PROVE PaymentInv(q)'
    <3>1. Kept(q)
      BY <2>1, <2>3 DEF Kept
    <3> QED
      BY <1>1, <3>1, OthersKept
  <2>6. \A b \in Boots : BootInv(b)'
    BY <1>1, <2>1 DEF BootInv
  <2> QED
    BY <2>4, <2>5, <2>6 DEF PointsInv
<1>10. ASSUME NEW p \in Payments, NEW t \in Payment, NEW code \in Members \cup {Nobody}, DonationSettles(p, t, code)
       PROVE  PointsInv'
  <2> DEFINE paid == [t EXCEPT !.champion = IF code = Nobody THEN Nobody ELSE resolveReferrer(code, t.cause)]
  <2>1. /\ p \notin DOMAIN settled /\ t.kind = "donation"
        /\ settled' = [q \in DOMAIN settled \cup {p} |-> IF q = p THEN paid ELSE settled[q]]
        /\ awarding' = [awarding EXCEPT ![p] = [left |-> awardForDonation(paid), at |-> "count"]]
        /\ spoiled' = (IF rules = << >> \/ \A a \in ActionCodes : rules[a] THEN spoiled ELSE spoiled \cup {p})
        /\ UNCHANGED <<rules, earned>>
    BY <1>10 DEF DonationSettles
  <2>2. paid \in Payment /\ paid.kind = t.kind /\ ChampionOK(paid)
    BY DEF Payment, ChampionOK, resolveReferrer
  <2> HIDE DEF paid
  <2>3. awardForDonation(paid) = DueOf(paid)
    BY <2>1, <2>2 DEF DueOf
  <2>4. awarding' = [awarding EXCEPT ![p] = [left |-> DueOf(paid), at |-> "count"]]
    BY <2>1, <2>3
  <2> QED
    BY <2>1, <2>2, <2>4, Settles
<1>11. ASSUME NEW p \in Payments, NEW t \in Payment, t.champion = Nobody, BillPaymentSettles(p, t)
       PROVE  PointsInv'
  <2>1. /\ p \notin DOMAIN settled /\ t.kind = "split"
        /\ settled' = [q \in DOMAIN settled \cup {p} |-> IF q = p THEN t ELSE settled[q]]
        /\ awarding' = [awarding EXCEPT ![p] = [left |-> awardForSplitBillDonation(t), at |-> "count"]]
        /\ spoiled' = (IF rules = << >> \/ \A a \in ActionCodes : rules[a] THEN spoiled ELSE spoiled \cup {p})
        /\ UNCHANGED <<rules, earned>>
    BY <1>11 DEF BillPaymentSettles
  <2>2. awardForSplitBillDonation(t) = DueOf(t) /\ ChampionOK(t)
    BY <1>11, <2>1 DEF DueOf, ChampionOK
  <2>3. awarding' = [awarding EXCEPT ![p] = [left |-> DueOf(t), at |-> "count"]]
    BY <2>1, <2>2
  <2> QED
    BY <2>1, <2>2, <2>3, Settles
<1> QED
  <2>1. CASE \E p \in Processes : \/ seedDefaultRules(p) \/ SaveDefaults(p) \/ ReadRule(p) \/ award(p)
                                 \/ SeedingFails(p) \/ AwardFails(p) \/ AwardsLost(p)
    BY <1>4, <1>5, <1>6, <1>7, <1>8, <1>12, <1>13, <2>1
  <2>2. CASE \E p \in Payments, t \in Payment :
                \/ t.champion = Nobody /\ \E code \in Members \cup {Nobody} : DonationSettles(p, t, code)
                \/ t.champion = Nobody /\ t.beneficiary = Nobody /\ BillPaymentSettles(p, t)
    BY <1>10, <1>11, <2>2
  <2> QED
    BY <1>2, <1>3, <1>9, <2>1, <2>2 DEF PointsNext

\* What the invariant says of the points.
LEMMA PointsMeans ==
    ASSUME PointsInv
    PROVE  PointsTypeOK /\ AwardedOnce /\ ChampionsOthersDonations /\ EarnedWhenUndisturbed
<1>1. /\ PointsTypeOK /\ AwardedOnce /\ \A q \in Payments : PaymentInv(q)
  BY DEF PointsInv
<1>2. ASSUME NEW p \in DOMAIN settled
      PROVE  /\ p \in Payments /\ settled[p] \in Payment /\ ChampionOK(settled[p])
             /\ DueOf(settled[p]) \in Seq(Award) /\ Len(DueOf(settled[p])) \in 1..3
             /\ awarding[p].left \in Seq(Award)
             /\ AwardsMade(p, settled[p], awarding[p].left, DOMAIN earned, p \in spoiled)
  <2>1. p \in Payments /\ settled[p] \in Payment
    BY <1>1 DEF PointsTypeOK
  <2> QED
    BY <1>1, <2>1, DueIs DEF PaymentInv, AwardsLeft
<1>3. ASSUME NEW e \in DOMAIN earned, e.action = "champion"
      PROVE  e.user # settled[e.source].payer /\ e.user \in ChampionOf[settled[e.source].cause]
  <2> DEFINE p == e.source
             t == settled[p]
             d == DueOf(t)
  <2>1. p \in DOMAIN settled
    BY <1>1 DEF PointsTypeOK
  <2>2. PICK i \in 1..(Len(d) - Len(awarding[p].left)) : e = Row(d[i], p)
    BY <1>2, <2>1 DEF AwardsMade
  <2>3. i \in 1..Len(d)
    <3>1. Len(d) \in Nat /\ Len(awarding[p].left) \in Nat
      BY <1>2, <2>1
    <3> QED
      BY <3>1
  <2>4. e.user = d[i].user /\ e.action = d[i].action
    BY <2>2 DEF Row
  <2>5. t \in Payment /\ ChampionOK(t)
    BY <1>2, <2>1
  <2>6. d[i].user = t.champion /\ t.champion # Nobody /\ t.champion # t.payer
    BY <1>3, <2>3, <2>4, <2>5, DueIs
  <2> QED
    BY <2>4, <2>5, <2>6 DEF ChampionOK
<1>4. ASSUME NEW p \in DOMAIN settled \ spoiled, awarding[p].at = "idle",
             NEW i \in DOMAIN DueOf(settled[p])
      PROVE  Row(DueOf(settled[p])[i], p) \in DOMAIN earned
  <2>1. awarding[p].left = << >>
    BY <1>1, <1>2, <1>4 DEF PaymentInv
  <2>2. i \in 1..(Len(DueOf(settled[p])) - Len(awarding[p].left))
    BY <1>2, <2>1
  <2> QED
    BY <1>2, <2>2 DEF AwardsMade
<1>5. EarnedWhenUndisturbed
  BY <1>4 DEF EarnedWhenUndisturbed, DueOf, Row
<1> QED
  BY <1>1, <1>3, <1>5 DEF ChampionsOthersDonations

\* No step of the points switches a rule on that has been switched off.
LEMMA RulesStick == PointsInv /\ [PointsNext]_pointsVars => EditsStick
<1> SUFFICES ASSUME PointsInv, [PointsNext]_pointsVars, rules # << >>, NEW a \in ActionCodes, ~rules[a]
             PROVE  ~rules'[a]
  BY DEF EditsStick
<1>1. rules \in [ActionCodes -> BOOLEAN]
  BY DEF PointsInv, PointsTypeOK
<1>2. rules' = rules => ~rules'[a]
  OBVIOUS
<1>3. CASE EditRule
  <2>1. PICK b \in ActionCodes : rules[b] /\ rules' = [rules EXCEPT ![b] = FALSE]
    BY <1>3 DEF EditRule
  <2> QED
    BY <1>1, <2>1
<1>4. CASE \E b \in Boots : onModuleInit(b)
  BY <1>2, <1>4 DEF onModuleInit
<1>5. ASSUME NEW p \in Processes,
             \/ seedDefaultRules(p) \/ SaveDefaults(p) \/ ReadRule(p) \/ award(p)
             \/ SeedingFails(p) \/ AwardFails(p) \/ AwardsLost(p)
      PROVE  rules' = rules
  BY <1>5 DEF seedDefaultRules, SaveDefaults, ReadRule, award, SeedingFails, AwardFails, AwardsLost
<1>6. ASSUME NEW p \in Payments, NEW t \in Payment, NEW code,
             DonationSettles(p, t, code) \/ BillPaymentSettles(p, t)
      PROVE  rules' = rules
  BY <1>6 DEF DonationSettles, BillPaymentSettles
<1>7. CASE UNCHANGED pointsVars
  BY <1>2, <1>7 DEF pointsVars
<1> QED
  BY <1>2, <1>3, <1>4, <1>5, <1>6, <1>7 DEF PointsNext

-----------------------------------------------------------------------------
(* The account *)

CallRecord == [op : CallOps, row : UserRow, settings : TwoFactorRow, code : Nat]

\* A row of users holds codes that were sent, and a code while one can expire.
RowOK(row, n) ==
    /\ row \in UserRow /\ row.phoneOtp \in 0..n /\ row.emailOtp \in 0..n /\ row.reset \in 0..n
    /\ row.otpExpiration # "none" => row.phoneOtp # None

\* What a request that goes on had found in the rows it has read.
CallOK(c, n) ==
    /\ c \in CallRecord /\ RowOK(c.row, n) /\ c.settings.secret \in 0..n
    /\ c.op = "verifyOtp" => c.row.otpExpiration = "live" /\ c.code = c.row.phoneOtp
    /\ c.op = "verifyResetOtp" =>
         c.row.otpExpiration = "live" /\ c.code # None /\ c.code \in {c.row.phoneOtp, c.row.emailOtp}
    /\ c.op = "resetPassword" => c.code # None /\ c.code = c.row.reset
    /\ c.op \in {"login", "loginWithPin"} => ~c.row.verified
    /\ c.op = "verify2FA" => c.settings.secret # None

\* A code that was spent is still in the row of a verified user alone, and cannot be used
\* there; a reset token is not spent, nor one of the codes; a code in use is the phone's last.
Fresh(row, settings, used, last) ==
    /\ row.phoneOtp \in used \/ row.emailOtp \in used => row.verified /\ row.otpExpiration = "none"
    /\ row.reset # None => row.reset \notin used /\ row.reset # row.phoneOtp /\ row.reset # row.emailOtp
    /\ row.otpExpiration # "none" => row.phoneOtp = last
    /\ settings.enabled => settings.secret # None

AccountInv ==
    /\ AccountTypeOK /\ sent > 0
    /\ \A r \in Calls : CallOK(calling[r], sent)
    /\ ~stale => ~twice /\ Fresh(user, twoFactor, spent, phoneCode)

\* The invariant in the terms of the steps below.
AccountFacts ==
    /\ RowOK(user, sent) /\ twoFactor \in TwoFactorRow /\ twoFactor.secret \in 0..sent
    /\ calling \in [Calls -> CallRecord]
    /\ sent \in 0..MaxSent /\ phoneCode \in 0..sent /\ spent \in SUBSET (1..sent)
    /\ twice \in BOOLEAN /\ stale \in BOOLEAN /\ clobbered \in BOOLEAN /\ calls \in 0..MaxCalls

\* The type invariant, field by field.
LEMMA AccountTyped == AccountTypeOK <=> AccountFacts
BY DEF AccountTypeOK, AccountFacts, RowOK, CallRecord

\* A new user was sent one code.
LEMMA AccountInits == AccountInit => AccountInv
<1> SUFFICES ASSUME AccountInit PROVE AccountInv
  OBVIOUS
<1>1. /\ user = NewUser /\ twoFactor = NewTwoFactor /\ calling = [r \in Calls |-> NoCall]
      /\ sent = 1 /\ phoneCode = 1 /\ spent = {} /\ calls = 0
  BY DEF AccountInit
<1>2. /\ ~twice /\ ~stale /\ ~clobbered /\ twice \in BOOLEAN /\ stale \in BOOLEAN /\ clobbered \in BOOLEAN
  BY Zenon DEF AccountInit
<1>3. RowOK(NewUser, 1) /\ NewTwoFactor \in TwoFactorRow /\ NewTwoFactor.secret = 0 /\ ~NewTwoFactor.enabled
  BY DEF RowOK, NewUser, UserRow, NewTwoFactor, TwoFactorRow, None
<1>4. NoCall \in CallRecord /\ CallOK(NoCall, 1)
  <2>1. NoCall.op = "none" /\ NoCall.row = NewUser /\ NoCall.settings = NewTwoFactor /\ NoCall.code = 0
    BY DEF NoCall, None
  <2>2. NoCall \in CallRecord
    BY <1>3 DEF NoCall, None, CallRecord, CallOps, RowOK
  <2> QED
    BY <1>3, <2>1, <2>2 DEF CallOK
<1>5. 1 \in 0..MaxSent /\ 0 \in 0..MaxCalls /\ 1 \in 0..1 /\ 0 \in 0..1
  BY SentAssumption
<1>6. calling \in [Calls -> CallRecord] /\ \A r \in Calls : CallOK(calling[r], sent)
  BY <1>1, <1>4
<1>7. AccountFacts
  BY <1>1, <1>2, <1>3, <1>5, <1>6 DEF AccountFacts
<1>8. Fresh(user, twoFactor, spent, phoneCode)
  BY <1>1, <1>3 DEF Fresh, NewUser, None
<1> QED
  BY <1>1, <1>2, <1>6, <1>7, <1>8, AccountTyped DEF AccountInv

\* A row or a request stays right when more codes are sent.
LEMMA MoreSent ==
    ASSUME NEW n \in Nat, NEW m \in Nat, n <= m
    PROVE  /\ \A row : RowOK(row, n) => RowOK(row, m)
           /\ \A c : CallOK(c, n) => CallOK(c, m)
<1>1. \A row : RowOK(row, n) => RowOK(row, m)
  <2>1. \A k \in 0..n : k \in 0..m
    OBVIOUS
  <2> QED
    BY <2>1 DEF RowOK
<1>2. \A k \in 0..n : k \in 0..m
  OBVIOUS
<1> QED
  BY <1>1, <1>2 DEF CallOK

\* A request begins.
LEMMA CallBegins ==
    ASSUME AccountInv, NEW r \in Calls, NEW op \in CallOps \ {"none"}, NEW code \in Nat, Call(r, op, code),
           op = "verifyOtp" => user.otpExpiration = "live" /\ code = user.phoneOtp,
           op = "verifyResetOtp" =>
              user.otpExpiration = "live" /\ code # None /\ code \in {user.phoneOtp, user.emailOtp},
           op = "resetPassword" => code # None /\ code = user.reset,
           op \in {"login", "loginWithPin"} => ~user.verified,
           op = "verify2FA" => twoFactor.secret # None
    PROVE  AccountInv' /\ UNCHANGED <<user, clobbered>>
<1>1. AccountFacts
  BY AccountTyped DEF AccountInv
<1> DEFINE c == [op |-> op, row |-> user, settings |-> twoFactor, code |-> code]
<1>2. /\ calls < MaxCalls /\ calls' = calls + 1 /\ calling' = [calling EXCEPT ![r] = c]
      /\ UNCHANGED <<user, twoFactor, sent, phoneCode, spent, twice, stale, clobbered>>
  BY DEF Call
<1>3. c \in CallRecord /\ c.op = op /\ c.row = user /\ c.settings = twoFactor /\ c.code = code
  BY <1>1 DEF CallRecord, AccountFacts, RowOK
<1> HIDE DEF c
<1>4. CallOK(c, sent)
  BY <1>1, <1>3 DEF CallOK, AccountFacts
<1>5. /\ calling' \in [Calls -> CallRecord] /\ calling'[r] = c
      /\ \A q \in Calls \ {r} : calling'[q] = calling[q]
  BY <1>1, <1>2, <1>3 DEF AccountFacts
<1>6. calls' \in 0..MaxCalls
  BY <1>1, <1>2, SentAssumption DEF AccountFacts
<1>7. AccountFacts'
  BY <1>1, <1>2, <1>5, <1>6 DEF AccountFacts
<1>8. \A q \in Calls : CallOK(calling'[q], sent)
  BY <1>4, <1>5 DEF AccountInv
<1>9. AccountTypeOK'
  BY <1>7 DEF AccountTypeOK, AccountFacts, RowOK, CallRecord
<1> QED
  BY <1>2, <1>8, <1>9 DEF AccountInv

\* What is known when a request comes back, and of a write that follows it.
CallEnds(r) ==
    /\ CallOK(calling[r], sent)
    /\ calling' \in [Calls -> CallRecord] /\ calling'[r] = NoCall
    /\ \A q \in Calls \ {r} : calling'[q] = calling[q]
    /\ stale' \in BOOLEAN /\ (~stale' => ~stale /\ calling[r].row = user /\ calling[r].settings = twoFactor)
    /\ calls' = calls

\* Every call that comes back ends so.
LEMMA CallReturns ==
    ASSUME AccountInv, NEW r \in Calls, NEW op, Returns(r, op)
    PROVE  CallEnds(r)
<1>1. AccountFacts
  BY AccountTyped DEF AccountInv
<1>2. calling' = [calling EXCEPT ![r] = NoCall] /\ calls' = calls
  BY DEF Returns
<1>3. stale' = (stale \/ calling[r].row # user \/ calling[r].settings # twoFactor)
  BY Zenon DEF Returns
<1>4. stale' \in BOOLEAN /\ (~stale' => ~stale /\ calling[r].row = user /\ calling[r].settings = twoFactor)
  BY <1>3, Zenon
<1>5. NoCall \in CallRecord
  BY DEF NoCall, None, CallRecord, CallOps, NewUser, NewTwoFactor, UserRow, TwoFactorRow
<1>6. CallOK(calling[r], sent)
  BY DEF AccountInv
<1> QED
  BY <1>1, <1>2, <1>4, <1>5, <1>6 DEF CallEnds, AccountFacts

\* A request that has written leaves all as it should be, when what it wrote is.
LEMMA CallWrites ==
    ASSUME AccountInv, NEW r \in Calls, CallEnds(r),
           sent' \in 0..MaxSent, sent <= sent', phoneCode' \in 0..sent', spent' \in SUBSET (1..sent'),
           RowOK(user', sent'), twoFactor' \in TwoFactorRow, twoFactor'.secret \in 0..sent',
           twice' \in BOOLEAN, clobbered' \in BOOLEAN,
           ~stale' => ~twice' /\ Fresh(user', twoFactor', spent', phoneCode')
    PROVE  AccountInv'
<1>1. AccountFacts /\ \A q \in Calls : CallOK(calling[q], sent)
  BY AccountTyped DEF AccountInv
<1>2. sent \in Nat /\ sent' \in Nat /\ 0 < sent /\ 0 < sent'
  BY <1>1 DEF AccountFacts, AccountInv
<1>3. CallOK(NoCall, sent')
  <2>1. NoCall.op = "none" /\ NoCall.row = NewUser /\ NoCall.settings = NewTwoFactor
    BY DEF NoCall
  <2>2. NoCall \in CallRecord
    BY DEF NoCall, None, CallRecord, CallOps, NewUser, NewTwoFactor, UserRow, TwoFactorRow
  <2>3. RowOK(NewUser, sent') /\ NewTwoFactor.secret \in 0..sent'
    BY <1>2 DEF RowOK, NewUser, UserRow, NewTwoFactor, None
  <2> QED
    BY <2>1, <2>2, <2>3 DEF CallOK
<1>4. \A q \in Calls : CallOK(calling'[q], sent')
  BY <1>1, <1>2, <1>3, MoreSent DEF CallEnds
<1>5. AccountFacts'
  BY <1>1 DEF AccountFacts, CallEnds
<1>6. AccountTypeOK'
  BY <1>5 DEF AccountTypeOK, AccountFacts, RowOK, CallRecord
<1> QED
  BY <1>2, <1>4, <1>6 DEF AccountInv

\* A user's flags go back where a whole row was saved over them, and nowhere else.
Flags ==
    \/ /\ user.verified => user'.verified
       /\ user.basicInfo => user'.basicInfo
    \/ clobbered'

\* Every step of the account.
LEMMA StepAccount == AccountInv /\ [AccountNext]_accountVars => AccountInv'
<1> SUFFICES ASSUME AccountInv, [AccountNext]_accountVars PROVE AccountInv'
  OBVIOUS
<1>1. AccountFacts /\ \A q \in Calls : CallOK(calling[q], sent)
  BY AccountTyped DEF AccountInv
<1>2. /\ RowOK(user, sent) /\ twoFactor \in TwoFactorRow /\ twoFactor.secret \in 0..sent
      /\ sent \in 0..MaxSent /\ sent > 0 /\ phoneCode \in 0..sent /\ spent \in SUBSET (1..sent)
      /\ twice \in BOOLEAN /\ stale \in BOOLEAN /\ clobbered \in BOOLEAN
      /\ user \in UserRow /\ user.phoneOtp \in 0..sent /\ user.emailOtp \in 0..sent /\ user.reset \in 0..sent
      /\ ~stale => ~twice /\ Fresh(user, twoFactor, spent, phoneCode)
  BY <1>1 DEF AccountFacts, RowOK, AccountInv
<1>3. CASE UNCHANGED accountVars
  <2>1. UNCHANGED <<user, twoFactor, calling, sent, phoneCode, spent, twice, stale, clobbered, calls>>
    BY <1>3 DEF accountVars
  <2> QED
    BY <2>1 DEF AccountInv, AccountTypeOK, Fresh
<1>4. ASSUME NEW r \in Calls, NEW op, Returns(r, op)
      PROVE  CallEnds(r) /\ calling[r].op = op /\ CallOK(calling[r], sent)
  BY <1>1, <1>4, CallReturns DEF Returns
<1>5. ASSUME NEW toPhone, Generated(toPhone)
      PROVE  /\ sent' \in 0..MaxSent /\ sent <= sent' /\ sent' = sent + 1
             /\ sent' \notin spent /\ spent \in SUBSET (1..sent') /\ sent' # 0
             /\ \A k \in 0..sent : k \in 0..sent' /\ k # sent'
  <2>1. sent < MaxSent /\ sent' = sent + 1
    BY <1>5 DEF Generated, Generate
  <2> QED
    BY <1>2, <2>1, SentAssumption
\* A code of none of the rows, sent to the phone.
<1>6. ASSUME NEW r \in Calls, NEW op, Returns(r, op), Generated(TRUE), NothingSpent, twoFactor' = twoFactor,
             user' \in UserRow, user'.phoneOtp = sent', user'.otpExpiration # "none", clobbered' \in BOOLEAN,
             user'.emailOtp \in {calling[r].row.emailOtp, user.emailOtp, sent'},
             user'.reset \in {calling[r].row.reset, user.reset},
             ~stale' => user'.emailOtp = sent' \/ ~user.verified
      PROVE  AccountInv'
  <2>1. CallEnds(r) /\ CallOK(calling[r], sent)
    BY <1>4, <1>6
  <2>2. /\ sent' \in 0..MaxSent /\ sent <= sent' /\ sent' = sent + 1
        /\ sent' \notin spent /\ spent \in SUBSET (1..sent') /\ sent' # 0
        /\ \A k \in 0..sent : k \in 0..sent' /\ k # sent'
    BY <1>5, <1>6
  <2>3. phoneCode' = sent' /\ sent' \in 0..sent'
    BY <1>6, <2>2 DEF Generated
  <2>4. spent' = spent /\ twice' = twice
    BY <1>6 DEF NothingSpent
  <2>5. RowOK(user', sent')
    BY <1>2, <1>6, <2>1, <2>2, <2>3 DEF RowOK, CallOK, None
  <2>6. ASSUME ~stale' PROVE ~twice' /\ Fresh(user', twoFactor', spent', phoneCode')
    <3>1. /\ ~stale /\ calling[r].row = user /\ user'.reset = user.reset
          /\ user'.emailOtp \in {user.emailOtp, sent'}
      BY <1>6, <2>1, <2>6 DEF CallEnds
    <3>2. user.emailOtp \in spent => user.verified
      BY <1>2, <3>1 DEF Fresh
    <3>3. user'.emailOtp \notin spent
      BY <1>6, <2>2, <2>6, <3>1, <3>2
    <3>4. user.reset # None => user.reset \notin spent /\ user.reset # sent' /\ user.reset # user'.emailOtp
      BY <1>2, <2>2, <3>1 DEF Fresh
    <3>5. twoFactor.enabled => twoFactor.secret # None
      BY <1>2, <3>1 DEF Fresh
    <3> QED
      BY <1>2, <1>6, <2>2, <2>3, <2>4, <3>1, <3>3, <3>4, <3>5 DEF Fresh
  <2> QED
    BY <1>2, <1>6, <2>1, <2>2, <2>3, <2>4, <2>5, <2>6, CallWrites
<1>7. ASSUME NEW r \in Calls, SendLoginCode(r) PROVE AccountInv'
  <2>1. PICK op \in {"login", "loginWithPin"} : Returns(r, op)
    BY <1>7 DEF SendLoginCode
  <2>2. Generated(TRUE) /\ NothingSpent /\ twoFactor' = twoFactor
    BY <1>7 DEF SendLoginCode
  <2>3. CallEnds(r) /\ calling[r].op = op /\ CallOK(calling[r], sent)
    BY <1>4, <2>1
  <2>4. sent' \in Nat
    BY <1>2, <2>2 DEF Generated, Generate
  <2>6. /\ user' \in UserRow /\ user'.phoneOtp = sent' /\ user'.otpExpiration = "live"
        /\ user'.emailOtp = user.emailOtp /\ user'.reset = user.reset
    BY <1>2, <1>7, <2>4 DEF SendLoginCode, UserRow
  <2>7. clobbered' \in BOOLEAN
    BY <1>7, Zenon DEF SendLoginCode
  <2>8. ~stale' => ~user.verified
    BY <2>3 DEF CallEnds, CallOK
  <2> QED
    BY <1>6, <2>1, <2>2, <2>6, <2>7, <2>8
\* A whole row is saved.
<1>8. ASSUME NEW r \in Calls, NEW row, SaveRow(r, row)
      PROVE  user' = row /\ clobbered' \in BOOLEAN /\ twoFactor' = twoFactor
  <2>1. user' = row /\ twoFactor' = twoFactor
    BY <1>8 DEF SaveRow
  <2>2. clobbered' \in BOOLEAN
    BY <1>8, Zenon DEF SaveRow
  <2> QED
    BY <2>1, <2>2
<1>9. ASSUME NEW r \in Calls, SendCode(r) PROVE AccountInv'
  <2> DEFINE row == [calling[r].row EXCEPT !.phoneOtp = sent', !.emailOtp = sent', !.otpExpiration = "live"]
  <2>1. PICK op \in {"resendOtp", "forgotPassword"} : Returns(r, op)
    BY <1>9 DEF SendCode
  <2>2. Generated(TRUE) /\ NothingSpent /\ SaveRow(r, row)
    BY <1>9 DEF SendCode
  <2>3. CallEnds(r) /\ calling[r].op = op /\ CallOK(calling[r], sent)
    BY <1>4, <2>1
  <2>4. sent' \in Nat
    BY <1>2, <2>2 DEF Generated, Generate
  <2>5. calling[r].row \in UserRow
    BY <2>3 DEF CallOK, RowOK
  <2>6. /\ row \in UserRow /\ row.phoneOtp = sent' /\ row.otpExpiration = "live"
        /\ row.emailOtp = sent' /\ row.reset = calling[r].row.reset
    BY <2>4, <2>5 DEF UserRow
  <2> HIDE DEF row
  <2>7. user' = row /\ clobbered' \in BOOLEAN /\ twoFactor' = twoFactor
    BY <1>8, <2>2
  <2> QED
    BY <1>6, <2>1, <2>2, <2>6, <2>7
\* A code is spent.
<1>10. ASSUME NEW code, Spend(code)
       PROVE  /\ spent' = spent \cup {code} /\ twice' \in BOOLEAN
              /\ code \notin spent /\ ~twice => ~twice'
  <2>1. spent' = spent \cup {code}
    BY <1>10 DEF Spend
  <2>2. twice' \in BOOLEAN /\ (code \notin spent /\ ~twice => ~twice')
    BY <1>10, Zenon DEF Spend
  <2> QED
    BY <2>1, <2>2
<1>11. ASSUME NEW r \in Calls, WriteVerified(r) PROVE AccountInv'
  <2> DEFINE code == calling[r].code
             row == [calling[r].row EXCEPT !.verified = TRUE, !.otpExpiration = "none"]
  <2>1. Returns(r, "verifyOtp") /\ SaveRow(r, row) /\ Spend(code) /\ sent' = sent /\ phoneCode' = phoneCode
    BY <1>11 DEF WriteVerified, NothingSent
  <2>2. /\ CallEnds(r) /\ calling[r].op = "verifyOtp" /\ CallOK(calling[r], sent)
        /\ user' = row /\ clobbered' \in BOOLEAN /\ twoFactor' = twoFactor
        /\ spent' = spent \cup {code} /\ twice' \in BOOLEAN
        /\ code \notin spent /\ ~twice => ~twice'
    BY <1>4, <1>8, <1>10, <2>1
  <2>3. /\ RowOK(calling[r].row, sent) /\ calling[r].row.otpExpiration = "live"
        /\ code = calling[r].row.phoneOtp /\ code \in 1..sent
    BY <1>2, <2>2 DEF CallOK, RowOK, None
  <2>4. /\ row \in UserRow /\ row.verified /\ row.otpExpiration = "none"
        /\ row.phoneOtp = code /\ row.emailOtp = calling[r].row.emailOtp /\ row.reset = calling[r].row.reset
    BY <2>3 DEF RowOK, UserRow
  <2> HIDE DEF code, row
  <2>5. RowOK(user', sent')
    BY <1>2, <2>1, <2>2, <2>3, <2>4 DEF RowOK
  <2>6. spent' \in SUBSET (1..sent')
    BY <1>2, <2>1, <2>2, <2>3
  <2>7. ASSUME ~stale' PROVE ~twice' /\ Fresh(user', twoFactor', spent', phoneCode')
    <3>1. ~stale /\ calling[r].row = user /\ Fresh(user, twoFactor, spent, phoneCode) /\ ~twice
      BY <1>2, <2>2, <2>7 DEF CallEnds
    <3>2. code \notin spent
      BY <2>3, <3>1 DEF Fresh
    <3> QED
      BY <2>1, <2>2, <2>3, <2>4, <3>1, <3>2 DEF Fresh
  <2> QED
    BY <1>2, <2>1, <2>2, <2>5, <2>6, <2>7, CallWrites
<1>12. ASSUME NEW r \in Calls, IssueResetToken(r) PROVE AccountInv'
  <2> DEFINE code == calling[r].code
             row == [user EXCEPT !.phoneOtp = None, !.emailOtp = None, !.otpExpiration = "none",
                                 !.reset = sent', !.resetLive = TRUE]
  <2>1. Returns(r, "verifyResetOtp") /\ Generated(FALSE) /\ UpdateColumns(row) /\ Spend(code)
    BY <1>12 DEF IssueResetToken
  <2>2. /\ CallEnds(r) /\ calling[r].op = "verifyResetOtp" /\ CallOK(calling[r], sent)
        /\ user' = row /\ clobbered' = clobbered /\ twoFactor' = twoFactor
        /\ spent' = spent \cup {code} /\ twice' \in BOOLEAN
        /\ code \notin spent /\ ~twice => ~twice'
    BY <1>4, <1>10, <2>1 DEF UpdateColumns
  <2>3. /\ sent' \in 0..MaxSent /\ sent <= sent' /\ sent' = sent + 1
        /\ sent' \notin spent /\ spent \in SUBSET (1..sent') /\ sent' # 0
        /\ \A k \in 0..sent : k \in 0..sent' /\ k # sent'
    BY <1>5, <2>1
  <2>4. phoneCode' = phoneCode
    BY <2>1 DEF Generated
  <2>5. /\ RowOK(calling[r].row, sent) /\ calling[r].row.otpExpiration = "live"
        /\ code \in {calling[r].row.phoneOtp, calling[r].row.emailOtp} /\ code \in 1..sent
    BY <1>2, <2>2 DEF CallOK, RowOK, None
  <2>11. sent' \in Nat
    BY <1>2, <2>3
  <2>6. /\ row \in UserRow /\ row.otpExpiration = "none"
        /\ row.phoneOtp = 0 /\ row.emailOtp = 0 /\ row.reset = sent'
    BY <1>2, <2>11 DEF UserRow, None
  <2> HIDE DEF code, row
  <2>7. RowOK(user', sent')
    BY <1>2, <2>2, <2>3, <2>6 DEF RowOK
  <2>8. spent' \in SUBSET (1..sent') /\ 0 \notin spent' /\ sent' \notin spent'
    BY <1>2, <2>2, <2>3, <2>5
  <2>9. ASSUME ~stale' PROVE ~twice' /\ Fresh(user', twoFactor', spent', phoneCode')
    <3>1. ~stale /\ calling[r].row = user /\ Fresh(user, twoFactor, spent, phoneCode) /\ ~twice
      BY <1>2, <2>2, <2>9 DEF CallEnds
    <3>2. code \notin spent
      BY <2>5, <3>1 DEF Fresh
    <3> QED
      BY <2>2, <2>3, <2>6, <2>8, <3>1, <3>2 DEF Fresh
  <2>10. phoneCode' \in 0..sent' /\ twoFactor'.secret \in 0..sent'
    BY <1>2, <2>2, <2>3, <2>4
  <2> QED
    BY <1>2, <2>2, <2>3, <2>7, <2>8, <2>9, <2>10, CallWrites
<1>13. ASSUME NEW r \in Calls, WriteNewPassword(r) PROVE AccountInv'
  <2> DEFINE code == calling[r].code
             row == [user EXCEPT !.reset = None, !.resetLive = FALSE]
  <2>1. Returns(r, "resetPassword") /\ UpdateColumns(row) /\ Spend(code) /\ sent' = sent /\ phoneCode' = phoneCode
    BY <1>13 DEF WriteNewPassword, NothingSent
  <2>2. /\ CallEnds(r) /\ calling[r].op = "resetPassword" /\ CallOK(calling[r], sent)
        /\ user' = row /\ clobbered' = clobbered /\ twoFactor' = twoFactor
        /\ spent' = spent \cup {code} /\ twice' \in BOOLEAN
        /\ code \notin spent /\ ~twice => ~twice'
    BY <1>4, <1>10, <2>1 DEF UpdateColumns
  <2>3. code = calling[r].row.reset /\ code # None /\ code \in 1..sent
    BY <1>2, <2>2 DEF CallOK, RowOK, None
  <2>4. /\ row \in UserRow /\ row.otpExpiration = user.otpExpiration /\ row.verified = user.verified
        /\ row.phoneOtp = user.phoneOtp /\ row.emailOtp = user.emailOtp /\ row.reset = None /\ None = 0
    BY <1>2 DEF UserRow, None
  <2> HIDE DEF code, row
  <2>5. RowOK(user', sent')
    BY <1>2, <2>1, <2>2, <2>4 DEF RowOK
  <2>6. spent' \in SUBSET (1..sent')
    BY <1>2, <2>1, <2>2, <2>3
  <2>7. ASSUME ~stale' PROVE ~twice' /\ Fresh(user', twoFactor', spent', phoneCode')
    <3>1. ~stale /\ calling[r].row = user /\ Fresh(user, twoFactor, spent, phoneCode) /\ ~twice
      BY <1>2, <2>2, <2>7 DEF CallEnds
    <3>2. code \notin spent /\ code # user.phoneOtp /\ code # user.emailOtp
      BY <2>3, <3>1 DEF Fresh
    <3> QED
      BY <2>1, <2>2, <2>3, <2>4, <3>1, <3>2 DEF Fresh
  <2> QED
    BY <1>2, <2>1, <2>2, <2>5, <2>6, <2>7, CallWrites
<1>14. ASSUME NEW r \in Calls, SaveBasicInfo(r) \/ SaveKyc(r) PROVE AccountInv'
  <2>1. PICK op \in {"submitBasicInfo", "completeKyc"} : Returns(r, op)
    BY <1>14 DEF SaveBasicInfo, SaveKyc
  <2>2. /\ sent' = sent /\ phoneCode' = phoneCode /\ spent' = spent /\ twice' = twice
    BY <1>14 DEF SaveBasicInfo, SaveKyc, NothingSent, NothingSpent
  <2>3. PICK row \in {[calling[r].row EXCEPT !.basicInfo = TRUE], calling[r].row} : SaveRow(r, row)
    BY <1>14 DEF SaveBasicInfo, SaveKyc
  <2>4. /\ CallEnds(r) /\ CallOK(calling[r], sent)
        /\ user' = row /\ clobbered' \in BOOLEAN /\ twoFactor' = twoFactor
    BY <1>4, <1>8, <2>1, <2>3
  <2>5. /\ row \in UserRow /\ row.otpExpiration = calling[r].row.otpExpiration
        /\ row.verified = calling[r].row.verified /\ row.phoneOtp = calling[r].row.phoneOtp
        /\ row.emailOtp = calling[r].row.emailOtp /\ row.reset = calling[r].row.reset
    <3>1. calling[r].row \in UserRow
      BY <2>4 DEF CallOK, RowOK
    <3>2. CASE row = [calling[r].row EXCEPT !.basicInfo = TRUE]
      BY <3>1, <3>2 DEF UserRow
    <3>3. CASE row = calling[r].row
      BY <3>1, <3>3
    <3> QED
      BY <3>2, <3>3
  <2>6. RowOK(user', sent')
    BY <2>2, <2>4, <2>5 DEF RowOK, CallOK
  <2>7. ASSUME ~stale' PROVE ~twice' /\ Fresh(user', twoFactor', spent', phoneCode')
    <3>1. ~stale /\ calling[r].row = user /\ Fresh(user, twoFactor, spent, phoneCode) /\ ~twice
      BY <1>2, <2>4, <2>7 DEF CallEnds
    <3> QED
      BY <2>2, <2>4, <2>5, <3>1 DEF Fresh
  <2> QED
    BY <1>2, <2>2, <2>4, <2>6, <2>7, CallWrites
<1>23. ASSUME NEW r \in Calls, SaveProfile(r) PROVE AccountInv'
  <2> DEFINE old == calling[r].row
             row == [user EXCEPT !.verified = old.verified, !.basicInfo = old.basicInfo]
  <2>1. /\ Returns(r, "updateProfile") /\ user' = row /\ twoFactor' = twoFactor
        /\ sent' = sent /\ phoneCode' = phoneCode /\ spent' = spent /\ twice' = twice
    BY <1>23 DEF SaveProfile, NothingSent, NothingSpent
  <2>2. clobbered' \in BOOLEAN
    BY <1>23, Zenon DEF SaveProfile
  <2>3. CallEnds(r) /\ CallOK(calling[r], sent)
    BY <1>4, <2>1
  <2>4. old \in UserRow /\ old.verified \in BOOLEAN /\ old.basicInfo \in BOOLEAN
    BY <2>3 DEF CallOK, RowOK, UserRow
  <2>5. /\ row \in UserRow /\ row.otpExpiration = user.otpExpiration /\ row.verified = old.verified
        /\ row.phoneOtp = user.phoneOtp /\ row.emailOtp = user.emailOtp /\ row.reset = user.reset
    BY <1>2, <2>4 DEF UserRow
  <2> HIDE DEF old, row
  <2>6. RowOK(user', sent')
    BY <1>2, <2>1, <2>5 DEF RowOK
  <2>7. ASSUME ~stale' PROVE ~twice' /\ Fresh(user', twoFactor', spent', phoneCode')
    <3>1. ~stale /\ old = user /\ Fresh(user, twoFactor, spent, phoneCode) /\ ~twice
      BY <1>2, <2>3, <2>7 DEF CallEnds, old
    <3> QED
      BY <2>1, <2>5, <3>1 DEF Fresh
  <2> QED
    BY <1>2, <2>1, <2>2, <2>3, <2>6, <2>7, CallWrites
<1>15. ASSUME NEW r \in Calls, WriteVerified2FA(r) \/ WriteDisabled2FA(r) \/ SaveSettings(r) PROVE AccountInv'
  <2>1. PICK op \in {"verify2FA", "disable2FA", "updateSettings"} :
          /\ Returns(r, op)
          /\ \/ op = "verify2FA" /\ twoFactor' = [twoFactor EXCEPT !.enabled = TRUE]
             \/ op = "disable2FA" /\ twoFactor' = [enabled |-> FALSE, secret |-> None]
             \/ op = "updateSettings" /\ twoFactor' = calling[r].settings
    BY <1>15 DEF WriteVerified2FA, WriteDisabled2FA, SaveSettings
  <2>2. sent' = sent /\ phoneCode' = phoneCode /\ spent' = spent /\ twice' = twice /\ user' = user
    BY <1>15 DEF WriteVerified2FA, WriteDisabled2FA, SaveSettings, NothingSent, NothingSpent
  <2>3. clobbered' \in BOOLEAN
    <3>1. CASE clobbered' = clobbered
      BY <1>2, <3>1
    <3>2. CASE SaveSettings(r)
      BY <3>2, Zenon DEF SaveSettings
    <3> QED
      BY <1>15, <3>1, <3>2 DEF WriteVerified2FA, WriteDisabled2FA
  <2>4. CallEnds(r) /\ calling[r].op = op /\ CallOK(calling[r], sent)
    BY <1>4, <2>1
  <2>5. calling[r].settings \in TwoFactorRow /\ calling[r].settings.secret \in 0..sent
        /\ (op = "verify2FA" => calling[r].settings.secret # None)
    BY <2>4 DEF CallOK, CallRecord
  <2>6. /\ twoFactor' \in TwoFactorRow /\ twoFactor'.secret \in 0..sent
        /\ \/ op = "verify2FA" /\ twoFactor'.secret = twoFactor.secret
           \/ ~twoFactor'.enabled
           \/ twoFactor' = calling[r].settings
    <3>1. CASE op = "verify2FA" /\ twoFactor' = [twoFactor EXCEPT !.enabled = TRUE]
      BY <1>2, <3>1 DEF TwoFactorRow
    <3>2. CASE twoFactor' = [enabled |-> FALSE, secret |-> None]
      BY <1>2, <3>2 DEF TwoFactorRow, None
    <3>3. CASE twoFactor' = calling[r].settings
      BY <2>5, <3>3
    <3> QED
      BY <2>1, <3>1, <3>2, <3>3
  <2>7. ASSUME ~stale' PROVE ~twice' /\ Fresh(user', twoFactor', spent', phoneCode')
    <3>1. /\ ~stale /\ calling[r].settings = twoFactor
          /\ Fresh(user, twoFactor, spent, phoneCode) /\ ~twice
      BY <1>2, <2>4, <2>7 DEF CallEnds
    <3>2. twoFactor'.enabled => twoFactor'.secret # None
      BY <2>5, <2>6, <3>1 DEF Fresh
    <3> QED
      BY <2>2, <3>1, <3>2 DEF Fresh
  <2>8. RowOK(user', sent')
    BY <1>2, <2>2
  <2> QED
    BY <1>2, <2>2, <2>3, <2>4, <2>6, <2>7, <2>8, CallWrites
\* Who writes nothing but the row, where no code changes.
<1>16. ASSUME UNCHANGED <<twoFactor, calling, sent, phoneCode, spent, twice, stale, clobbered, calls>>,
              user' \in UserRow, user'.phoneOtp = user.phoneOtp, user'.emailOtp = user.emailOtp,
              user'.verified = user.verified, user'.reset \in {user.reset, None},
              user'.otpExpiration # "none" => user.otpExpiration # "none",
              user.otpExpiration # "none" => user'.otpExpiration # "none"
       PROVE  AccountInv'
  <2>1. RowOK(user', sent)
    BY <1>2, <1>16 DEF RowOK, None
  <2>2. ~stale => ~twice /\ Fresh(user', twoFactor, spent, phoneCode)
    BY <1>2, <1>16 DEF Fresh
  <2>3. AccountFacts'
    BY <1>1, <1>16, <2>1 DEF AccountFacts
  <2>4. AccountTypeOK'
    BY <2>3 DEF AccountTypeOK, AccountFacts, RowOK, CallRecord
  <2> QED
    BY <1>1, <1>2, <1>16, <2>2, <2>4 DEF AccountInv
<1>17. CASE Expiry
  <2>1. UNCHANGED <<twoFactor, calling, sent, phoneCode, spent, twice, stale, clobbered, calls>>
    BY <1>17 DEF Expiry
  <2>2. CASE user.otpExpiration = "live" /\ user' = [user EXCEPT !.otpExpiration = "past"]
    BY <1>2, <1>16, <2>1, <2>2 DEF UserRow
  <2>3. CASE user.resetLive /\ user' = [user EXCEPT !.resetLive = FALSE]
    BY <1>2, <1>16, <2>1, <2>3 DEF UserRow
  <2> QED
    BY <1>17, <2>2, <2>3 DEF Expiry
<1>18. CASE enable2FA
  <2>1. /\ sent < MaxSent /\ sent' = sent + 1 /\ calls < MaxCalls /\ calls' = calls + 1
        /\ twoFactor' = [enabled |-> FALSE, secret |-> sent']
        /\ UNCHANGED <<user, calling, phoneCode, spent, twice, stale, clobbered>>
    BY <1>18 DEF enable2FA, Generate
  <2>2. /\ sent' \in 0..MaxSent /\ sent <= sent' /\ spent \in SUBSET (1..sent')
        /\ \A k \in 0..sent : k \in 0..sent' /\ sent' \in Nat /\ sent \in Nat
    BY <1>2, <2>1, SentAssumption
  <2>3. calls' \in 0..MaxCalls
    BY <1>1, <2>1, SentAssumption DEF AccountFacts
  <2>4. twoFactor' \in TwoFactorRow /\ twoFactor'.secret = sent' /\ ~twoFactor'.enabled
    BY <1>2, <2>1, <2>2 DEF TwoFactorRow
  <2>5. RowOK(user, sent') /\ \A q \in Calls : CallOK(calling[q], sent')
    BY <1>1, <1>2, <2>2, MoreSent
  <2>6. AccountFacts'
    BY <1>1, <1>2, <2>1, <2>2, <2>3, <2>4, <2>5 DEF AccountFacts
  <2>7. AccountTypeOK'
    BY <2>6 DEF AccountTypeOK, AccountFacts, RowOK, CallRecord
  <2>8. ~stale => ~twice /\ Fresh(user, twoFactor', spent, phoneCode)
    BY <1>2, <2>4 DEF Fresh
  <2>9. sent' > 0
    BY <1>2, <2>1
  <2> QED
    BY <2>1, <2>5, <2>7, <2>8, <2>9 DEF AccountInv
<1>19. ASSUME NEW r \in Calls, resetPassword(r) PROVE AccountInv'
  <2>1. CASE user.reset # None /\ Call(r, "resetPassword", user.reset)
    BY <1>2, <2>1, CallBegins DEF CallOps
  <2>2. CASE /\ UpdateColumns([user EXCEPT !.reset = None])
             /\ NothingSent /\ NothingSpent /\ UNCHANGED <<calling, calls, stale>>
    <3>1. /\ user' = [user EXCEPT !.reset = None]
          /\ UNCHANGED <<twoFactor, calling, sent, phoneCode, spent, twice, stale, clobbered, calls>>
      BY <2>2 DEF UpdateColumns, NothingSent, NothingSpent
    <3> QED
      BY <1>2, <1>16, <3>1 DEF UserRow, None
  <2> QED
    BY <1>19, <2>1, <2>2 DEF resetPassword
<1>20. ASSUME NEW r \in Calls, verifyOtp(r) \/ verifyResetOtp(r) PROVE AccountInv'
  <2>1. CASE user.otpExpiration = "live" /\ Call(r, "verifyOtp", user.phoneOtp)
    BY <1>2, <2>1, CallBegins DEF CallOps
  <2>2. ASSUME user.otpExpiration = "live", NEW code \in {user.phoneOtp, user.emailOtp} \ {None},
               Call(r, "verifyResetOtp", code)
        PROVE  AccountInv'
    <3>1. code \in Nat /\ code # None /\ "verifyResetOtp" \in CallOps \ {"none"}
      BY <1>2 DEF CallOps
    <3> QED
      BY <2>2, <3>1, CallBegins
  <2> QED
    BY <1>20, <2>1, <2>2 DEF verifyOtp, verifyResetOtp
<1>21. ASSUME NEW r \in Calls, NEW op \in CallOps \ {"none"}, Call(r, op, None),
              op \notin {"verifyOtp", "verifyResetOtp", "resetPassword"},
              op \in {"login", "loginWithPin"} => ~user.verified,
              op = "verify2FA" => twoFactor.secret # None
       PROVE  AccountInv'
  <2>1. None \in Nat
    BY DEF None
  <2> QED
    BY <1>21, <2>1, CallBegins
<1>22. ASSUME NEW r \in Calls,
              \/ login(r) \/ loginWithPin(r) \/ resendOtp(r) \/ forgotPassword(r) \/ submitBasicInfo(r)
              \/ completeKyc(r) \/ updateProfile(r) \/ verify2FA(r) \/ disable2FA(r) \/ updateSettings(r)
       PROVE  AccountInv'
  BY <1>21, <1>22 DEF CallOps, login, loginWithPin, resendOtp, forgotPassword, submitBasicInfo,
                      completeKyc, updateProfile, verify2FA, disable2FA, updateSettings
<1> QED
  BY <1>3, <1>7, <1>9, <1>11, <1>12, <1>13, <1>14, <1>15, <1>17, <1>18, <1>19, <1>20, <1>22, <1>23 DEF AccountNext

\* The phone is verified with the last code, and what a user has gone through stays, in
\* every step.
LEMMA AccountStep ==
    ASSUME AccountInv, [AccountNext]_accountVars
    PROVE  VerifiedByNewestCode /\ FlagsStay
<1>1. ASSUME NEW r \in Calls, WriteVerified(r), ~stale' PROVE calling[r].code = phoneCode
  <2>1. Returns(r, "verifyOtp") /\ calling[r].op = "verifyOtp"
    BY <1>1 DEF WriteVerified, Returns
  <2>2. /\ CallOK(calling[r], sent) /\ ~stale /\ calling[r].row = user
        /\ Fresh(user, twoFactor, spent, phoneCode)
    BY <1>1, <2>1, CallReturns DEF CallEnds, AccountInv
  <2> QED
    BY <2>1, <2>2 DEF CallOK, Fresh
<1>2. VerifiedByNewestCode
  BY <1>1 DEF VerifiedByNewestCode
<1>3. user \in UserRow /\ \A r \in Calls : calling[r].row \in UserRow
  BY AccountTyped DEF AccountInv, AccountFacts, RowOK, CallOK
<1>4. user' = user => Flags
  BY DEF Flags
<1>5. ASSUME NEW r \in Calls, NEW row, SaveRow(r, row), calling[r].row.verified => row.verified,
             calling[r].row.basicInfo => row.basicInfo
      PROVE  Flags
  <2>1. user' = row
    BY <1>5 DEF SaveRow
  <2>2. calling[r].row # user => clobbered'
    BY <1>5, Zenon DEF SaveRow
  <2> QED
    BY <1>5, <2>1, <2>2 DEF Flags
<1>6. ASSUME NEW r \in Calls, WriteVerified(r) \/ SendCode(r) \/ SaveBasicInfo(r) \/ SaveKyc(r) PROVE Flags
  <2> DEFINE old == calling[r].row
  <2>1. PICK row \in {[old EXCEPT !.verified = TRUE, !.otpExpiration = "none"],
                      [old EXCEPT !.phoneOtp = sent', !.emailOtp = sent', !.otpExpiration = "live"],
                      [old EXCEPT !.basicInfo = TRUE], old} : SaveRow(r, row)
    BY <1>6 DEF WriteVerified, SendCode, SaveBasicInfo, SaveKyc
  <2>2. /\ old.verified => row.verified
        /\ old.basicInfo => row.basicInfo
    BY <1>3, <2>1 DEF UserRow
  <2> QED
    BY <1>5, <2>1, <2>2
<1>7. ASSUME NEW r \in Calls, SendLoginCode(r) PROVE Flags
  <2>1. user' = [user EXCEPT !.phoneOtp = sent', !.otpExpiration = "live", !.verified = FALSE]
    BY <1>7 DEF SendLoginCode
  <2>2. user.verified => clobbered'
    BY <1>7, Zenon DEF SendLoginCode
  <2>3. user'.basicInfo = user.basicInfo
    BY <1>3, <2>1 DEF UserRow
  <2> QED
    BY <2>2, <2>3 DEF Flags
<1>12. ASSUME NEW r \in Calls, SaveProfile(r) PROVE Flags
  <2>1. user' # user => clobbered'
    BY <1>12, Zenon DEF SaveProfile
  <2> QED
    BY <1>4, <2>1 DEF Flags
<1>8. ASSUME \/ \E r \in Calls : IssueResetToken(r) \/ WriteNewPassword(r) \/ resetPassword(r)
             \/ Expiry
      PROVE  Flags
  <2>1. PICK row \in {user,
                      [user EXCEPT !.phoneOtp = None, !.emailOtp = None, !.otpExpiration = "none",
                                   !.reset = sent', !.resetLive = TRUE],
                      [user EXCEPT !.reset = None, !.resetLive = FALSE],
                      [user EXCEPT !.reset = None], [user EXCEPT !.otpExpiration = "past"],
                      [user EXCEPT !.resetLive = FALSE]} : user' = row
    BY <1>8 DEF IssueResetToken, WriteNewPassword, resetPassword, Expiry, UpdateColumns, Call
  <2>2. row.verified = user.verified /\ row.basicInfo = user.basicInfo
    BY <1>3, <2>1 DEF UserRow
  <2> QED
    BY <2>1, <2>2 DEF Flags
<1>9. ASSUME NEW r \in Calls,
             \/ login(r) \/ loginWithPin(r) \/ verifyOtp(r) \/ resendOtp(r) \/ forgotPassword(r)
             \/ verifyResetOtp(r) \/ submitBasicInfo(r) \/ completeKyc(r) \/ updateProfile(r) \/ verify2FA(r)
             \/ disable2FA(r) \/ updateSettings(r) \/ WriteVerified2FA(r) \/ WriteDisabled2FA(r) \/ SaveSettings(r)
      PROVE  user' = user
  BY <1>9 DEF login, loginWithPin, verifyOtp, resendOtp, forgotPassword, verifyResetOtp, submitBasicInfo,
              completeKyc, updateProfile, verify2FA, disable2FA, updateSettings, WriteVerified2FA, WriteDisabled2FA,
              SaveSettings, Call
<1>10. enable2FA \/ UNCHANGED accountVars => user' = user
  BY DEF enable2FA, accountVars
<1>11. Flags
  BY <1>4, <1>6, <1>7, <1>8, <1>9, <1>10, <1>12 DEF AccountNext
<1> QED
  BY <1>2, <1>11 DEF FlagsStay, Flags

\* What the run checks of the account.
LEMMA AccountMeans == AccountInv => AccountTypeOK /\ CodeIsSpent /\ TwoFactorCanBeAnswered
BY DEF AccountInv, CodeIsSpent, TwoFactorCanBeAnswered, Fresh

-----------------------------------------------------------------------------
(* The PIN *)

\* A try to pay or to change the PIN began while the wallet had one and was not locked; a
\* first PIN is set where the row that was read has none.  The lock of the last try too many
\* is the one in the row, or has passed.
PinInv ==
    /\ PinTypeOK /\ FailuresAreCounted
    /\ \A r \in PinCalls :
         /\ trying[r].op \in {"changeTransactionPin", "verifyTransactionPin"} =>
               pin.set /\ trying[r].row.lockedUntil <= minute
         /\ trying[r].op = "setTransactionPin" => ~trying[r].row.set
    /\ ~pinStale => unlockAt <= pin.lockedUntil \/ unlockAt <= minute

\* A wallet has no PIN in the beginning.
LEMMA PinInits == PinInit => PinInv
<1> SUFFICES ASSUME PinInit PROVE PinInv
  OBVIOUS
<1>1. /\ pin = NoPin /\ trying = [r \in PinCalls |-> NotTrying]
      /\ minute = 0 /\ wrong = 0 /\ unlockAt = 0 /\ pinStale = FALSE /\ tries = 0
  BY DEF PinInit
<1>2. NoPin \in PinRow /\ NotTrying \in [op : PinOps, right : BOOLEAN, row : PinRow]
      /\ NoPin.failed = 0 /\ NoPin.lockedUntil = 0 /\ NotTrying.op = "none"
  BY DEF NoPin, NotTrying, PinRow, PinOps
<1>3. PinTypeOK
  <2>1. 0 \in 0..MaxPinTime /\ 0 \in 0..MaxTries
    BY PinAssumption
  <2>2. trying \in [PinCalls -> [op : PinOps, right : BOOLEAN, row : PinRow]]
    BY <1>1, <1>2
  <2>3. pinStale \in BOOLEAN
    BY Zenon DEF PinInit
  <2>4. pin \in PinRow /\ ~(pin.lockedUntil > 0)
    BY <1>1, <1>2
  <2>5. minute \in 0..MaxPinTime /\ tries \in 0..MaxTries /\ wrong \in Nat /\ unlockAt \in Nat
    BY <1>1, <2>1
  <2> QED
    BY <2>2, <2>3, <2>4, <2>5 DEF PinTypeOK
<1> QED
  BY <1>1, <1>2, <1>3 DEF PinInv, FailuresAreCounted

\* A request begins on the row there is.
LEMMA TryBegins ==
    ASSUME PinInv, NEW r \in PinCalls, NEW op \in PinOps \ {"none"}, NEW right \in BOOLEAN, Try(r, op, right),
           op = "setTransactionPin" => ~pin.set,
           op # "setTransactionPin" => pin.set /\ assertPinNotLocked
    PROVE  PinInv' /\ UNCHANGED <<pin, minute, wrong, unlockAt, pinStale>>
<1>1. /\ pin \in PinRow /\ trying \in [PinCalls -> [op : PinOps, right : BOOLEAN, row : PinRow]]
      /\ minute \in 0..MaxPinTime /\ tries \in 0..MaxTries
  BY DEF PinInv, PinTypeOK
<1>2. /\ tries < MaxTries /\ tries' = tries + 1
      /\ trying' = [trying EXCEPT ![r] = [op |-> op, right |-> right, row |-> pin]]
      /\ UNCHANGED <<pin, minute, wrong, unlockAt, pinStale>>
  BY DEF Try
<1>3. [op |-> op, right |-> right, row |-> pin] \in [op : PinOps, right : BOOLEAN, row : PinRow]
  BY <1>1
<1>4. /\ trying' \in [PinCalls -> [op : PinOps, right : BOOLEAN, row : PinRow]]
      /\ trying'[r].op = op /\ trying'[r].row = pin
      /\ \A q \in PinCalls \ {r} : trying'[q] = trying[q]
  BY <1>1, <1>2, <1>3
<1>5. tries' \in 0..MaxTries
  BY <1>1, <1>2, PinAssumption
<1>6. PinTypeOK'
  BY <1>2, <1>4, <1>5 DEF PinInv, PinTypeOK
<1>7. ASSUME NEW q \in PinCalls
      PROVE  /\ trying'[q].op \in {"changeTransactionPin", "verifyTransactionPin"} =>
                   pin.set /\ trying'[q].row.lockedUntil <= minute
             /\ trying'[q].op = "setTransactionPin" => ~trying'[q].row.set
  <2>1. CASE q = r
    BY <1>4, <2>1 DEF assertPinNotLocked
  <2>2. CASE q # r
    BY <1>4, <2>2 DEF PinInv
  <2> QED
    BY <2>1, <2>2
<1> QED
  BY <1>2, <1>6, <1>7 DEF PinInv, FailuresAreCounted

\* What is known when a request comes back.
Ends(r) ==
    /\ trying' \in [PinCalls -> [op : PinOps, right : BOOLEAN, row : PinRow]]
    /\ trying'[r].op = "none" /\ \A q \in PinCalls \ {r} : trying'[q] = trying[q]
    /\ pinStale' \in BOOLEAN /\ (~pinStale' => ~pinStale /\ trying[r].row = pin)
    /\ minute' = minute /\ tries' = tries

\* Every request that comes back ends so.
LEMMA TryEnds ==
    ASSUME PinInv, NEW r \in PinCalls, NEW op, NEW right, Tried(r, op, right)
    PROVE  Ends(r)
<1>1. trying \in [PinCalls -> [op : PinOps, right : BOOLEAN, row : PinRow]] /\ pinStale \in BOOLEAN
  BY DEF PinInv, PinTypeOK
<1>2. trying' = [trying EXCEPT ![r] = NotTrying] /\ minute' = minute /\ tries' = tries
  BY DEF Tried
<1>3. pinStale' = (pinStale \/ trying[r].row # pin)
  BY Zenon DEF Tried
<1>4. pinStale' \in BOOLEAN /\ (~pinStale' => ~pinStale /\ trying[r].row = pin)
  BY <1>3, Zenon
<1>5. NotTrying \in [op : PinOps, right : BOOLEAN, row : PinRow] /\ NotTrying.op = "none"
  BY DEF NotTrying, NoPin, PinRow, PinOps
<1> QED
  BY <1>1, <1>2, <1>4, <1>5 DEF Ends

\* Every step of the PIN, and what it must not do.
LEMMA StepPin == PinInv /\ [PinNext]_pinVars => PinInv' /\ LockHolds
<1> SUFFICES ASSUME PinInv, [PinNext]_pinVars PROVE PinInv' /\ LockHolds
  OBVIOUS
<1>1. /\ pin \in PinRow /\ trying \in [PinCalls -> [op : PinOps, right : BOOLEAN, row : PinRow]]
      /\ minute \in 0..MaxPinTime /\ tries \in 0..MaxTries
      /\ wrong \in Nat /\ unlockAt \in Nat
      /\ pin.lockedUntil > 0 => pin.set /\ (pinStale \/ pin.failed >= MAX_PIN_ATTEMPTS)
      /\ ~pinStale => pin.failed = wrong /\ (unlockAt <= pin.lockedUntil \/ unlockAt <= minute)
      /\ \A r \in PinCalls :
           /\ trying[r].op \in {"changeTransactionPin", "verifyTransactionPin"} =>
                 pin.set /\ trying[r].row.lockedUntil <= minute
           /\ trying[r].op = "setTransactionPin" => ~trying[r].row.set
      /\ MAX_PIN_ATTEMPTS \in Nat \ {0} /\ PIN_LOCK_MINUTES \in Nat \ {0}
  BY PinAssumption DEF PinInv, PinTypeOK, FailuresAreCounted
<1>2. /\ pin.set \in BOOLEAN /\ pin.failed \in Nat /\ pin.lockedUntil \in Nat
      /\ \A r \in PinCalls : trying[r].row.failed \in Nat /\ trying[r].row.lockedUntil \in Nat
  BY <1>1 DEF PinRow
<1>3. CASE UNCHANGED pinVars
  BY <1>3 DEF pinVars, PinInv, PinTypeOK, FailuresAreCounted, LockHolds
<1>4. ASSUME NEW r \in PinCalls,
             setTransactionPin(r) \/ changeTransactionPin(r) \/ verifyTransactionPin(r)
      PROVE  PinInv' /\ LockHolds
  <2>1. PICK op \in PinOps \ {"none"}, right \in BOOLEAN :
          /\ Try(r, op, right) /\ (op = "setTransactionPin" => ~pin.set)
          /\ op # "setTransactionPin" => pin.set /\ assertPinNotLocked
    BY <1>4 DEF setTransactionPin, changeTransactionPin, verifyTransactionPin, PinOps
  <2>2. PinInv' /\ UNCHANGED <<pin, minute, wrong, unlockAt, pinStale>>
    BY <2>1, TryBegins
  <2>3. ASSUME NEW q \in PinCalls, trying'[q].op \in {"changeTransactionPin", "verifyTransactionPin"},
               trying[q].op = "none", ~pinStale
        PROVE  minute >= unlockAt
    <3>1. trying' = [trying EXCEPT ![r] = [op |-> op, right |-> right, row |-> pin]]
      BY <2>1 DEF Try
    <3>2. q = r /\ op # "setTransactionPin"
      BY <1>1, <2>3, <3>1
    <3>3. pin.lockedUntil <= minute
      BY <2>1, <3>2 DEF assertPinNotLocked
    <3> QED
      BY <1>1, <1>2, <2>3, <3>3
  <2> QED
    BY <2>2, <2>3 DEF LockHolds
<1>5. ASSUME NEW r \in PinCalls, trying[r].op # "none", Ends(r),
             pin' \in PinRow, wrong' \in Nat, unlockAt' \in Nat, pin.set => pin'.set,
             pin'.lockedUntil > 0 => pin'.set /\ (pinStale' \/ pin'.failed >= MAX_PIN_ATTEMPTS),
             ~pinStale' => pin'.failed = wrong' /\ (unlockAt' <= pin'.lockedUntil \/ unlockAt' <= minute)
      PROVE  PinInv' /\ LockHolds
  <2>1. /\ trying' \in [PinCalls -> [op : PinOps, right : BOOLEAN, row : PinRow]]
        /\ trying'[r].op = "none" /\ \A q \in PinCalls \ {r} : trying'[q] = trying[q]
        /\ pinStale' \in BOOLEAN /\ minute' = minute /\ tries' = tries
    BY <1>5 DEF Ends
  <2>2. PinTypeOK'
    BY <1>1, <1>5, <2>1 DEF PinTypeOK
  <2>3. ASSUME NEW q \in PinCalls
        PROVE  /\ trying'[q].op \in {"changeTransactionPin", "verifyTransactionPin"} =>
                     pin'.set /\ trying'[q].row.lockedUntil <= minute
               /\ trying'[q].op = "setTransactionPin" => ~trying'[q].row.set
               /\ trying'[q].op # "none" => trying[q].op # "none"
    <3>1. CASE q = r
      BY <2>1, <3>1
    <3>2. CASE q # r
      BY <1>1, <1>5, <2>1, <3>2
    <3> QED
      BY <3>1, <3>2
  <2> QED
    BY <1>5, <2>1, <2>2, <2>3 DEF PinInv, FailuresAreCounted, LockHolds
<1>6. ASSUME NEW r \in PinCalls, WritePin(r) PROVE PinInv' /\ LockHolds
  <2>1. PICK op \in {"setTransactionPin", "changeTransactionPin"} : Tried(r, op, TRUE)
    BY <1>6 DEF WritePin
  <2>2. /\ trying[r].op = op /\ pin' = [set |-> TRUE, failed |-> 0, lockedUntil |-> 0]
        /\ wrong' = 0 /\ unlockAt' = unlockAt
    BY <1>6, <2>1 DEF WritePin, Tried
  <2>3. Ends(r)
    BY <2>1, TryEnds
  <2>4. ~pinStale' => ~pinStale /\ trying[r].row = pin
    BY <2>3 DEF Ends
  <2>5. pin' \in PinRow /\ pin'.set /\ pin'.failed = 0 /\ pin'.lockedUntil = 0
    BY <2>2 DEF PinRow
  <2>6. ~pinStale' => unlockAt <= minute
    <3>1. CASE op = "setTransactionPin"
      BY <1>1, <1>2, <2>2, <2>4, <3>1
    <3>2. CASE op = "changeTransactionPin"
      BY <1>1, <1>2, <2>2, <2>4, <3>2
    <3> QED
      BY <3>1, <3>2
  <2> QED
    BY <1>1, <1>5, <2>1, <2>2, <2>3, <2>5, <2>6
<1>7. ASSUME NEW r \in PinCalls, AcceptPin(r) PROVE PinInv' /\ LockHolds
  <2> DEFINE op == "verifyTransactionPin"
  <2>1. /\ Tried(r, op, TRUE) /\ trying[r].op = op /\ wrong' = 0 /\ unlockAt' = unlockAt
        /\ pin' = IF trying[r].row.failed > 0 THEN [pin EXCEPT !.failed = 0, !.lockedUntil = 0] ELSE pin
    BY <1>7 DEF AcceptPin, Tried
  <2>2. Ends(r)
    BY <2>1, TryEnds
  <2>3. /\ ~pinStale' => ~pinStale /\ trying[r].row = pin
        /\ pinStale => pinStale'
    BY <2>2 DEF Ends
  <2>4. pin' \in PinRow /\ pin'.set = pin.set
        /\ IF trying[r].row.failed > 0 THEN pin'.failed = 0 /\ pin'.lockedUntil = 0 ELSE pin' = pin
    BY <1>1, <2>1 DEF PinRow
  <2>5. pin.set /\ trying[r].row.lockedUntil <= minute
    BY <1>1, <2>1
  <2> QED
    BY <1>1, <1>2, <1>5, <2>1, <2>2, <2>3, <2>4, <2>5
<1>8. ASSUME NEW r \in PinCalls, incrementPinFailedAttempts(r) PROVE PinInv' /\ LockHolds
  <2> DEFINE count == trying[r].row.failed + 1
  <2>1. PICK op \in {"verifyTransactionPin", "changeTransactionPin"} : Tried(r, op, FALSE)
    BY <1>8 DEF incrementPinFailedAttempts
  <2>2. /\ trying[r].op = op /\ wrong' = wrong + 1
        /\ pin' = IF count >= MAX_PIN_ATTEMPTS
                  THEN [pin EXCEPT !.failed = count, !.lockedUntil = minute + PIN_LOCK_MINUTES]
                  ELSE [pin EXCEPT !.failed = count]
        /\ unlockAt' = IF wrong' >= MAX_PIN_ATTEMPTS THEN minute + PIN_LOCK_MINUTES ELSE unlockAt
    BY <1>8, <2>1 DEF incrementPinFailedAttempts, Tried
  <2>3. Ends(r)
    BY <2>1, TryEnds
  <2>4. /\ ~pinStale' => ~pinStale /\ trying[r].row = pin
        /\ pinStale => pinStale'
    BY <2>3 DEF Ends
  <2>5. count \in Nat /\ minute + PIN_LOCK_MINUTES \in Nat /\ minute \in Nat
    BY <1>1, <1>2
  <2>6. pin' \in PinRow /\ pin'.set = pin.set /\ pin'.failed = count
        /\ IF count >= MAX_PIN_ATTEMPTS THEN pin'.lockedUntil = minute + PIN_LOCK_MINUTES
           ELSE pin'.lockedUntil = pin.lockedUntil
    BY <1>1, <2>2, <2>5 DEF PinRow
  <2>7. pin.set
    BY <1>1, <2>2
  <2>8. ~pinStale' => count = wrong'
    BY <1>1, <2>2, <2>4
  <2>9. pin'.lockedUntil > 0 => pin'.set /\ (pinStale' \/ pin'.failed >= MAX_PIN_ATTEMPTS)
    BY <1>1, <1>2, <2>4, <2>5, <2>6, <2>7
  <2> QED
    BY <1>1, <1>2, <1>5, <2>1, <2>2, <2>3, <2>4, <2>5, <2>6, <2>7, <2>8, <2>9
<1>9. CASE PinClock
  <2>1. minute < MaxPinTime /\ minute' = minute + 1
        /\ UNCHANGED <<pin, trying, wrong, unlockAt, pinStale, tries>>
    BY <1>9 DEF PinClock
  <2>2. minute' \in 0..MaxPinTime /\ minute <= minute' /\ minute \in Nat
    BY <1>1, <2>1, PinAssumption
  <2>3. PinTypeOK'
    BY <2>1, <2>2 DEF PinInv, PinTypeOK
  <2>4. \A n \in Nat : n <= minute => n <= minute'
    BY <2>2
  <2> QED
    BY <1>1, <1>2, <2>1, <2>3, <2>4 DEF PinInv, FailuresAreCounted, LockHolds
<1> QED
  BY <1>3, <1>4, <1>6, <1>7, <1>8, <1>9 DEF PinNext

-----------------------------------------------------------------------------
(* The identity check *)

HandlerOps == {"none", "submitKyc", "clearFlag", "saveUser", "completeKyc"} \cup Verdict
Handler == [op : HandlerOps, matched : BOOLEAN, row : Level2Row, flag : BOOLEAN]

\* A verdict is about a session, which took level 1; documents are handed in at a row that
\* is not verified.  Undisturbed, the flag is exactly the verdict on level 2, so that nobody
\* has a flag to clear, and a verdict has not read an approved row.
KycInv ==
    /\ KycTypeOK /\ Level1BeforeLevel2
    /\ sessions > 0 => level1 = "verified"
    /\ level2.status = "verified" => approved
    /\ \A h \in Handlers :
         /\ handling[h].op \in Verdict => sessions > 0 /\ (handling[h].row.status = "verified" => mixed)
         /\ handling[h].op = "submitKyc" => handling[h].row.status # "verified"
    /\ ~mixed /\ ~declaredDone =>
         /\ hasCompletedKyc <=> level2.status = "verified"
         /\ \A h \in Handlers : handling[h].op # "clearFlag"

\* Nobody has begun in the beginning.
LEMMA KycInits == KycInit => KycInv
<1> SUFFICES ASSUME KycInit PROVE KycInv
  OBVIOUS
<1>1. /\ level1 = "none" /\ level2 = [status |-> "none", attempts |-> 0]
      /\ sessions = 0 /\ handled = 0 /\ handling = [h \in Handlers |-> NotHandling]
  BY DEF KycInit
<1>2. /\ ~hasCompletedKyc /\ matches /\ kycStrict \in BOOLEAN /\ ~approved /\ ~mixed /\ ~declaredDone
      /\ hasCompletedKyc \in BOOLEAN /\ matches \in BOOLEAN
      /\ approved \in BOOLEAN /\ mixed \in BOOLEAN /\ declaredDone \in BOOLEAN
  BY Zenon DEF KycInit
<1>3. NotHandling \in Handler /\ NotHandling.op = "none" /\ level2 \in Level2Row
  BY <1>1 DEF NotHandling, Handler, HandlerOps, Level2Row, KycStatus
<1>4. handling \in [Handlers -> Handler] /\ \A h \in Handlers : handling[h].op = "none"
  BY <1>1, <1>3
<1>5. 0 \in 0..MaxHandled
  BY HandledAssumption
<1>6. KycTypeOK
  BY <1>1, <1>2, <1>3, <1>4, <1>5 DEF KycTypeOK, Handler, HandlerOps
<1>7. "none" \notin Verdict
  BY DEF Verdict
<1> QED
  BY <1>1, <1>2, <1>4, <1>6, <1>7 DEF KycInv, Level1BeforeLevel2

\* The invariant in the terms of the steps below.
KycFacts ==
    /\ level1 \in {"none", "verified"} /\ level2 \in Level2Row
    /\ hasCompletedKyc \in BOOLEAN /\ matches \in BOOLEAN /\ kycStrict \in BOOLEAN
    /\ approved \in BOOLEAN /\ mixed \in BOOLEAN /\ declaredDone \in BOOLEAN
    /\ sessions \in Nat /\ handled \in 0..MaxHandled /\ handling \in [Handlers -> Handler]

\* What the type invariant says, field by field.
LEMMA KycTyped == KycInv => KycFacts
BY DEF KycInv, KycTypeOK, KycFacts, Handler, HandlerOps

\* A handler has begun, on what it has read.
LEMMA KycBegins ==
    ASSUME KycInv, NEW h \in Handlers, NEW op \in {"submitKyc", "saveUser", "completeKyc"} \cup Verdict, NEW matched \in BOOLEAN,
           NEW row \in Level2Row, Reads(h, op, matched, row), level2' \in Level2Row, row = level2',
           mixed' \in BOOLEAN, mixed => mixed',
           op \in Verdict => level2' = level2 /\ sessions > 0 /\ (approved => mixed'),
           op \in {"saveUser", "completeKyc"} => level2' = level2,
           op = "submitKyc" =>
              /\ level2.status # "verified"
              /\ level2' = level2 \/ (level2' = [status |-> "pending", attempts |-> 0] /\ ~kycStrict
                                      /\ level2.status = "none")
    PROVE  KycInv'
<1>1. KycFacts
  BY KycTyped
<1> DEFINE w == [op |-> op, matched |-> matched, row |-> row, flag |-> hasCompletedKyc]
<1>2. /\ handling[h].op = "none" /\ handled < MaxHandled /\ handled' = handled + 1
      /\ handling' = [handling EXCEPT ![h] = w]
      /\ UNCHANGED <<kycStrict, level1, hasCompletedKyc, matches, sessions, approved, declaredDone>>
  BY DEF Reads, Idling, Handle
<1>3. w \in Handler /\ w.op = op /\ w.row = row
  BY <1>1 DEF Handler, HandlerOps, KycFacts
<1> HIDE DEF w
<1>4. /\ handling' \in [Handlers -> Handler] /\ handling'[h] = w
      /\ \A q \in Handlers \ {h} : handling'[q] = handling[q]
  BY <1>1, <1>2, <1>3 DEF KycFacts
<1>5. handled' \in 0..MaxHandled
  BY <1>1, <1>2, HandledAssumption DEF KycFacts
<1>6. level2'.status = "verified" => level2.status = "verified"
  OBVIOUS
<1>7. /\ level2'.status = "none" => level2'.attempts = 0
      /\ level2'.attempts = 0 /\ level2'.status # "none" =>
            level2'.status = "pending" /\ ~kycStrict /\ \E q \in Handlers : handling'[q].op = "submitKyc"
  <2>1. CASE level2' = level2
    <3>1. \A q \in Handlers : handling[q].op = "submitKyc" => handling'[q].op = "submitKyc"
      BY <1>2, <1>4
    <3> QED
      BY <2>1, <3>1 DEF KycInv, KycTypeOK
  <2>2. CASE op = "submitKyc" /\ level2' = [status |-> "pending", attempts |-> 0] /\ ~kycStrict
    BY <1>3, <1>4, <2>2
  <2>3. op \in {"saveUser", "completeKyc"} \cup Verdict => op # "submitKyc"
    BY DEF Verdict
  <2> QED
    BY <2>1, <2>2, <2>3
<1>8. KycTypeOK'
  BY <1>1, <1>2, <1>4, <1>5, <1>7 DEF KycTypeOK, KycFacts, Handler, HandlerOps
<1>9. ASSUME NEW q \in Handlers
      PROVE  /\ handling'[q].op \in Verdict => sessions > 0 /\ (handling'[q].row.status = "verified" => mixed')
             /\ handling'[q].op = "submitKyc" => handling'[q].row.status # "verified"
             /\ handling'[q].op = "clearFlag" => handling[q].op = "clearFlag"
  <2>1. CASE q = h
    <3>1. op \in Verdict => op # "submitKyc"
      BY DEF Verdict
    <3>2. op # "clearFlag"
      BY DEF Verdict
    <3>3. level2.status = "verified" => approved
      BY DEF KycInv
    <3> QED
      BY <1>3, <1>4, <1>6, <2>1, <3>1, <3>2, <3>3
  <2>2. CASE q # h
    BY <1>4, <2>2 DEF KycInv
  <2> QED
    BY <2>1, <2>2
<1>10. level2.status = "verified" <=> level2'.status = "verified"
  BY <1>6
<1> QED
  BY <1>2, <1>8, <1>9, <1>10 DEF KycInv, Level1BeforeLevel2

\* A handler has written: it is done, or has the flag to clear; what it must have kept to.
LEMMA KycWrites ==
    ASSUME KycInv, NEW h \in Handlers,
           \/ handling' = [handling EXCEPT ![h] = NotHandling]
           \/ handling' = [handling EXCEPT ![h].op = "clearFlag"] /\ (mixed' \/ declaredDone'),
           UNCHANGED <<level1, sessions, handled, kycStrict>>,
           level2' \in Level2Row, hasCompletedKyc' \in BOOLEAN, matches' \in BOOLEAN, approved' \in BOOLEAN,
           declaredDone' \in BOOLEAN, mixed' \in BOOLEAN,
           mixed => mixed', approved => approved', declaredDone => declaredDone',
           level2'.status = "verified" => level1 = "verified" /\ approved',
           level2' = level2 \/ (level2'.status # "none" /\ (level2'.attempts > 0 \/
                (level2.status # "none" /\ level2'.attempts = level2.attempts /\ level2'.status = "pending"))),
           handling[h].op = "submitKyc" => level2'.attempts > 0,
           ~mixed' /\ ~declaredDone' => (hasCompletedKyc' <=> level2'.status = "verified")
    PROVE  KycInv'
<1>1. KycFacts
  BY KycTyped
<1>2. NotHandling \in Handler /\ NotHandling.op = "none"
  BY DEF NotHandling, Handler, HandlerOps, Level2Row, KycStatus
<1>3. /\ handling' \in [Handlers -> Handler]
      /\ handling'[h].op = "none" \/ (handling'[h].op = "clearFlag" /\ (mixed' \/ declaredDone'))
      /\ \A q \in Handlers \ {h} : handling'[q] = handling[q]
  <2>1. CASE handling' = [handling EXCEPT ![h] = NotHandling]
    BY <1>1, <1>2, <2>1 DEF KycFacts
  <2>2. CASE handling' = [handling EXCEPT ![h].op = "clearFlag"] /\ (mixed' \/ declaredDone')
    BY <1>1, <2>2 DEF KycFacts, Handler, HandlerOps
  <2> QED
    BY <2>1, <2>2
<1>4. /\ level2'.status = "none" => level2'.attempts = 0
      /\ level2'.attempts = 0 /\ level2'.status # "none" =>
            level2'.status = "pending" /\ ~kycStrict /\ \E q \in Handlers : handling'[q].op = "submitKyc"
  <2>1. /\ level2.status = "none" => level2.attempts = 0
        /\ level2.attempts = 0 /\ level2.status # "none" =>
              level2.status = "pending" /\ ~kycStrict /\ \E q \in Handlers : handling[q].op = "submitKyc"
    BY DEF KycInv, KycTypeOK
  <2>2. level2'.attempts = 0 => \A q \in Handlers : handling[q].op = "submitKyc" => handling'[q].op = "submitKyc"
    BY <1>3
  <2> QED
    BY <2>1, <2>2
<1>5. KycTypeOK'
  BY <1>1, <1>3, <1>4 DEF KycTypeOK, KycFacts, Handler, HandlerOps
<1>6. ASSUME NEW q \in Handlers
      PROVE  /\ handling'[q].op \in Verdict => sessions > 0 /\ (handling'[q].row.status = "verified" => mixed')
             /\ handling'[q].op = "submitKyc" => handling'[q].row.status # "verified"
             /\ handling'[q].op = "clearFlag" => handling[q].op = "clearFlag" \/ mixed' \/ declaredDone'
  <2>1. CASE q = h
    BY <1>3, <2>1 DEF Verdict
  <2>2. CASE q # h
    BY <1>3, <2>2 DEF KycInv
  <2> QED
    BY <2>1, <2>2
<1> QED
  BY <1>5, <1>6 DEF KycInv, Level1BeforeLevel2

\* Every step of the identity check, and what it must not do.
LEMMA StepKyc == KycInv /\ [KycNext]_kycVars => KycInv' /\ ApprovalStands
<1> SUFFICES ASSUME KycInv, [KycNext]_kycVars PROVE KycInv' /\ ApprovalStands
  OBVIOUS
<1>1. KycFacts
  BY KycTyped
<1>2. /\ level1 \in {"none", "verified"} /\ level2 \in Level2Row
      /\ hasCompletedKyc \in BOOLEAN /\ matches \in BOOLEAN /\ kycStrict \in BOOLEAN
      /\ approved \in BOOLEAN /\ mixed \in BOOLEAN /\ declaredDone \in BOOLEAN
      /\ sessions \in Nat /\ handled \in 0..MaxHandled /\ handling \in [Handlers -> Handler]
      /\ \A h \in Handlers : handling[h].row \in Level2Row /\ handling[h].flag \in BOOLEAN
                             /\ handling[h].matched \in BOOLEAN
      /\ level2.attempts \in Nat /\ \A h \in Handlers : handling[h].row.attempts \in Nat
  BY <1>1 DEF KycFacts, Handler, Level2Row
<1>3. /\ level2.status = "verified" => level1 = "verified" /\ approved
      /\ sessions > 0 => level1 = "verified"
      /\ \A h \in Handlers :
           /\ handling[h].op \in Verdict => sessions > 0 /\ (handling[h].row.status = "verified" => mixed)
           /\ handling[h].op = "submitKyc" => handling[h].row.status # "verified"
      /\ ~mixed /\ ~declaredDone =>
           /\ hasCompletedKyc <=> level2.status = "verified"
           /\ \A h \in Handlers : handling[h].op # "clearFlag"
  BY DEF KycInv, Level1BeforeLevel2
<1>4. CASE UNCHANGED kycVars
  <2>1. UNCHANGED <<level1, level2, hasCompletedKyc, matches, sessions, handling, kycStrict,
                    approved, mixed, declaredDone, handled>>
    BY <1>4 DEF kycVars
  <2>2. KycTypeOK' /\ Level1BeforeLevel2'
    BY <2>1 DEF KycInv, KycTypeOK, Level1BeforeLevel2
  <2> QED
    BY <1>2, <1>3, <1>4, <2>1, <2>2 DEF KycInv, ApprovalStands
<1>5. ASSUME handled < MaxHandled, handled' = handled + 1, UNCHANGED <<kycStrict, level2, handling, approved, mixed>>,
             level1' \in {"none", "verified"}, level1 = "verified" => level1' = "verified",
             sessions' \in Nat, sessions > 0 => sessions' > 0, sessions' > 0 => level1' = "verified",
             UNCHANGED <<matches, hasCompletedKyc, declaredDone>>
      PROVE  KycInv' /\ ApprovalStands
  <2>1. handled' \in 0..MaxHandled
    BY <1>2, <1>5, HandledAssumption
  <2>2. KycTypeOK'
    BY <1>1, <1>5, <2>1 DEF KycInv, KycTypeOK, KycFacts, Handler, HandlerOps
  <2>3. Level1BeforeLevel2'
    BY <1>3, <1>5 DEF Level1BeforeLevel2
  <2> QED
    BY <1>3, <1>5, <2>2, <2>3 DEF KycInv, ApprovalStands
<1>6. CASE submitBvn
  BY <1>2, <1>3, <1>5, <1>6 DEF submitBvn, Handle
<1>7. CASE createKycSession
  BY <1>2, <1>3, <1>5, <1>7 DEF createKycSession, Handle
<1>8. ASSUME NEW h \in Handlers, LoadUser(h) \/ LoadToComplete(h) PROVE KycInv' /\ ApprovalStands
  <2>1. PICK op \in {"saveUser", "completeKyc"} :
          Reads(h, op, matches, level2) /\ level2' = level2 /\ mixed' = mixed
    BY <1>8 DEF LoadUser, LoadToComplete
  <2>2. op \notin Verdict /\ op # "submitKyc" /\ Reads(h, op, matches, level2')
    BY <2>1 DEF Verdict
  <2>3. KycInv'
    BY <1>2, <2>1, <2>2, KycBegins
  <2> QED
    BY <2>1, <2>3 DEF ApprovalStands
<1>9. ASSUME NEW h \in Handlers, SaveUser(h) \/ DeclareComplete(h) PROVE KycInv' /\ ApprovalStands
  <2>1. /\ handling[h].op \in {"saveUser", "completeKyc"} /\ handling' = [handling EXCEPT ![h] = NotHandling]
        /\ UNCHANGED <<level1, level2, sessions, approved, handled, kycStrict>>
    BY <1>9 DEF SaveUser, DeclareComplete, Finish
  <2>2. /\ hasCompletedKyc' \in BOOLEAN /\ matches' \in BOOLEAN /\ mixed' \in BOOLEAN /\ (mixed => mixed')
        /\ declaredDone' \in BOOLEAN /\ (declaredDone => declaredDone')
        /\ declaredDone' \/ mixed' \/ hasCompletedKyc' = hasCompletedKyc
    <3>1. CASE SaveUser(h)
      <4>1. /\ hasCompletedKyc' = handling[h].flag /\ matches' \in BOOLEAN /\ declaredDone' = declaredDone
            /\ mixed' = (mixed \/ handling[h].flag # hasCompletedKyc)
        BY <3>1, Zenon DEF SaveUser
      <4>2. mixed' \in BOOLEAN /\ (mixed => mixed') /\ (~mixed' => handling[h].flag = hasCompletedKyc)
        BY <4>1, Zenon
      <4> QED
        BY <1>2, <4>1, <4>2
    <3>2. CASE DeclareComplete(h)
      <4>1. hasCompletedKyc' \in BOOLEAN /\ declaredDone' \in BOOLEAN /\ declaredDone'
        BY <3>2, Zenon DEF DeclareComplete
      <4>2. matches' = handling[h].matched /\ mixed' = mixed
        BY <3>2, Zenon DEF DeclareComplete
      <4> QED
        BY <1>2, <4>1, <4>2
    <3> QED
      BY <1>9, <3>1, <3>2
  <2>4. ~mixed' /\ ~declaredDone' => (hasCompletedKyc' <=> level2.status = "verified")
    BY <1>2, <1>3, <2>2
  <2>5. ~mixed' /\ ~declaredDone' => (hasCompletedKyc' <=> level2'.status = "verified")
    BY <2>1, <2>4
  <2>6. /\ level2' \in Level2Row /\ level2' = level2 /\ handling[h].op # "submitKyc"
        /\ level2'.status = "verified" => level1 = "verified" /\ approved'
        /\ approved' \in BOOLEAN /\ (approved => approved')
    BY <1>2, <1>3, <2>1
  <2>3. KycInv'
    BY <2>1, <2>2, <2>5, <2>6, KycWrites
  <2> QED
    BY <2>1, <2>3 DEF ApprovalStands
<1>10. ASSUME NEW h \in Handlers, submitKyc(h) PROVE KycInv' /\ ApprovalStands
  <2>1. /\ level2.status # "verified" /\ (level2.status = "none" => ~kycStrict)
        /\ level2' = IF level2.status = "none" THEN [status |-> "pending", attempts |-> 0] ELSE level2
        /\ Reads(h, "submitKyc", matches, level2') /\ mixed' = mixed
    BY <1>10 DEF submitKyc
  <2>2. level2' \in Level2Row
    BY <1>2, <2>1 DEF Level2Row, KycStatus
  <2>3. "submitKyc" \in {"submitKyc"} \cup Verdict /\ "submitKyc" \notin Verdict
    BY DEF Verdict
  <2>4. KycInv'
    BY <1>2, <2>1, <2>2, <2>3, KycBegins
  <2> QED
    BY <2>1, <2>4 DEF ApprovalStands
<1>11. ASSUME NEW h \in Handlers, handleKycVerificationWebhook(h) PROVE KycInv' /\ ApprovalStands
  <2>1. PICK verdict \in Verdict :
          /\ sessions > 0 /\ Reads(h, verdict, matches, level2) /\ level2' = level2
          /\ mixed' = (mixed \/ approved)
    BY <1>11, Zenon DEF handleKycVerificationWebhook
  <2>2. mixed' \in BOOLEAN /\ (mixed => mixed') /\ (approved => mixed')
    BY <2>1, Zenon
  <2>3. verdict # "submitKyc"
    BY DEF Verdict
  <2>4. sessions > 0 /\ Reads(h, verdict, matches, level2) /\ level2' = level2
    BY <2>1, Zenon
  <2>5. Reads(h, verdict, matches, level2')
    BY <2>4, Zenon
  <2>6. KycInv'
    BY <1>2, <2>2, <2>3, <2>4, <2>5, KycBegins
  <2> QED
    BY <2>4, <2>6 DEF ApprovalStands
<1>12. ASSUME NEW h \in Handlers, mixed' = (mixed \/ Overlaps(h))
       PROVE  /\ mixed' \in BOOLEAN /\ (mixed => mixed')
              /\ ~mixed' => ~mixed /\ handling[h].row = level2 /\ handling[h].flag = hasCompletedKyc
  <2>1. mixed' \in BOOLEAN /\ (mixed => mixed') /\ (~mixed' => ~mixed /\ ~Overlaps(h))
    BY <1>12, Zenon
  <2> QED
    BY <2>1, Zenon DEF Overlaps
<1>13. ASSUME NEW h \in Handlers, SaveDocuments(h) PROVE KycInv' /\ ApprovalStands
  <2>1. /\ handling[h].op = "submitKyc"
        /\ level2' = [status |-> "pending", attempts |-> handling[h].row.attempts + 1]
        /\ IF handling[h].flag THEN handling' = [handling EXCEPT ![h].op = "clearFlag"]
           ELSE handling' = [handling EXCEPT ![h] = NotHandling]
        /\ UNCHANGED <<level1, hasCompletedKyc, matches, sessions, approved, declaredDone, handled, kycStrict>>
    BY <1>13 DEF SaveDocuments, Finish
  <2>2. /\ mixed' \in BOOLEAN /\ (mixed => mixed')
        /\ ~mixed' => ~mixed /\ handling[h].row = level2 /\ handling[h].flag = hasCompletedKyc
    <3>1. mixed' = (mixed \/ Overlaps(h))
      BY <1>13, Zenon DEF SaveDocuments
    <3> QED
      BY <1>12, <3>1
  <2>3. level2' \in Level2Row /\ level2'.attempts > 0 /\ level2'.status = "pending"
    BY <1>2, <2>1 DEF Level2Row, KycStatus
  <2>4. ~mixed' /\ ~declaredDone => ~hasCompletedKyc /\ ~handling[h].flag
    BY <1>2, <1>3, <2>1, <2>2
  <2>5. \/ handling' = [handling EXCEPT ![h] = NotHandling]
        \/ handling' = [handling EXCEPT ![h].op = "clearFlag"] /\ (mixed' \/ declaredDone')
    BY <2>1, <2>4
  <2>6. KycInv'
    BY <1>2, <1>3, <2>1, <2>2, <2>3, <2>4, <2>5, KycWrites
  <2>7. level2.status = "verified" => mixed'
    BY <1>3, <2>1, <2>2
  <2> QED
    BY <2>6, <2>7 DEF ApprovalStands
<1>14. ASSUME NEW h \in Handlers, ClearFlag(h) PROVE KycInv' /\ ApprovalStands
  <2>1. /\ handling[h].op = "clearFlag" /\ handling' = [handling EXCEPT ![h] = NotHandling]
        /\ matches' = handling[h].matched
        /\ UNCHANGED <<level1, level2, sessions, approved, declaredDone, handled, kycStrict>>
    BY <1>14 DEF ClearFlag, Finish
  <2>2. hasCompletedKyc' \in BOOLEAN /\ ~hasCompletedKyc' /\ mixed' \in BOOLEAN /\ (mixed => mixed')
    BY <1>14, Zenon DEF ClearFlag
  <2>3. mixed \/ declaredDone
    BY <1>3, <2>1
  <2>4. KycInv'
    BY <1>2, <1>3, <2>1, <2>2, <2>3, KycWrites
  <2> QED
    BY <2>1, <2>4 DEF ApprovalStands
<1>15. ASSUME NEW h \in Handlers, handleApproved(h) PROVE KycInv' /\ ApprovalStands
  <2>1. /\ handling[h].op = "Approved" /\ handling' = [handling EXCEPT ![h] = NotHandling]
        /\ level2' = [status |-> "verified", attempts |-> level2.attempts + 1]
        /\ UNCHANGED <<level1, matches, sessions, declaredDone, handled, kycStrict, mixed>>
    BY <1>15 DEF handleApproved, Finish
  <2>2. hasCompletedKyc' \in BOOLEAN /\ hasCompletedKyc' /\ approved' \in BOOLEAN /\ approved'
    BY <1>15, Zenon DEF handleApproved
  <2>3. level2' \in Level2Row /\ level2'.attempts > 0 /\ level2'.status = "verified"
    BY <1>2, <2>1 DEF Level2Row, KycStatus
  <2>4. level1 = "verified"
    BY <1>3, <2>1 DEF Verdict
  <2>5. KycInv'
    BY <1>2, <1>3, <2>1, <2>2, <2>3, <2>4, KycWrites
  <2> QED
    BY <2>3, <2>5 DEF ApprovalStands
<1>16. ASSUME NEW h \in Handlers, updateLevel2Status(h) PROVE KycInv' /\ ApprovalStands
  <2>1. /\ handling[h].op \in Verdict /\ handling[h].op # "submitKyc"
        /\ handling' = [handling EXCEPT ![h] = NotHandling]
        /\ level2' = IF handling[h].row.status = "none" /\ level2.status # "none" THEN level2
                     ELSE [status |-> "rejected", attempts |-> handling[h].row.attempts + 1]
        /\ UNCHANGED <<level1, hasCompletedKyc, matches, sessions, approved, declaredDone, handled, kycStrict>>
    BY <1>16 DEF updateLevel2Status, Finish, Verdict
  <2>2. /\ mixed' \in BOOLEAN /\ (mixed => mixed')
        /\ ~mixed' => ~mixed /\ handling[h].row = level2 /\ handling[h].flag = hasCompletedKyc
    <3>1. mixed' = (mixed \/ Overlaps(h))
      BY <1>16, Zenon DEF updateLevel2Status
    <3> QED
      BY <1>12, <3>1
  <2>3. /\ level2' \in Level2Row
        /\ level2' = level2 \/ (level2'.attempts > 0 /\ level2'.status = "rejected")
    BY <1>2, <2>1 DEF Level2Row, KycStatus
  <2>4. ~mixed' => level2.status # "verified" /\ level2'.status # "verified"
    BY <1>3, <2>1, <2>2, <2>3
  <2>5. KycInv'
    BY <1>2, <1>3, <2>1, <2>2, <2>3, <2>4, KycWrites
  <2> QED
    BY <2>4, <2>5 DEF ApprovalStands
<1>17. ASSUME NEW h \in Handlers, handleInReview(h) PROVE KycInv' /\ ApprovalStands
  <2>1. /\ handling[h].op = "In Review" /\ handling' = [handling EXCEPT ![h] = NotHandling]
        /\ level2' = [status |-> "pending", attempts |-> IF level2.status = "none" THEN 1 ELSE level2.attempts]
        /\ UNCHANGED <<level1, hasCompletedKyc, matches, sessions, approved, declaredDone, handled, kycStrict>>
    BY <1>17 DEF handleInReview, Finish
  <2>2. /\ mixed' \in BOOLEAN /\ (mixed => mixed')
        /\ ~mixed' => ~mixed /\ handling[h].row = level2 /\ handling[h].flag = hasCompletedKyc
    <3>1. mixed' = (mixed \/ Overlaps(h))
      BY <1>17, Zenon DEF handleInReview
    <3> QED
      BY <1>12, <3>1
  <2>3. /\ level2' \in Level2Row /\ level2'.status = "pending"
        /\ IF level2.status = "none" THEN level2'.attempts = 1 ELSE level2'.attempts = level2.attempts
    BY <1>2, <2>1 DEF Level2Row, KycStatus
  <2>4. ~mixed' => level2.status # "verified"
    BY <1>3, <2>1, <2>2 DEF Verdict
  <2>6. level2'.status # "none" /\ (level2'.attempts > 0 \/
           (level2.status # "none" /\ level2'.attempts = level2.attempts /\ level2'.status = "pending"))
    BY <2>3
  <2>7. handling[h].op # "submitKyc" /\ level2'.status # "verified"
    BY <2>1, <2>3
  <2>8. ~mixed' /\ ~declaredDone => (hasCompletedKyc' <=> level2'.status = "verified")
    BY <1>3, <2>1, <2>2, <2>4, <2>7
  <2>5. KycInv'
    BY <1>2, <2>1, <2>2, <2>3, <2>6, <2>7, <2>8, KycWrites
  <2> QED
    BY <2>4, <2>5 DEF ApprovalStands
<1> QED
  BY <1>4, <1>6, <1>7, <1>8, <1>9, <1>10, <1>11, <1>13, <1>14, <1>15, <1>16, <1>17 DEF KycNext

\* Undisturbed, the flag and the levels agree.
LEMMA KycMeans == KycInv => KycTypeOK /\ Level1BeforeLevel2 /\ FlagFollowsLevel2
<1>1. KycInv => FlagFollowsLevel2
  BY DEF KycInv, Level1BeforeLevel2, FlagFollowsLevel2, getKycStatus
<1> QED
  BY <1>1 DEF KycInv

-----------------------------------------------------------------------------
(* Friends, follows, blocks and messages *)

\* What a call has checked: a request it loaded has been sent, and is answered by whom it
\* was sent to.
FriendCallOK(c, ids, senders) ==
    /\ c.op \in Steps
    /\ c.op = "none" => c = AtRest
    /\ c.op # "none" => c.user \in Pair
    /\ c.op = "message" => c = [op |-> "message", user |-> c.user]
    /\ c.op \in {"resend", "answer", "delete"} => c.id \in ids
    /\ c.op = "answer" => c.row \in Request /\ c.row.sender \in senders /\ c.user = Other(c.row.sender)

ActingOK ==
    /\ acting = [r \in SocialCalls |-> acting[r]]
    /\ \A r \in SocialCalls : FriendCallOK(acting[r], idsTaken, offered)

Offered == \A i \in DOMAIN requests : requests[i].sender \in offered

\* A block has ended everything, and whatever is still under way is known to have passed its
\* check before it.
Strangers ==
    blocks # {} /\ ~crossedBlock =>
        following = {} /\ requests = << >> /\ \A r \in SocialCalls : Resting(r) \/ r \in late

OnTheirWay ==
    blocks # {} => \A r \in SocialCalls : acting[r].op \in {"message", "deliver"} => r \in late

\* Unless sends crossed, who inserts a row has looked and still there is none.
OneRow ==
    ~crossedSend =>
        /\ \A i, j \in DOMAIN requests : i = j
        /\ \A r \in SocialCalls : acting[r].op = "insert" => DOMAIN requests = {}

SocialInv ==
    SocialTypeOK /\ ActingOK /\ Offered /\ FriendsAgreed /\ Strangers /\ OnTheirWay /\ OneRow

\* Each is the other of the other.
LEMMA TwoPeople ==
    ASSUME NEW u \in Pair
    PROVE  Other(u) \in Pair /\ Other(u) # u /\ Other(Other(u)) = u
<1>1. IsFiniteSet(Pair \ {u}) /\ Cardinality(Pair \ {u}) = 1
  <2>1. IsFiniteSet(Pair) /\ Cardinality(Pair) = 2
    BY PairAssumption
  <2>2. IsFiniteSet(Pair \ {u}) /\ Cardinality(Pair \ {u}) = Cardinality(Pair) - 1
    BY <2>1, FS_RemoveElement
  <2> QED
    BY <2>1, <2>2
<1>2. PICK v : Pair \ {u} = {v}
  BY <1>1, FS_Singleton
<1>3. v \in Pair /\ v # u /\ \A w \in Pair : w = u \/ w = v
  BY <1>2
<1>4. Other(u) = v
  BY <1>3 DEF Other
<1>5. Other(v) = u
  BY <1>3 DEF Other
<1> QED
  BY <1>3, <1>4, <1>5

\* Two strangers.
LEMMA SocialInits == SocialInit => SocialInv
<1> SUFFICES ASSUME SocialInit PROVE SocialInv
  OBVIOUS
<1>1. /\ blocks = {} /\ following = {} /\ requests = << >> /\ messages = [u \in Pair |-> 0]
      /\ unread = [u \in Pair |-> 0] /\ acting = [r \in SocialCalls |-> AtRest] /\ idsTaken = {}
      /\ offered = {} /\ agreed = {} /\ late = {}
  BY DEF SocialInit
<1>2. crossedBlock \in BOOLEAN /\ crossedSend \in BOOLEAN
  BY Zenon DEF SocialInit
<1>3. DOMAIN requests = {}
  BY <1>1
<1>4. \A r \in SocialCalls : acting[r] = AtRest /\ acting[r].op = "none"
  BY <1>1 DEF AtRest
<1>5. SocialTypeOK
  <2>1. messages \in [Pair -> 0..MaxMessages] /\ unread \in [Pair -> 0..MaxMessages]
    BY <1>1, PairAssumption
  <2>2. \A u \in Pair : unread[u] <= messages[u]
    BY <1>1
  <2> QED
    BY <1>1, <1>2, <1>3, <1>4, <2>1, <2>2 DEF SocialTypeOK, Steps
<1>6. ActingOK
  <2>1. acting = [r \in SocialCalls |-> acting[r]]
    BY <1>1
  <2> QED
    BY <1>4, <2>1 DEF ActingOK, FriendCallOK, Steps
<1> QED
  BY <1>1, <1>3, <1>4, <1>5, <1>6 DEF SocialInv, Offered, FriendsAgreed, Strangers, OnTheirWay, OneRow

\* A call that goes on, or comes back.
Goes(r, call) ==
    /\ acting' = [acting EXCEPT ![r] = call]
    /\ FriendCallOK(call, idsTaken, offered)

\* Those of the others stay as they are.
LEMMA OthersAct ==
    ASSUME ActingOK, NEW r \in SocialCalls, NEW call, Goes(r, call),
           idsTaken \subseteq idsTaken', offered \subseteq offered'
    PROVE  ActingOK' /\ acting'[r] = call /\ \A q \in SocialCalls \ {r} : acting'[q] = acting[q]
<1>1. acting = [q \in SocialCalls |-> acting[q]] /\ \A q \in SocialCalls : FriendCallOK(acting[q], idsTaken, offered)
  BY DEF ActingOK
<1>2. acting' = [q \in SocialCalls |-> IF q = r THEN call ELSE acting[q]]
  BY <1>1 DEF Goes
<1>3. acting'[r] = call /\ \A q \in SocialCalls \ {r} : acting'[q] = acting[q]
  BY <1>2
<1>4. \A q \in SocialCalls : FriendCallOK(acting'[q], idsTaken, offered)
  BY <1>1, <1>3 DEF Goes
<1>5. \A q \in SocialCalls : FriendCallOK(acting'[q], idsTaken', offered')
  BY <1>4 DEF FriendCallOK
<1>6. acting' = [q \in SocialCalls |-> acting'[q]]
  BY <1>2
<1> QED
  BY <1>3, <1>5, <1>6 DEF ActingOK

\* A call that begins has checked that nobody blocks, or deals with a request that is there.
LEMMA Begins ==
    ASSUME SocialInv, NEW r \in SocialCalls, NEW call, Checked(r, call), FriendCallOK(call, idsTaken, offered),
           call.op # "insert",
           blocks = {} \/ (requests # << >> /\ call.op \notin {"message", "deliver"})
    PROVE  SocialInv' /\ messages' = messages
<1>1. /\ Goes(r, call) /\ late' = late \ {r}
      /\ UNCHANGED <<blocks, following, requests, messages, unread, idsTaken, offered, agreed, crossedBlock, crossedSend>>
  BY DEF Checked, SocialTables, Histories, Goes
<1>2. ActingOK' /\ acting'[r] = call /\ \A q \in SocialCalls \ {r} : acting'[q] = acting[q]
  BY <1>1, OthersAct DEF SocialInv
<1>3. SocialTypeOK'
  <2>1. \A q \in SocialCalls : acting'[q].op \in Steps
    BY <1>2 DEF ActingOK, FriendCallOK
  <2> QED
    BY <1>1, <2>1 DEF SocialInv, SocialTypeOK
<1>4. Offered' /\ FriendsAgreed'
  BY <1>1 DEF SocialInv, Offered, FriendsAgreed
<1>5. Strangers'
  BY <1>1 DEF SocialInv, Strangers
<1>6. OnTheirWay'
  BY <1>1, <1>2 DEF SocialInv, OnTheirWay
<1>7. OneRow'
  BY <1>1, <1>2 DEF SocialInv, OneRow
<1> QED
  BY <1>1, <1>2, <1>3, <1>4, <1>5, <1>6, <1>7 DEF SocialInv

\* A call that goes on, or gives up, having written nothing.
LEMMA GoesOn ==
    ASSUME SocialInv, NEW r \in SocialCalls, NEW call, Proceed(r, call), FriendCallOK(call, idsTaken, offered),
           ~Resting(r), call.op = "insert" => requests = << >>,
           call.op \in {"message", "deliver"} => acting[r].op = "message"
    PROVE  SocialInv' /\ messages' = messages
<1>1. /\ Goes(r, call) /\ late' = late
      /\ UNCHANGED <<blocks, following, requests, messages, unread, idsTaken, offered, agreed, crossedBlock, crossedSend>>
  BY DEF Proceed, SocialTables, Histories, Goes
<1>2. ActingOK' /\ acting'[r] = call /\ \A q \in SocialCalls \ {r} : acting'[q] = acting[q]
  BY <1>1, OthersAct DEF SocialInv
<1>3. SocialTypeOK'
  <2>1. \A q \in SocialCalls : acting'[q].op \in Steps
    BY <1>2 DEF ActingOK, FriendCallOK
  <2> QED
    BY <1>1, <2>1 DEF SocialInv, SocialTypeOK
<1>4. Offered' /\ FriendsAgreed'
  BY <1>1 DEF SocialInv, Offered, FriendsAgreed
<1>5. Strangers'
  <2> SUFFICES ASSUME blocks # {}, ~crossedBlock PROVE Strangers'
    BY <1>1 DEF Strangers
  <2>1. following = {} /\ requests = << >> /\ r \in late /\ \A q \in SocialCalls : Resting(q) \/ q \in late
    BY DEF SocialInv, Strangers
  <2>2. \A q \in SocialCalls : acting'[q] = AtRest \/ q \in late
    BY <1>2, <2>1 DEF Resting
  <2> QED
    BY <1>1, <2>1, <2>2 DEF Strangers, Resting
<1>6. OnTheirWay'
  BY <1>1, <1>2 DEF SocialInv, OnTheirWay
<1>7. OneRow'
  <2>1. requests = << >> => DOMAIN requests = {}
    OBVIOUS
  <2> QED
    BY <1>1, <1>2, <2>1 DEF SocialInv, OneRow
<1> QED
  BY <1>1, <1>2, <1>3, <1>4, <1>5, <1>6, <1>7 DEF SocialInv

\* A call that comes back: what it wrote is marked where a block had come.
Back(r) ==
    /\ Goes(r, AtRest) /\ late' = late \ {r}
    /\ crossedBlock' \in BOOLEAN /\ (~crossedBlock' => ~crossedBlock /\ r \notin late)

\* Every write that ends a call comes back so.
LEMMA ComesBack ==
    ASSUME SocialInv, NEW r \in SocialCalls, EndCall(r)
    PROVE  Back(r)
<1>1. acting' = [acting EXCEPT ![r] = AtRest] /\ late' = late \ {r}
  BY DEF EndCall
<1>2. crossedBlock' \in BOOLEAN /\ (~crossedBlock' => ~crossedBlock /\ r \notin late)
  BY Zenon DEF EndCall
<1>3. FriendCallOK(AtRest, idsTaken, offered)
  BY DEF FriendCallOK, AtRest, Steps
<1> QED
  BY <1>1, <1>2, <1>3 DEF Back, Goes

\* What a write that comes back keeps, whatever table it writes: had a block come, it would
\* be marked.
LEMMA Writes ==
    ASSUME SocialInv, NEW r \in SocialCalls, ~Resting(r), Back(r), UNCHANGED blocks,
           idsTaken \subseteq idsTaken', offered \subseteq offered'
    PROVE  /\ ActingOK' /\ Strangers' /\ OnTheirWay' /\ acting'[r].op = "none"
           /\ \A q \in SocialCalls \ {r} : acting'[q] = acting[q]
           /\ \A q \in SocialCalls : acting'[q].op \in Steps
<1>1. ActingOK' /\ acting'[r] = AtRest /\ \A q \in SocialCalls \ {r} : acting'[q] = acting[q]
  BY OthersAct DEF SocialInv, Back
<1>2. \A q \in SocialCalls : acting'[q].op \in Steps
  BY <1>1 DEF ActingOK, FriendCallOK
<1>3. acting'[r].op = "none"
  BY <1>1 DEF AtRest
<1>4. Strangers'
  <2> SUFFICES ASSUME blocks' # {}, ~crossedBlock' PROVE FALSE
    BY DEF Strangers
  <2>1. blocks # {} /\ ~crossedBlock /\ r \notin late
    BY DEF Back
  <2> QED
    BY <2>1 DEF SocialInv, Strangers
<1>5. OnTheirWay'
  BY <1>1, <1>3 DEF SocialInv, OnTheirWay, Back
<1> QED
  BY <1>1, <1>2, <1>3, <1>4, <1>5

\* A row is inserted or overwritten, where no other has its sender.
LEMMA RowPut ==
    ASSUME SocialTypeOK, NEW i \in RequestIds, NEW row \in Request, requests' = PutRow(i, row),
           \A j \in DOMAIN requests \ {i} : requests[j].sender # row.sender
    PROVE  /\ DOMAIN requests' = DOMAIN requests \cup {i} /\ requests'[i] = row
           /\ \A j \in DOMAIN requests \ {i} : requests'[j] = requests[j]
           /\ \A j \in DOMAIN requests' : requests'[j] \in Request
           /\ \A j, k \in DOMAIN requests' : requests'[j].sender = requests'[k].sender => j = k
<1>1. DOMAIN requests' = DOMAIN requests \cup {i} /\ requests'[i] = row
      /\ \A j \in DOMAIN requests \ {i} : requests'[j] = requests[j]
  BY DEF PutRow
<1>2. /\ \A j \in DOMAIN requests : requests[j] \in Request
      /\ \A j, k \in DOMAIN requests : requests[j].sender = requests[k].sender => j = k
  BY DEF SocialTypeOK
<1> QED
  BY <1>1, <1>2

\* A request is saved, pending.
LEMMA RequestSaved ==
    ASSUME SocialInv, NEW r \in SocialCalls, SaveRequest(r)
    PROVE  SocialInv' /\ messages' = messages
<1> DEFINE c == acting[r]
           own == IF c.op = "resend" THEN {c.id} ELSE {}
           taken == Taken(c.user, own)
           row == [sender |-> c.user, status |-> "pending"]
<1>1. /\ c.op \in {"insert", "resend"} /\ EndCall(r)
      /\ UNCHANGED <<blocks, following, messages, unread, agreed>>
  BY DEF SaveRequest
<1>2. ~Resting(r) /\ c.user \in Pair /\ (c.op = "resend" => c.id \in idsTaken)
  BY <1>1 DEF SocialInv, ActingOK, FriendCallOK, Resting, AtRest
<1>3. Back(r)
  BY <1>1, ComesBack
<1>4. CASE taken
  <2>1. UNCHANGED <<requests, idsTaken, offered, crossedSend>>
    BY <1>4 DEF SaveRequest
  <2>2. /\ ActingOK' /\ Strangers' /\ OnTheirWay' /\ acting'[r].op = "none"
        /\ \A q \in SocialCalls \ {r} : acting'[q] = acting[q]
        /\ \A q \in SocialCalls : acting'[q].op \in Steps
    BY <1>1, <1>2, <1>3, <2>1, Writes
  <2>3. SocialTypeOK'
    BY <1>1, <1>3, <2>1, <2>2 DEF SocialInv, SocialTypeOK, Back
  <2>4. Offered' /\ FriendsAgreed'
    BY <1>1, <2>1 DEF SocialInv, Offered, FriendsAgreed
  <2>5. OneRow'
    BY <2>1, <2>2 DEF SocialInv, OneRow
  <2> QED
    BY <1>1, <2>2, <2>3, <2>4, <2>5 DEF SocialInv
<1>5. CASE ~taken
  <2> DEFINE Crossed(i) == \/ (i \notin DOMAIN requests /\ c.op = "resend")
                           \/ \E q \in SocialCalls \ {r} : acting[q].op \in Sending
  <2>1. PICK i \in RequestIds :
          /\ IF c.op = "resend" THEN i = c.id ELSE i \notin idsTaken /\ \A j \in RequestIds \ idsTaken : i <= j
          /\ requests' = PutRow(i, row) /\ idsTaken' = idsTaken \cup {i}
          /\ crossedSend' = (crossedSend \/ Crossed(i))
    BY <1>5, Zenon DEF SaveRequest
  <2>2. offered' = offered \cup {c.user}
    BY <1>5 DEF SaveRequest
  <2>3. /\ crossedSend' \in BOOLEAN
        /\ ~crossedSend' => ~crossedSend /\ ~ (i \notin DOMAIN requests /\ c.op = "resend")
                            /\ \A q \in SocialCalls \ {r} : acting[q].op \notin Sending
    BY <2>1, Zenon
  <2> HIDE DEF Crossed
  <2>4. /\ ActingOK' /\ Strangers' /\ OnTheirWay' /\ acting'[r].op = "none"
        /\ \A q \in SocialCalls \ {r} : acting'[q] = acting[q]
        /\ \A q \in SocialCalls : acting'[q].op \in Steps
    BY <1>1, <1>2, <1>3, <2>1, <2>2, Writes
  <2>5. row \in Request /\ row.sender = c.user /\ row.status = "pending"
    BY <1>2 DEF Request, FriendRequestStatus
  <2>6. DOMAIN requests \subseteq idsTaken /\ idsTaken \subseteq RequestIds
    BY DEF SocialInv, SocialTypeOK
  <2>7. \A j \in DOMAIN requests \ {i} : requests[j].sender # row.sender
    BY <1>1, <1>5, <2>1, <2>5 DEF Taken
  <2>8. /\ DOMAIN requests' = DOMAIN requests \cup {i} /\ requests'[i] = row
        /\ \A j \in DOMAIN requests \ {i} : requests'[j] = requests[j]
        /\ \A j \in DOMAIN requests' : requests'[j] \in Request
        /\ \A j, k \in DOMAIN requests' : requests'[j].sender = requests'[k].sender => j = k
    BY <2>1, <2>5, <2>7, RowPut DEF SocialInv
  <2> HIDE DEF row
  <2>9. SocialTypeOK'
    <3>1. DOMAIN requests' \subseteq idsTaken' /\ idsTaken' \subseteq RequestIds /\ offered' \subseteq Pair
      BY <1>2, <2>1, <2>2, <2>6, <2>8 DEF SocialInv, SocialTypeOK
    <3>2. crossedBlock' \in BOOLEAN /\ late' \subseteq SocialCalls
      BY <1>3 DEF Back, SocialInv, SocialTypeOK
    <3> QED
      BY <1>1, <2>3, <2>4, <2>8, <3>1, <3>2 DEF SocialInv, SocialTypeOK
  <2>10. Offered' /\ FriendsAgreed'
    <3>1. ASSUME NEW j \in DOMAIN requests'
          PROVE  requests'[j].sender \in offered' /\ (requests'[j].status = "accepted" => Other(requests'[j].sender) \in agreed')
      <4>1. CASE j = i
        BY <2>2, <2>5, <2>8, <4>1
      <4>2. CASE j # i
        BY <1>1, <2>2, <2>8, <4>2 DEF SocialInv, Offered, FriendsAgreed
      <4> QED
        BY <4>1, <4>2
    <3> QED
      BY <3>1 DEF Offered, FriendsAgreed
  <2>11. OneRow'
    <3> SUFFICES ASSUME ~crossedSend' PROVE (\A j, k \in DOMAIN requests' : j = k)
                      /\ \A q \in SocialCalls : acting'[q].op # "insert"
      BY DEF OneRow
    <3>1. /\ \A q \in SocialCalls \ {r} : acting[q].op \notin Sending
          /\ \A j, k \in DOMAIN requests : j = k
          /\ acting[r].op = "insert" => DOMAIN requests = {}
      BY <2>3 DEF SocialInv, OneRow
    <3>2. i \in DOMAIN requests \/ DOMAIN requests = {}
      BY <1>1, <2>3, <3>1
    <3> QED
      BY <2>4, <2>8, <3>1, <3>2 DEF Sending
  <2> QED
    BY <1>1, <2>4, <2>9, <2>10, <2>11 DEF SocialInv
<1> QED
  BY <1>4, <1>5

\* An answer is saved, by whom the request was sent to.
LEMMA AnswerSaved ==
    ASSUME SocialInv, NEW r \in SocialCalls, SaveAnswer(r)
    PROVE  SocialInv' /\ messages' = messages
<1> DEFINE c == acting[r]
           taken == Taken(c.row.sender, {c.id})
<1>1. /\ c.op = "answer" /\ EndCall(r)
      /\ UNCHANGED <<blocks, following, messages, unread, idsTaken, offered>>
      /\ requests' = IF taken THEN requests ELSE PutRow(c.id, c.row)
      /\ agreed' = IF c.row.status = "accepted" THEN agreed \cup {c.user} ELSE agreed
  BY DEF SaveAnswer
<1>2. crossedSend' \in BOOLEAN /\ (~crossedSend' => ~crossedSend /\ c.id \in DOMAIN requests)
  BY Zenon DEF SaveAnswer
<1>3. /\ ~Resting(r) /\ c.user \in Pair /\ c.id \in idsTaken /\ c.row \in Request
      /\ c.row.sender \in offered /\ c.user = Other(c.row.sender)
  BY <1>1 DEF SocialInv, ActingOK, FriendCallOK, Resting, AtRest
<1>4. Back(r)
  BY <1>1, ComesBack
<1>5. /\ ActingOK' /\ Strangers' /\ OnTheirWay' /\ acting'[r].op = "none"
      /\ \A q \in SocialCalls \ {r} : acting'[q] = acting[q]
      /\ \A q \in SocialCalls : acting'[q].op \in Steps
  BY <1>1, <1>3, <1>4, Writes
<1>6. DOMAIN requests \subseteq idsTaken /\ idsTaken \subseteq RequestIds
  BY DEF SocialInv, SocialTypeOK
<1>7. /\ agreed \subseteq agreed' /\ agreed' \subseteq Pair /\ crossedBlock' \in BOOLEAN /\ late' \subseteq SocialCalls
      /\ c.row.status = "accepted" => c.user \in agreed'
  BY <1>1, <1>3, <1>4 DEF SocialInv, SocialTypeOK, Back
<1>8. CASE taken
  <2>1. requests' = requests
    BY <1>1, <1>8
  <2>2. SocialTypeOK'
    BY <1>1, <1>2, <1>5, <1>7, <2>1 DEF SocialInv, SocialTypeOK
  <2>3. Offered' /\ FriendsAgreed'
    BY <1>1, <1>7, <2>1 DEF SocialInv, Offered, FriendsAgreed
  <2>4. OneRow'
    BY <1>2, <1>5, <2>1 DEF SocialInv, OneRow
  <2> QED
    BY <1>1, <1>5, <2>2, <2>3, <2>4 DEF SocialInv
<1>9. CASE ~taken
  <2>1. requests' = PutRow(c.id, c.row)
    BY <1>1, <1>9
  <2>2. \A j \in DOMAIN requests \ {c.id} : requests[j].sender # c.row.sender
    BY <1>9 DEF Taken
  <2>3. /\ DOMAIN requests' = DOMAIN requests \cup {c.id} /\ requests'[c.id] = c.row
        /\ \A j \in DOMAIN requests \ {c.id} : requests'[j] = requests[j]
        /\ \A j \in DOMAIN requests' : requests'[j] \in Request
        /\ \A j, k \in DOMAIN requests' : requests'[j].sender = requests'[k].sender => j = k
    BY <1>3, <1>6, <2>1, <2>2, RowPut DEF SocialInv
  <2>4. SocialTypeOK'
    <3>1. DOMAIN requests' \subseteq idsTaken'
      BY <1>1, <1>3, <1>6, <2>3
    <3> QED
      BY <1>1, <1>2, <1>5, <1>7, <2>3, <3>1 DEF SocialInv, SocialTypeOK
  <2>5. Offered' /\ FriendsAgreed'
    <3>1. ASSUME NEW j \in DOMAIN requests'
          PROVE  requests'[j].sender \in offered' /\ (requests'[j].status = "accepted" => Other(requests'[j].sender) \in agreed')
      <4>1. CASE j = c.id
        BY <1>1, <1>3, <1>7, <2>3, <4>1
      <4>2. CASE j # c.id
        BY <1>1, <1>7, <2>3, <4>2 DEF SocialInv, Offered, FriendsAgreed
      <4> QED
        BY <4>1, <4>2
    <3> QED
      BY <3>1 DEF Offered, FriendsAgreed
  <2>6. OneRow'
    <3> SUFFICES ASSUME ~crossedSend' PROVE (\A j, k \in DOMAIN requests' : j = k)
                      /\ \A q \in SocialCalls : acting'[q].op = "insert" => DOMAIN requests' = {}
      BY DEF OneRow
    <3>1. c.id \in DOMAIN requests /\ DOMAIN requests' = DOMAIN requests
      BY <1>2, <2>3
    <3> QED
      BY <1>2, <1>5, <3>1 DEF SocialInv, OneRow
  <2> QED
    BY <1>1, <1>5, <2>4, <2>5, <2>6 DEF SocialInv
<1> QED
  BY <1>8, <1>9

\* A row is deleted.
LEMMA RequestDeleted ==
    ASSUME SocialInv, NEW r \in SocialCalls, DeleteRequest(r)
    PROVE  SocialInv' /\ messages' = messages
<1>1. /\ acting[r].op = "delete" /\ requests' = DropRow(acting[r].id)
      /\ Goes(r, AtRest) /\ late' = late \ {r}
      /\ UNCHANGED <<blocks, following, messages, unread, idsTaken, offered, agreed, crossedBlock, crossedSend>>
  BY DEF DeleteRequest, Histories, Goes, FriendCallOK, AtRest, Steps
<1>2. ActingOK' /\ acting'[r] = AtRest /\ \A q \in SocialCalls \ {r} : acting'[q] = acting[q]
  BY <1>1, OthersAct DEF SocialInv
<1>3. acting'[r].op = "none" /\ \A q \in SocialCalls : acting'[q].op \in Steps
  BY <1>2 DEF ActingOK, FriendCallOK, AtRest
<1>4. DOMAIN requests' \subseteq DOMAIN requests /\ \A j \in DOMAIN requests' : requests'[j] = requests[j]
  BY <1>1 DEF DropRow
<1>5. requests = << >> => requests' = << >>
  <2> SUFFICES ASSUME requests = << >> PROVE requests' = << >>
    OBVIOUS
  <2>1. DOMAIN requests \ {acting[r].id} = {}
    OBVIOUS
  <2>2. requests' = [j \in {} |-> requests[j]]
    BY <1>1, <2>1 DEF DropRow
  <2> QED
    BY <2>2
<1>6. SocialTypeOK'
  BY <1>1, <1>3, <1>4 DEF SocialInv, SocialTypeOK
<1>7. Offered' /\ FriendsAgreed'
  BY <1>1, <1>4 DEF SocialInv, Offered, FriendsAgreed
<1>8. Strangers'
  BY <1>1, <1>2, <1>5 DEF SocialInv, Strangers, Resting
<1>9. OnTheirWay'
  BY <1>1, <1>2, <1>3 DEF SocialInv, OnTheirWay
<1>10. OneRow'
  BY <1>1, <1>2, <1>3, <1>4 DEF SocialInv, OneRow
<1> QED
  BY <1>1, <1>2, <1>6, <1>7, <1>8, <1>9, <1>10 DEF SocialInv

\* Every step of the friend requests.
LEMMA StepFriends == SocialInv /\ FriendsNext => SocialInv' /\ messages' = messages
<1> SUFFICES ASSUME SocialInv, NEW r \in SocialCalls,
                    \/ LookForRequest(r) \/ SaveRequest(r) \/ SaveAnswer(r) \/ DeleteRequest(r)
                    \/ \E u \in Pair : sendRequest(r, u)
                    \/ \E u \in Pair, i \in RequestIds :
                        \/ cancelRequest(r, u, i) \/ removeFriend(r, u, i)
                        \/ \E status \in {"accepted", "rejected"} : updateRequestStatus(r, u, i, status)
             PROVE  SocialInv' /\ messages' = messages
  BY DEF FriendsNext
<1>0. /\ DOMAIN requests \subseteq idsTaken
      /\ \A i \in DOMAIN requests : requests[i] \in Request /\ requests[i].sender \in offered
      /\ (DOMAIN requests # {}) => (requests # << >>)
  BY DEF SocialInv, SocialTypeOK, Offered
<1>1. CASE LookForRequest(r)
  <2>1. acting[r].op = "look" /\ acting[r].user \in Pair /\ ~Resting(r)
    BY <1>1 DEF LookForRequest, SocialInv, ActingOK, FriendCallOK, Resting, AtRest
  <2>2. CASE requests = << >> /\ Proceed(r, [op |-> "insert", user |-> acting[r].user])
    <3>1. FriendCallOK([op |-> "insert", user |-> acting[r].user], idsTaken, offered)
      BY <2>1 DEF FriendCallOK, Steps
    <3> QED
      BY <2>1, <2>2, <3>1, GoesOn
  <2>3. CASE Proceed(r, AtRest)
    <3>1. FriendCallOK(AtRest, idsTaken, offered) /\ AtRest.op = "none"
      BY DEF FriendCallOK, AtRest, Steps
    <3> QED
      BY <2>1, <2>3, <3>1, GoesOn
  <2>4. ASSUME NEW i \in DOMAIN requests, Proceed(r, [op |-> "resend", user |-> acting[r].user, id |-> i])
        PROVE  SocialInv' /\ messages' = messages
    <3>1. FriendCallOK([op |-> "resend", user |-> acting[r].user, id |-> i], idsTaken, offered)
      BY <1>0, <2>1 DEF FriendCallOK, Steps
    <3> QED
      BY <2>1, <2>4, <3>1, GoesOn
  <2> QED
    BY <1>1, <2>2, <2>3, <2>4 DEF LookForRequest
<1>2. ASSUME NEW u \in Pair, sendRequest(r, u) PROVE SocialInv' /\ messages' = messages
  <2>1. blocks = {} /\ Checked(r, [op |-> "look", user |-> u])
    BY <1>2 DEF sendRequest
  <2>2. FriendCallOK([op |-> "look", user |-> u], idsTaken, offered)
    BY DEF FriendCallOK, Steps
  <2> QED
    BY <2>1, <2>2, Begins
<1>3. ASSUME NEW u \in Pair, NEW i \in RequestIds, cancelRequest(r, u, i) \/ removeFriend(r, u, i)
      PROVE  SocialInv' /\ messages' = messages
  <2>1. i \in DOMAIN requests /\ Checked(r, [op |-> "delete", user |-> u, id |-> i])
    BY <1>3 DEF cancelRequest, removeFriend
  <2>2. FriendCallOK([op |-> "delete", user |-> u, id |-> i], idsTaken, offered)
    BY <1>0, <2>1 DEF FriendCallOK, Steps
  <2>3. requests # << >>
    BY <1>0, <2>1
  <2> QED
    BY <2>1, <2>2, <2>3, Begins
<1>4. ASSUME NEW u \in Pair, NEW i \in RequestIds, NEW status \in {"accepted", "rejected"},
             updateRequestStatus(r, u, i, status)
      PROVE  SocialInv' /\ messages' = messages
  <2> DEFINE row == [requests[i] EXCEPT !.status = status]
  <2>1. /\ i \in DOMAIN requests /\ requests[i].sender = Other(u)
        /\ Checked(r, [op |-> "answer", user |-> u, id |-> i, row |-> row])
    BY <1>4 DEF updateRequestStatus
  <2>2. row \in Request /\ row.sender = requests[i].sender
    BY <1>0, <2>1 DEF Request, FriendRequestStatus
  <2>3. u = Other(row.sender)
    BY <2>1, <2>2, TwoPeople
  <2>4. row.sender \in offered
    BY <1>0, <2>1, <2>2
  <2> HIDE DEF row
  <2>5. FriendCallOK([op |-> "answer", user |-> u, id |-> i, row |-> row], idsTaken, offered)
    BY <1>0, <2>1, <2>2, <2>3, <2>4 DEF FriendCallOK, Steps
  <2>6. requests # << >>
    BY <1>0, <2>1
  <2> QED
    BY <2>1, <2>5, <2>6, Begins
<1> QED
  BY <1>1, <1>2, <1>3, <1>4, RequestSaved, AnswerSaved, RequestDeleted

\* Every step of the follows and messages, and what of them may pass a block.
LEMMA StepChat == SocialInv /\ ChatNext => SocialInv' /\ NoMessageThroughBlock
<1> SUFFICES ASSUME SocialInv, ChatNext PROVE SocialInv' /\ NoMessageThroughBlock
  OBVIOUS
<1>0. /\ messages \in [Pair -> 0..MaxMessages] /\ unread \in [Pair -> 0..MaxMessages] /\ MaxMessages \in Nat
      /\ \A u \in Pair : unread[u] <= messages[u]
  BY PairAssumption DEF SocialInv, SocialTypeOK
<1>a. messages' = messages => NoMessageThroughBlock
  BY <1>0 DEF NoMessageThroughBlock
<1>1. ASSUME NEW r \in SocialCalls, SaveFollow(r) PROVE SocialInv' /\ messages' = messages
  <2>1. /\ acting[r].op = "follow" /\ following' = following \cup {acting[r].user} /\ EndCall(r)
        /\ UNCHANGED <<blocks, requests, messages, unread, idsTaken, offered, agreed, crossedSend>>
    BY <1>1 DEF SaveFollow
  <2>2. ~Resting(r) /\ acting[r].user \in Pair
    BY <2>1 DEF SocialInv, ActingOK, FriendCallOK, Resting, AtRest
  <2>3. Back(r)
    BY <2>1, ComesBack
  <2>4. /\ ActingOK' /\ Strangers' /\ OnTheirWay' /\ acting'[r].op = "none"
        /\ \A q \in SocialCalls \ {r} : acting'[q] = acting[q]
        /\ \A q \in SocialCalls : acting'[q].op \in Steps
    BY <2>1, <2>2, <2>3, Writes
  <2>5. SocialTypeOK'
    <3>1. crossedBlock' \in BOOLEAN /\ late' \subseteq SocialCalls /\ following' \subseteq Pair
      BY <2>1, <2>2, <2>3 DEF Back, SocialInv, SocialTypeOK
    <3> QED
      BY <2>1, <2>4, <3>1 DEF SocialInv, SocialTypeOK
  <2>6. Offered' /\ FriendsAgreed'
    BY <2>1 DEF SocialInv, Offered, FriendsAgreed
  <2>7. OneRow'
    BY <2>1, <2>4 DEF SocialInv, OneRow
  <2> QED
    BY <2>1, <2>4, <2>5, <2>6, <2>7 DEF SocialInv
<1>2. ASSUME NEW r \in SocialCalls, CheckFriends(r) PROVE SocialInv' /\ messages' = messages
  <2>1. /\ acting[r].op = "message" /\ ~Resting(r) /\ acting[r].user \in Pair
        /\ acting[r] = [op |-> "message", user |-> acting[r].user]
    BY <1>2 DEF CheckFriends, SocialInv, ActingOK, FriendCallOK, Resting, AtRest
  <2>2. CASE Proceed(r, AtRest)
    <3>1. FriendCallOK(AtRest, idsTaken, offered) /\ AtRest.op = "none"
      BY DEF FriendCallOK, AtRest, Steps
    <3> QED
      BY <2>1, <2>2, <3>1, GoesOn
  <2>3. CASE Proceed(r, [acting[r] EXCEPT !.op = "deliver"])
    <3> DEFINE call == [acting[r] EXCEPT !.op = "deliver"]
    <3>1. call.op = "deliver" /\ call.user = acting[r].user
      BY <2>1
    <3> HIDE DEF call
    <3>2. FriendCallOK(call, idsTaken, offered) /\ call.op # "insert"
      BY <2>1, <3>1 DEF FriendCallOK, Steps
    <3>3. Proceed(r, call)
      BY <2>3 DEF call
    <3> QED
      BY <2>1, <3>2, <3>3, GoesOn
  <2> QED
    BY <1>2, <2>2, <2>3 DEF CheckFriends
<1>3. ASSUME NEW r \in SocialCalls, DeliverMessage(r) PROVE SocialInv' /\ NoMessageThroughBlock
  <2> DEFINE u == acting[r].user
  <2>1. /\ acting[r].op = "deliver" /\ messages[u] < MaxMessages
        /\ messages' = [messages EXCEPT ![u] = @ + 1] /\ unread' = [unread EXCEPT ![u] = @ + 1]
        /\ EndCall(r) /\ UNCHANGED <<blocks, following, requests, idsTaken, offered, agreed, crossedSend>>
    BY <1>3 DEF DeliverMessage
  <2>2. ~Resting(r) /\ u \in Pair
    BY <2>1 DEF SocialInv, ActingOK, FriendCallOK, Resting, AtRest
  <2>3. Back(r)
    BY <2>1, ComesBack
  <2>4. /\ ActingOK' /\ Strangers' /\ OnTheirWay' /\ acting'[r].op = "none"
        /\ \A q \in SocialCalls \ {r} : acting'[q] = acting[q]
        /\ \A q \in SocialCalls : acting'[q].op \in Steps
    BY <2>1, <2>2, <2>3, Writes
  <2> HIDE DEF u
  <2>5. /\ messages' \in [Pair -> 0..MaxMessages] /\ unread' \in [Pair -> 0..MaxMessages]
        /\ \A v \in Pair : unread'[v] <= messages'[v]
        /\ \A v \in Pair \ {u} : messages'[v] = messages[v]
    <3>1. messages[u] \in 0..MaxMessages /\ unread[u] \in 0..MaxMessages /\ unread[u] <= messages[u]
      BY <1>0, <2>2
    <3>2. messages[u] + 1 \in 0..MaxMessages /\ unread[u] + 1 \in 0..MaxMessages
      BY <1>0, <2>1, <3>1
    <3> QED
      BY <1>0, <2>1, <2>2, <3>1, <3>2
  <2>6. SocialTypeOK'
    <3>1. crossedBlock' \in BOOLEAN /\ late' \subseteq SocialCalls
      BY <2>3 DEF Back, SocialInv, SocialTypeOK
    <3> QED
      BY <2>1, <2>4, <2>5, <3>1 DEF SocialInv, SocialTypeOK
  <2>7. Offered' /\ FriendsAgreed'
    BY <2>1 DEF SocialInv, Offered, FriendsAgreed
  <2>8. OneRow'
    BY <2>1, <2>4 DEF SocialInv, OneRow
  <2>9. blocks = {} \/ r \in late
    BY <2>1 DEF SocialInv, OnTheirWay
  <2>10. NoMessageThroughBlock
    <3>1. \A v \in Pair : messages'[v] > messages[v] => v = u
      BY <1>0, <2>5
    <3>2. \A v \in Pair : messages'[v] > messages[v] =>
             blocks = {} \/ \E q \in late : acting[q].op = "deliver" /\ acting[q].user = v
      BY <2>1, <2>9, <3>1 DEF u
    <3> QED
      BY <3>2 DEF NoMessageThroughBlock
  <2> QED
    BY <2>4, <2>6, <2>7, <2>8, <2>10 DEF SocialInv
<1>4. ASSUME NEW r \in SocialCalls, NEW u \in Pair, followUser(r, u) \/ sendMessage(r, u)
      PROVE  SocialInv' /\ messages' = messages
  <2>1. PICK op \in {"follow", "message"} : blocks = {} /\ Checked(r, [op |-> op, user |-> u])
    BY <1>4 DEF followUser, sendMessage
  <2>2. FriendCallOK([op |-> op, user |-> u], idsTaken, offered)
    BY DEF FriendCallOK, Steps
  <2> QED
    BY <2>1, <2>2, Begins
<1>5. ASSUME NEW u \in Pair, unfollowUser(u) PROVE SocialInv' /\ messages' = messages
  <2>1. /\ following' \subseteq following
        /\ UNCHANGED <<blocks, requests, messages, unread, idsTaken, acting, late, offered, agreed, crossedBlock, crossedSend>>
    BY <1>5 DEF unfollowUser, Histories
  <2>2. SocialTypeOK'
    BY <2>1 DEF SocialInv, SocialTypeOK
  <2>3. ActingOK' /\ Offered' /\ FriendsAgreed' /\ OnTheirWay' /\ OneRow'
    BY <2>1 DEF SocialInv, ActingOK, Offered, FriendsAgreed, OnTheirWay, OneRow
  <2>4. Strangers'
    BY <2>1 DEF SocialInv, Strangers, Resting
  <2> QED
    BY <2>1, <2>2, <2>3, <2>4 DEF SocialInv
<1>6. ASSUME NEW u \in Pair, markRead(u) PROVE SocialInv' /\ messages' = messages
  <2>1. /\ unread' = [unread EXCEPT ![Other(u)] = 0]
        /\ UNCHANGED <<blocks, following, requests, messages, idsTaken, acting, late, offered, agreed, crossedBlock, crossedSend>>
    BY <1>6 DEF markRead, Histories
  <2>2. unread' \in [Pair -> 0..MaxMessages] /\ \A v \in Pair : unread'[v] <= messages[v]
    <3> DEFINE o == Other(u)
    <3>1. unread' = [unread EXCEPT ![o] = 0]
      BY <2>1
    <3> HIDE DEF o
    <3>2. 0 \in 0..MaxMessages /\ \A v \in Pair : messages[v] \in 0..MaxMessages
      BY <1>0
    <3>3. unread' \in [Pair -> 0..MaxMessages]
      BY <1>0, <3>1, <3>2
    <3>4. \A v \in Pair : unread'[v] = IF v = o THEN 0 ELSE unread[v]
      BY <1>0, <3>1
    <3> QED
      BY <1>0, <3>2, <3>3, <3>4
  <2>3. SocialTypeOK'
    BY <2>1, <2>2 DEF SocialInv, SocialTypeOK
  <2>4. ActingOK' /\ Offered' /\ FriendsAgreed' /\ OnTheirWay' /\ OneRow'
    BY <2>1 DEF SocialInv, ActingOK, Offered, FriendsAgreed, OnTheirWay, OneRow
  <2>5. Strangers'
    BY <2>1 DEF SocialInv, Strangers, Resting
  <2> QED
    BY <2>1, <2>3, <2>4, <2>5 DEF SocialInv
<1> QED
  BY <1>a, <1>1, <1>2, <1>3, <1>4, <1>5, <1>6 DEF ChatNext

\* A block comes or goes.
LEMMA StepBlocks == SocialInv /\ BlocksNext => SocialInv' /\ messages' = messages
<1> SUFFICES ASSUME SocialInv, NEW u \in Pair, blockUser(u) \/ unblockUser(u)
             PROVE  SocialInv' /\ messages' = messages
  BY DEF BlocksNext
<1>1. CASE blockUser(u)
  <2>1. /\ blocks' = blocks \cup {u} /\ following' = {} /\ requests' = << >>
        /\ late' = {r \in SocialCalls : ~Resting(r)}
        /\ UNCHANGED <<messages, unread, idsTaken, acting, offered, agreed, crossedBlock, crossedSend>>
    BY <1>1 DEF blockUser, Histories
  <2>2. DOMAIN requests' = {}
    BY <2>1
  <2>3. SocialTypeOK'
    BY <2>1, <2>2 DEF SocialInv, SocialTypeOK
  <2>4. ActingOK'
    BY <2>1 DEF SocialInv, ActingOK
  <2>5. Offered' /\ FriendsAgreed' /\ OneRow'
    BY <2>2 DEF Offered, FriendsAgreed, OneRow
  <2>6. Strangers'
    BY <2>1 DEF Strangers, Resting
  <2>7. OnTheirWay'
    BY <2>1 DEF OnTheirWay, Resting, AtRest
  <2> QED
    BY <2>1, <2>3, <2>4, <2>5, <2>6, <2>7 DEF SocialInv
<1>2. CASE unblockUser(u)
  <2>1. /\ blocks' = blocks \ {u}
        /\ UNCHANGED <<following, requests, messages, unread, idsTaken, acting, late, offered, agreed, crossedBlock, crossedSend>>
    BY <1>2 DEF unblockUser, Histories
  <2>2. blocks' # {} => blocks # {}
    BY <2>1
  <2>3. SocialTypeOK'
    BY <2>1 DEF SocialInv, SocialTypeOK
  <2>4. ActingOK' /\ Offered' /\ FriendsAgreed' /\ OneRow'
    BY <2>1 DEF SocialInv, ActingOK, Offered, FriendsAgreed, OneRow
  <2>5. Strangers' /\ OnTheirWay'
    BY <2>1, <2>2 DEF SocialInv, Strangers, OnTheirWay, Resting
  <2> QED
    BY <2>1, <2>3, <2>4, <2>5 DEF SocialInv
<1> QED
  BY <1>1, <1>2

\* Every step of the two.
LEMMA StepSocial == SocialInv /\ [SocialNext]_socialVars => SocialInv' /\ NoMessageThroughBlock
<1> SUFFICES ASSUME SocialInv, [SocialNext]_socialVars PROVE SocialInv' /\ NoMessageThroughBlock
  OBVIOUS
<1>1. messages \in [Pair -> 0..MaxMessages] /\ MaxMessages \in Nat
  BY PairAssumption DEF SocialInv, SocialTypeOK
<1>2. messages' = messages => NoMessageThroughBlock
  BY <1>1 DEF NoMessageThroughBlock
<1>3. CASE UNCHANGED socialVars
  <2>1. UNCHANGED <<blocks, following, requests, messages, unread, acting, idsTaken,
                    offered, agreed, late, crossedBlock, crossedSend>>
    BY <1>3 DEF socialVars
  <2>2. SocialTypeOK'
    BY <2>1 DEF SocialInv, SocialTypeOK
  <2>3. ActingOK' /\ Offered' /\ FriendsAgreed' /\ OneRow'
    BY <2>1 DEF SocialInv, ActingOK, Offered, FriendsAgreed, OneRow
  <2>4. Strangers' /\ OnTheirWay'
    BY <2>1 DEF SocialInv, Strangers, OnTheirWay, Resting
  <2> QED
    BY <1>2, <2>1, <2>2, <2>3, <2>4 DEF SocialInv
<1> QED
  BY <1>2, <1>3, StepFriends, StepChat, StepBlocks DEF SocialNext

\* What the invariant means for the two.
LEMMA SocialMeans == SocialInv => SocialTypeOK /\ BlockedAreStrangers /\ FriendsAgreed /\ OneRowPerPair
<1> SUFFICES ASSUME SocialInv PROVE BlockedAreStrangers /\ OneRowPerPair
  BY DEF SocialInv
<1>1. BlockedAreStrangers
  BY DEF SocialInv, Strangers, BlockedAreStrangers
<1>2. OneRowPerPair
  <2> SUFFICES ASSUME ~crossedSend PROVE Cardinality(DOMAIN requests) <= 1
    BY DEF OneRowPerPair
  <2> DEFINE D == DOMAIN requests
  <2>1. \A i, j \in D : i = j
    BY DEF SocialInv, OneRow
  <2>2. D = {} \/ \E i : D = {i}
    <3> HIDE DEF D
    <3>1. ASSUME NEW i \in D PROVE D = {i}
      BY <2>1
    <3> QED
      BY <3>1
  <2> HIDE DEF D
  <2>3. Cardinality(D) = 0 \/ Cardinality(D) = 1
    BY <2>2, FS_EmptySet, FS_Singleton
  <2> QED
    BY <2>3 DEF D
<1> QED
  BY <1>1, <1>2

-----------------------------------------------------------------------------
(* The notices *)

Categories == DOMAIN createDefaultSettings
Preferences == [Categories -> [push : BOOLEAN, sms : BOOLEAN, inApp : BOOLEAN]]

\* The values of a category are those of its channels.
LEMMA ChannelValues ==
    ASSUME NEW v \in [push : BOOLEAN, sms : BOOLEAN, inApp : BOOLEAN]
    PROVE  /\ v = [c \in Channels |-> v[c]] /\ \A c \in Channels : v[c] \in BOOLEAN
BY DEF Channels

\* One channel of a preference is set.
LEMMA ChangedValues ==
    ASSUME NEW v \in [push : BOOLEAN, sms : BOOLEAN, inApp : BOOLEAN], NEW ch \in Channels, NEW on \in BOOLEAN
    PROVE  /\ [v EXCEPT ![ch] = on] \in [push : BOOLEAN, sms : BOOLEAN, inApp : BOOLEAN]
           /\ [v EXCEPT ![ch] = on][ch] = on
           /\ \A x \in Channels \ {ch} : [v EXCEPT ![ch] = on][x] = v[x]
BY DEF Channels

\* A change of one preference leaves the others.
LEMMA OnePreference ==
    ASSUME NEW copy \in Preferences, NEW t \in Toggles, NEW on \in BOOLEAN
    PROVE  /\ [copy EXCEPT ![t[1]][t[2]] = on] \in Preferences
           /\ [copy EXCEPT ![t[1]][t[2]] = on][t[1]][t[2]] = on
           /\ \A x \in Toggles \ {t} : [copy EXCEPT ![t[1]][t[2]] = on][x[1]][x[2]] = copy[x[1]][x[2]]
<1>1. \A x \in Toggles : x[1] \in Categories /\ x[2] \in Channels /\ x = <<x[1], x[2]>>
  BY TogglesAssumption DEF Categories
<1> DEFINE v == copy[t[1]]
           w == [v EXCEPT ![t[2]] = on]
           new == [copy EXCEPT ![t[1]] = w]
<1>2. v \in [push : BOOLEAN, sms : BOOLEAN, inApp : BOOLEAN]
  BY <1>1 DEF Preferences
<1>3. /\ w \in [push : BOOLEAN, sms : BOOLEAN, inApp : BOOLEAN] /\ w[t[2]] = on
      /\ \A x \in Channels \ {t[2]} : w[x] = v[x]
  BY <1>1, <1>2, ChangedValues
<1>4. new = [copy EXCEPT ![t[1]][t[2]] = on]
  BY DEF Preferences
<1> HIDE DEF w
<1>5. new \in Preferences /\ new[t[1]] = w /\ \A c \in Categories \ {t[1]} : new[c] = copy[c]
  BY <1>1, <1>3 DEF Preferences
<1> HIDE DEF new
<1>6. ASSUME NEW x \in Toggles \ {t} PROVE new[x[1]][x[2]] = copy[x[1]][x[2]]
  <2>1. CASE x[1] = t[1]
    <3>1. x[2] # t[2]
      BY <1>1, <2>1
    <3> QED
      BY <1>1, <1>3, <1>5, <2>1, <3>1
  <2>2. CASE x[1] # t[1]
    BY <1>1, <1>5, <2>2
  <2> QED
    BY <2>1, <2>2
<1> QED
  BY <1>3, <1>4, <1>5, <1>6

\* What the listener sends has a category of preferences, and no code is pushed.
RouteOK(route) ==
    /\ route.category \in Categories
    /\ route.type \in Sensitive => "push" \notin route.carries

TableOK(table) == \A event \in DOMAIN table : RouteOK(table[event])

\* Every event has a route.
LEMMA AllRoutes == \A event \in Told : RouteOK(RouteOf(event))
<1>1. Categories = {"campaignUpdates", "paymentConfirmations", "socialInteractions", "securityAlerts"}
  BY DEF Categories, createDefaultSettings
<1>2. TableOK(AccountRoutes)
  BY <1>1 DEF TableOK, RouteOK, AccountRoutes, Route, Sensitive
<1>3. TableOK(CampaignRoutes)
  BY <1>1 DEF TableOK, RouteOK, CampaignRoutes, Route, Sensitive
<1>4. TableOK(PasswordRoutes)
  BY <1>1 DEF TableOK, RouteOK, PasswordRoutes, Route, Sensitive
<1>5. TableOK(KycRoutes)
  BY <1>1 DEF TableOK, RouteOK, KycRoutes, Route, Sensitive
<1>6. TableOK(BillRoutes)
  BY <1>1 DEF TableOK, RouteOK, BillRoutes, Share, Route, Sensitive
<1>7. TableOK(ShareRoutes)
  BY <1>1 DEF TableOK, RouteOK, ShareRoutes, Share, Route, Sensitive
<1>8. TableOK(MoneyRoutes)
  BY <1>1 DEF TableOK, RouteOK, MoneyRoutes, Route, Sensitive
<1>9. \A table \in Routes : TableOK(table)
  BY <1>2, <1>3, <1>4, <1>5, <1>6, <1>7, <1>8 DEF Routes
<1>10. ASSUME NEW event \in Told PROVE RouteOK(RouteOf(event))
  <2> DEFINE table == CHOOSE table \in Routes : event \in DOMAIN table
  <2>1. \E t \in Routes : event \in DOMAIN t
    BY DEF Told
  <2>2. table \in Routes /\ event \in DOMAIN table
    BY <2>1
  <2>3. RouteOf(event) = table[event]
    BY DEF RouteOf
  <2> HIDE DEF table
  <2> QED
    BY <1>9, <2>2, <2>3 DEF TableOK
<1> QED
  BY <1>10

\* A request that changes the preferences holds a copy that is right but for what it and the
\* requests that overlap with it change.
EditorOK(d) ==
    \/ editor[d] = NoEdit
    \/ /\ editor[d].at = "read" /\ editor[d].copy \in Preferences
       /\ editor[d].change \in Toggles /\ editor[d].on \in BOOLEAN
       /\ \A t \in Toggles \ crossed :
            t # editor[d].change => editor[d].copy[t[1]][t[2]] = prefs[t[1]][t[2]]

PrefsInv ==
    /\ prefs \in Preferences /\ DOMAIN wanted \subseteq Toggles /\ crossed \subseteq Toggles
    /\ changes \in 0..MaxChanges /\ editor = [d \in Editors |-> editor[d]]
    /\ \A d \in Editors : EditorOK(d)
    /\ \A d, e \in Holding : d # e => editor[d].change \in crossed
    /\ ChangesAreKept

\* The notice that is under way: what it carries and prefers was read when it was sent; a
\* channel it has left by was on; every insert that was due made a row or failed.
NoticeOK(n) ==
    /\ n = [at |-> n.at, route |-> n.route, copy |-> n.copy, left |-> n.left, rows |-> n.rows, lost |-> n.lost]
    /\ n.at \in {"first", "second", "push", "sms", "whatsapp", "email", "ended"}
    /\ RouteOK(n.route) /\ n.rows \in Nat /\ n.lost \in Nat
    /\ n.rows + n.lost <= (IF n.at = "first" THEN 0 ELSE IF n.at = "second" \/ n.route.type \in Sensitive THEN 1 ELSE 2)
    /\ n.at = "second" /\ n.route.type \in Sensitive => n.rows + n.lost = 0
    /\ n.route.type \in AlwaysKept =>
         /\ n.at = "second" => n.rows + n.lost = 1
         /\ n.at \notin {"first", "second"} => n.rows + n.lost = 2
    /\ "push" \in n.left => n.copy["push"] /\ n.route.type \notin Sensitive
    /\ "sms" \in n.left => n.copy["sms"]

NoticesInv == PrefsInv /\ (notice = NoNotice \/ NoticeOK(notice))

\* The settings begin as the defaults, and nothing is on its way.
LEMMA NoticesInits == NoticesInit => NoticesInv
<1> SUFFICES ASSUME NoticesInit PROVE NoticesInv
  OBVIOUS
<1>1. /\ prefs = createDefaultSettings /\ editor = [d \in Editors |-> NoEdit]
      /\ wanted = << >> /\ crossed = {} /\ changes = 0 /\ notice = NoNotice
  BY DEF NoticesInit
<1>2. createDefaultSettings \in Preferences
  <2>1. \A s : On(s) \in [push : BOOLEAN, sms : BOOLEAN, inApp : BOOLEAN]
    BY DEF On
  <2> QED
    BY <2>1 DEF Preferences, Categories, createDefaultSettings
<1>3. DOMAIN wanted = {} /\ \A d \in Editors : editor[d] = NoEdit
  BY <1>1
<1>4. Holding = {}
  BY <1>3 DEF Holding, NoEdit
<1>5. 0 \in 0..MaxChanges
  BY TogglesAssumption
<1> QED
  BY <1>1, <1>2, <1>3, <1>4, <1>5 DEF NoticesInv, PrefsInv, EditorOK, ChangesAreKept

\* Every step of the preferences.
LEMMA StepPrefs ==
    ASSUME PrefsInv, NEW d \in Editors,
           updatePreferences(d) \/ \E toggle \in Toggles, on \in BOOLEAN : ReadSettings(d, toggle, on)
    PROVE  PrefsInv'
<1>1. /\ prefs \in Preferences /\ DOMAIN wanted \subseteq Toggles /\ crossed \subseteq Toggles
      /\ changes \in 0..MaxChanges /\ editor = [x \in Editors |-> editor[x]]
      /\ \A x \in Editors : EditorOK(x)
      /\ \A x, e \in Holding : x # e => editor[x].change \in crossed
      /\ \A t \in DOMAIN wanted \ crossed : prefs[t[1]][t[2]] = wanted[t]
  BY DEF PrefsInv, ChangesAreKept
<1>2. ASSUME NEW x \in Holding
      PROVE  /\ x \in Editors /\ editor[x].at = "read" /\ editor[x].copy \in Preferences
             /\ editor[x].change \in Toggles /\ editor[x].on \in BOOLEAN
             /\ \A t \in Toggles \ crossed :
                  t # editor[x].change => editor[x].copy[t[1]][t[2]] = prefs[t[1]][t[2]]
  BY <1>1 DEF Holding, EditorOK, NoEdit
<1>3. \A x \in Editors : editor[x] = NoEdit \/ x \in Holding
  BY <1>1 DEF EditorOK, Holding
<1>4. NoEdit.at # "read"
  BY DEF NoEdit
<1>5. ASSUME NEW toggle \in Toggles, NEW on \in BOOLEAN, ReadSettings(d, toggle, on) PROVE PrefsInv'
  <2> DEFINE w == [at |-> "read", copy |-> prefs, change |-> toggle, on |-> on]
  <2>1. /\ editor[d].at = "idle" /\ changes < MaxChanges /\ changes' = changes + 1
        /\ editor' = [editor EXCEPT ![d] = w]
        /\ crossed' = IF Holding = {} THEN crossed ELSE crossed \cup {toggle} \cup {editor[x].change : x \in Holding}
        /\ prefs' = prefs /\ wanted' = wanted
    BY <1>5 DEF ReadSettings
  <2>2. w.at = "read" /\ w.copy = prefs /\ w.change = toggle /\ w.on = on
    OBVIOUS
  <2> HIDE DEF w
  <2>3. /\ editor' = [x \in Editors |-> editor'[x]] /\ editor'[d] = w
        /\ \A x \in Editors \ {d} : editor'[x] = editor[x]
    BY <1>1, <2>1
  <2>4. Holding' = Holding \cup {d} /\ d \notin Holding
    BY <2>1, <2>2, <2>3 DEF Holding
  <2>5. crossed \subseteq crossed' /\ crossed' \subseteq Toggles
    BY <1>1, <1>2, <2>1
  <2>6. \A x \in Editors : EditorOK(x)'
    BY <1>1, <2>1, <2>2, <2>3, <2>5 DEF EditorOK
  <2>7. \A x, e \in Holding' : x # e => editor'[x].change \in crossed'
    <3>1. ASSUME NEW x \in Holding', NEW e \in Holding', x # e PROVE editor'[x].change \in crossed'
      <4>1. Holding # {}
        BY <2>4, <3>1
      <4>2. CASE x = d
        BY <2>1, <2>2, <2>3, <4>1, <4>2
      <4>3. CASE x # d
        BY <1>2, <2>1, <2>3, <2>4, <4>1, <4>3
      <4> QED
        BY <4>2, <4>3
    <3> QED
      BY <3>1
  <2>8. changes' \in 0..MaxChanges
    BY <1>1, <2>1, TogglesAssumption
  <2>9. ChangesAreKept'
    BY <1>1, <2>1, <2>5 DEF ChangesAreKept
  <2> QED
    BY <1>1, <2>1, <2>3, <2>5, <2>6, <2>7, <2>8, <2>9 DEF PrefsInv
<1>6. CASE updatePreferences(d)
  <2> DEFINE t == editor[d].change
             on == editor[d].on
             copy == editor[d].copy
  <2>1. /\ editor[d].at = "read" /\ wanted' = [x \in DOMAIN wanted \cup {t} |-> IF x = t THEN on ELSE wanted[x]]
        /\ prefs' = [copy EXCEPT ![t[1]][t[2]] = on]
        /\ editor' = [editor EXCEPT ![d] = NoEdit] /\ crossed' = crossed /\ changes' = changes
    BY <1>6 DEF updatePreferences, Asked
  <2>2. d \in Holding
    BY <2>1 DEF Holding
  <2>3. /\ t \in Toggles /\ on \in BOOLEAN /\ copy \in Preferences
        /\ \A x \in Toggles \ crossed : x # t => copy[x[1]][x[2]] = prefs[x[1]][x[2]]
    BY <1>2, <2>2
  <2>4. /\ prefs' \in Preferences /\ prefs'[t[1]][t[2]] = on
        /\ \A x \in Toggles \ {t} : prefs'[x[1]][x[2]] = copy[x[1]][x[2]]
    BY <2>1, <2>3, OnePreference
  <2>5. /\ editor' = [x \in Editors |-> editor'[x]] /\ editor'[d] = NoEdit
        /\ \A x \in Editors \ {d} : editor'[x] = editor[x]
    BY <1>1, <2>1
  <2>6. Holding' = Holding \ {d}
    BY <1>4, <2>5 DEF Holding
  <2>7. \A e \in Holding \ {d} : t \in crossed
    BY <1>1, <2>2
  <2> HIDE DEF t, on, copy
  <2>8. ASSUME NEW x \in Editors PROVE EditorOK(x)'
    <3>1. CASE editor'[x] = NoEdit
      BY <3>1 DEF EditorOK
    <3>2. CASE x \in Holding /\ x # d
      <4>1. editor'[x] = editor[x] /\ t \in crossed
        BY <1>2, <2>5, <2>7, <3>2
      <4>2. \A y \in Toggles \ crossed : y # editor[x].change => editor[x].copy[y[1]][y[2]] = prefs'[y[1]][y[2]]
        BY <1>2, <2>3, <2>4, <3>2, <4>1
      <4> QED
        BY <1>2, <2>1, <3>2, <4>1, <4>2 DEF EditorOK
    <3> QED
      BY <1>3, <2>5, <3>1, <3>2
  <2>9. \A x, e \in Holding' : x # e => editor'[x].change \in crossed'
    BY <1>1, <1>2, <2>1, <2>5, <2>6
  <2>10. DOMAIN wanted' = DOMAIN wanted \cup {t} /\ wanted'[t] = on
         /\ \A x \in DOMAIN wanted \ {t} : wanted'[x] = wanted[x]
    BY <2>1
  <2>11. ChangesAreKept'
    BY <1>1, <2>1, <2>3, <2>4, <2>10 DEF ChangesAreKept
  <2> QED
    BY <1>1, <2>1, <2>3, <2>4, <2>5, <2>8, <2>9, <2>10, <2>11 DEF PrefsInv
<1> QED
  BY <1>5, <1>6

\* Every step of what a user is told.
LEMMA StepNotices == NoticesInv /\ [NoticesNext]_noticeVars => NoticesInv'
<1> SUFFICES ASSUME NoticesInv, [NoticesNext]_noticeVars PROVE NoticesInv'
  OBVIOUS
<1>1. PrefsInv /\ (notice = NoNotice \/ NoticeOK(notice))
  BY DEF NoticesInv
<1>2. ASSUME UNCHANGED <<prefs, editor, wanted, crossed, changes>> PROVE PrefsInv'
  BY <1>1, <1>2 DEF PrefsInv, EditorOK, Holding, ChangesAreKept
<1>3. NoNotice.at = "idle"
  BY DEF NoNotice
<1>4. CASE UNCHANGED noticeVars
  BY <1>1, <1>2, <1>4 DEF noticeVars, NoticesInv
<1>5. ASSUME NEW d \in Editors,
             updatePreferences(d) \/ \E toggle \in Toggles, on \in BOOLEAN : ReadSettings(d, toggle, on)
      PROVE  NoticesInv'
  <2>1. notice' = notice
    BY <1>5 DEF updatePreferences, ReadSettings
  <2> QED
    BY <1>1, <1>5, <2>1, StepPrefs DEF NoticesInv
<1>6. ASSUME NEW event \in Told, notifyUser(event) PROVE NoticesInv'
  <2> DEFINE route == RouteOf(event)
             copy == prefs[RouteOf(event).category]
  <2>1. /\ notice' = [at |-> "first", route |-> route, copy |-> copy, left |-> {}, rows |-> 0, lost |-> 0]
        /\ UNCHANGED <<prefs, editor, wanted, crossed, changes>>
    BY <1>6 DEF notifyUser
  <2>2. RouteOK(route)
    BY AllRoutes
  <2> HIDE DEF route, copy
  <2>3. NoticeOK(notice')
    BY <2>1, <2>2 DEF NoticeOK
  <2> QED
    BY <1>2, <2>1, <2>3 DEF NoticesInv
\* The notice under way goes on.
<1>7. ASSUME notice.at # "idle"
      PROVE  /\ notice = [at |-> notice.at, route |-> notice.route, copy |-> notice.copy,
                          left |-> notice.left, rows |-> notice.rows, lost |-> notice.lost]
             /\ NoticeOK(notice) /\ notice.rows \in Nat /\ notice.lost \in Nat
  BY <1>1, <1>3, <1>7 DEF NoticeOK
<1>8. ASSUME NEW kept, NEW to, InsertNotice(kept, to), notice.at # "idle",
             \/ notice.at = "first" /\ to = "second" /\ (kept <=> ~IsSensitive /\ InApp)
             \/ notice.at = "second" /\ to = "push" /\ (kept <=> InApp)
      PROVE  NoticesInv'
  <2>1. UNCHANGED <<prefs, editor, wanted, crossed, changes>>
    BY <1>8 DEF InsertNotice
  <2>2. PICK rows \in Nat, lost \in Nat :
          /\ notice' = [at |-> to, route |-> notice.route, copy |-> notice.copy,
                        left |-> notice.left, rows |-> rows, lost |-> lost]
          /\ rows + lost = notice.rows + notice.lost + (IF kept THEN 1 ELSE 0)
    <3>1. CASE ~kept /\ notice' = [notice EXCEPT !.at = to]
      BY <1>7, <1>8, <3>1
    <3>2. CASE kept /\ notice' = [notice EXCEPT !.at = to, !.rows = @ + 1]
      <4>1. notice.rows + 1 \in Nat /\ (notice.rows + 1) + notice.lost = notice.rows + notice.lost + 1
        BY <1>7, <1>8
      <4> QED
        BY <1>7, <1>8, <3>2, <4>1
    <3>3. CASE kept /\ notice' = [notice EXCEPT !.at = to, !.lost = @ + 1]
      <4>1. notice.lost + 1 \in Nat /\ notice.rows + (notice.lost + 1) = notice.rows + notice.lost + 1
        BY <1>7, <1>8
      <4> QED
        BY <1>7, <1>8, <3>3, <4>1
    <3> QED
      BY <1>8, <3>1, <3>2, <3>3 DEF InsertNotice
  <2>3. /\ notice'.at = to /\ notice'.route = notice.route /\ notice'.copy = notice.copy
        /\ notice'.left = notice.left /\ notice'.rows = rows /\ notice'.lost = lost
        /\ notice' = [at |-> notice'.at, route |-> notice'.route, copy |-> notice'.copy,
                      left |-> notice'.left, rows |-> notice'.rows, lost |-> notice'.lost]
    BY <2>2
  <2>4. /\ IsSensitive <=> notice.route.type \in Sensitive
        /\ notice.route.type \in AlwaysKept => InApp /\ ~IsSensitive
    BY DEF IsSensitive, InApp, Sensitive, AlwaysKept
  <2>5. NoticeOK(notice)
    BY <1>7, <1>8
  <2>6. NoticeOK(notice')
    <3>1. CASE notice.at = "first"
      <4>1. notice.rows + notice.lost = 0 /\ to = "second" /\ (kept <=> ~IsSensitive /\ InApp)
        BY <1>8, <2>5, <3>1 DEF NoticeOK
      <4>2. /\ rows + lost <= 1 /\ (IsSensitive => rows + lost = 0)
            /\ notice.route.type \in AlwaysKept => rows + lost = 1
        BY <2>2, <2>4, <4>1
      <4> QED
        BY <2>2, <2>3, <2>4, <2>5, <4>1, <4>2 DEF NoticeOK
    <3>2. CASE notice.at = "second"
      <4>1. /\ notice.rows + notice.lost <= 1 /\ to = "push" /\ (kept <=> InApp)
            /\ notice.route.type \in Sensitive => notice.rows + notice.lost = 0
            /\ notice.route.type \in AlwaysKept => notice.rows + notice.lost = 1
        BY <1>8, <2>5, <3>2 DEF NoticeOK
      <4>2. /\ rows + lost <= 2 /\ (IsSensitive => rows + lost <= 1)
            /\ notice.route.type \in AlwaysKept => rows + lost = 2
        BY <1>7, <1>8, <2>2, <2>4, <4>1
      <4> QED
        BY <2>2, <2>3, <2>4, <2>5, <4>1, <4>2 DEF NoticeOK
    <3> QED
      BY <1>8, <3>1, <3>2
  <2> QED
    BY <1>2, <2>1, <2>6 DEF NoticesInv
<1>9. ASSUME NEW channel, NEW called, NEW to, Leaves(channel, called, to),
             channel \notin {"idle", "first", "second"}, to \in {"sms", "whatsapp", "email", "ended"},
             channel = "push" => (called => Pref("push") /\ Carries("push")),
             channel = "sms" => (called => Pref("sms"))
      PROVE  NoticesInv'
  <2>1. notice.at = channel /\ UNCHANGED <<prefs, editor, wanted, crossed, changes>>
    BY <1>9 DEF Leaves
  <2>2. NoticeOK(notice)
    BY <1>7, <1>9, <2>1
  <2>3. \E left \in {notice.left, notice.left \cup {channel}} :
          /\ notice' = [at |-> to, route |-> notice.route, copy |-> notice.copy,
                        left |-> left, rows |-> notice.rows, lost |-> notice.lost]
          /\ left = notice.left \/ called
    BY <1>7, <1>9, <2>1 DEF Leaves
  <2>4. PICK left \in {notice.left, notice.left \cup {channel}} :
          /\ notice' = [at |-> to, route |-> notice.route, copy |-> notice.copy,
                        left |-> left, rows |-> notice.rows, lost |-> notice.lost]
          /\ left = notice.left \/ called
    BY <2>3
  <2>5. /\ notice'.at = to /\ notice'.route = notice.route /\ notice'.copy = notice.copy
        /\ notice'.left = left /\ notice'.rows = notice.rows /\ notice'.lost = notice.lost
        /\ notice' = [at |-> notice'.at, route |-> notice'.route, copy |-> notice'.copy,
                      left |-> notice'.left, rows |-> notice'.rows, lost |-> notice'.lost]
    BY <2>4
  <2>6. "push" \in left => notice.copy["push"] /\ notice.route.type \notin Sensitive
    BY <1>9, <2>2, <2>4 DEF NoticeOK, RouteOK, Pref, Carries
  <2>7. "sms" \in left => notice.copy["sms"]
    BY <1>9, <2>2, <2>4 DEF NoticeOK, Pref
  <2>8. NoticeOK(notice')
    BY <1>9, <2>1, <2>2, <2>5, <2>6, <2>7 DEF NoticeOK
  <2> QED
    BY <1>2, <2>1, <2>8 DEF NoticesInv
<1>10. CASE FirstCopy
  BY <1>8, <1>10 DEF FirstCopy
<1>11. CASE SecondCopy
  BY <1>8, <1>11 DEF SecondCopy
<1>12. CASE SendPush
  BY <1>9, <1>12 DEF SendPush
<1>13. CASE SendSms
  BY <1>9, <1>13 DEF SendSms
<1>14. CASE SendWhatsApp
  BY <1>9, <1>14 DEF SendWhatsApp
<1>15. CASE SendEmail
  BY <1>9, <1>15 DEF SendEmail
<1>16. CASE Ended
  BY <1>2, <1>16 DEF Ended, NoticesInv
<1> QED
  BY <1>4, <1>5, <1>6, <1>10, <1>11, <1>12, <1>13, <1>14, <1>15, <1>16 DEF NoticesNext

\* What the run checks of the notices.
LEMMA NoticesMeans == NoticesInv => NoticesTypeOK /\ ChangesAreKept /\ AlwaysInTheInbox /\ SilentWhenOff
<1> SUFFICES ASSUME NoticesInv PROVE NoticesTypeOK /\ ChangesAreKept /\ AlwaysInTheInbox /\ SilentWhenOff
  OBVIOUS
<1>1. PrefsInv /\ (notice = NoNotice \/ NoticeOK(notice)) /\ NoNotice.at = "idle"
  BY DEF NoticesInv, NoNotice
<1>2. \A d \in Holding : editor[d].change \in Toggles /\ editor[d].on \in BOOLEAN
  <2>1. \A d \in Editors : EditorOK(d)
    BY <1>1 DEF PrefsInv
  <2>2. ASSUME NEW d \in Holding PROVE editor[d].change \in Toggles /\ editor[d].on \in BOOLEAN
    <3>1. d \in Editors /\ editor[d].at = "read"
      BY DEF Holding
    <3>2. editor[d] # NoEdit
      BY <3>1 DEF NoEdit
    <3> QED
      BY <2>1, <3>1, <3>2 DEF EditorOK
  <2> QED
    BY <2>2
<1>3. notice.at # "idle" => NoticeOK(notice)
  BY <1>1
<1>4. notice.at # "idle" => notice.rows + notice.lost <= (IF IsSensitive THEN 1 ELSE 2)
  BY <1>3 DEF NoticeOK, IsSensitive
<1>5. NoticesTypeOK
  <2>1. /\ prefs \in Preferences /\ DOMAIN wanted \subseteq Toggles /\ crossed \subseteq Toggles
        /\ changes \in 0..MaxChanges
    BY <1>1 DEF PrefsInv
  <2> QED
    BY <1>2, <1>4, <2>1, Zenon DEF NoticesTypeOK, Preferences, Categories
<1>6. AlwaysInTheInbox
  <2>1. ASSUME notice.at = "ended", notice.route.type \in AlwaysKept, ~(notice.rows > 0) PROVE notice.lost = 2
    BY <1>3, <2>1 DEF NoticeOK
  <2> QED
    BY <2>1 DEF AlwaysInTheInbox
<1>7. SilentWhenOff
  BY <1>3 DEF SilentWhenOff, NoticeOK, Pref, IsSensitive
<1> QED
  BY <1>1, <1>5, <1>6, <1>7 DEF PrefsInv

-----------------------------------------------------------------------------
(* The inbox *)

\* How many of some rows are newer than one: its position, newest first.
Newer(rows, id) == Cardinality({x \in rows : x > id})
Rows == Matching(reader.unreadOnly)

InboxShape ==
    /\ DOMAIN inbox \subseteq NoticeIds /\ \A id \in DOMAIN inbox : inbox[id] \in BOOLEAN
    /\ reader.page \in 0..Cardinality(NoticeIds) + 1 /\ reader.unreadOnly \in BOOLEAN
    /\ reader.from \subseteq NoticeIds /\ reader.shown \subseteq NoticeIds /\ reader.moved \in BOOLEAN
    /\ reader = [page |-> reader.page, unreadOnly |-> reader.unreadOnly, from |-> reader.from,
                 shown |-> reader.shown, moved |-> reader.moved]

\* What was there in the beginning is still there, and has been shown or comes on a later
\* page: rows that arrive meanwhile only push it back.
StillAhead ==
    reader.page > 0 /\ ~reader.moved =>
        \A id \in reader.from : id \in Rows /\ (id \in reader.shown \/ (reader.page - 1) * PageSize <= Newer(Rows, id))

PagingInv == InboxShape /\ StillAhead

\* The reader as a record.
LEMMA InboxTyped == InboxShape => InboxTypeOK
BY DEF InboxShape, InboxTypeOK

\* The position of a row, in a finite set of them.
LEMMA Position ==
    ASSUME NEW rows, IsFiniteSet(rows), rows \subseteq Nat
    PROVE  /\ \A id : Newer(rows, id) \in Nat
           /\ \A id \in rows : Newer(rows, id) < Cardinality(rows)
           /\ Cardinality(rows) \in Nat
<1>1. ASSUME NEW id PROVE IsFiniteSet({x \in rows : x > id}) /\ Newer(rows, id) \in Nat
  <2>1. {x \in rows : x > id} \in SUBSET rows
    OBVIOUS
  <2> QED
    BY <2>1, FS_Subset, FS_CardinalityType DEF Newer
<1>2. ASSUME NEW id \in rows PROVE Newer(rows, id) < Cardinality(rows)
  <2> DEFINE above == {x \in rows : x > id}
  <2>1. above \in SUBSET rows /\ id \notin above
    OBVIOUS
  <2>2. Cardinality(above) <= Cardinality(rows) /\ (Cardinality(rows) = Cardinality(above) => rows = above)
    BY <2>1, FS_Subset
  <2>3. Cardinality(rows) \in Nat /\ Cardinality(above) \in Nat
    BY <1>1, FS_CardinalityType DEF Newer
  <2> QED
    BY <2>1, <2>2, <2>3 DEF Newer
<1> QED
  BY <1>1, <1>2, FS_CardinalityType

\* The row just after one with rows above it is one position nearer.
LEMMA OneNearer ==
    ASSUME NEW rows, IsFiniteSet(rows), rows \subseteq Nat, NEW id \in rows, Newer(rows, id) > 0
    PROVE  \E y \in rows : Newer(rows, y) = Newer(rows, id) - 1
<1> DEFINE above == {x \in rows : x > id}
<1>1. above \subseteq Nat /\ IsFiniteSet(above) /\ above # {}
  <2>1. above \in SUBSET rows
    OBVIOUS
  <2>2. IsFiniteSet(above)
    BY <2>1, FS_Subset
  <2>3. Cardinality(above) > 0
    BY DEF Newer
  <2>4. above \subseteq Nat
    BY <2>1
  <2> HIDE DEF above
  <2>5. above # {}
    BY <2>3, FS_EmptySet
  <2> QED
    BY <2>2, <2>4, <2>5
<1>2. PICK y \in above : \A m \in above : ~ (m < y)
  <2>1. above \subseteq Nat /\ above # {}
    BY <1>1
  <2> HIDE DEF above
  <2> QED
    BY <2>1, LeastOf
<1>3. {x \in rows : x > y} = above \ {y}
  <2>1. y \in Nat /\ id \in Nat /\ y > id
    BY <1>2
  <2>2. ASSUME NEW x \in rows PROVE x > y <=> x \in above /\ x # y
    <3>1. x \in Nat
      OBVIOUS
    <3>2. x \in above => ~ (x < y)
      BY <1>2
    <3>3. x \in above <=> x > id
      OBVIOUS
    <3> HIDE DEF above
    <3> QED
      BY <2>1, <3>1, <3>2, <3>3
  <2> QED
    BY <2>2
<1>4. Cardinality(above \ {y}) = Cardinality(above) - 1
  BY <1>1, <1>2, FS_RemoveElement
<1> QED
  BY <1>2, <1>3, <1>4 DEF Newer

\* Every position up to that of a row is the position of some row.
LEMMA EveryPosition ==
    ASSUME NEW rows, IsFiniteSet(rows), rows \subseteq Nat, NEW k \in Nat, NEW id \in rows, k <= Newer(rows, id)
    PROVE  \E m \in rows : Newer(rows, m) = k
<1> DEFINE T == {Newer(rows, x) : x \in {y \in rows : k <= Newer(rows, y)}}
<1>1. T \subseteq Nat /\ T # {}
  BY Position
<1>2. PICK n \in T : \A m \in T : ~ (m < n)
  <2> HIDE DEF T
  <2> QED
    BY <1>1, LeastOf
<1>3. PICK x \in rows : k <= Newer(rows, x) /\ n = Newer(rows, x)
  BY <1>2
<1>4. Newer(rows, x) \in Nat
  BY Position
<1>5. ASSUME Newer(rows, x) # k PROVE FALSE
  <2>0. Newer(rows, x) > 0
    BY <1>3, <1>4, <1>5
  <2>1. PICK y \in rows : Newer(rows, y) = Newer(rows, x) - 1
    BY <2>0, OneNearer
  <2>2. Newer(rows, y) \in T
    <3>1. k <= Newer(rows, y)
      BY <1>3, <1>4, <1>5, <2>1
    <3> QED
      BY <3>1
  <2>3. ~ (Newer(rows, y) < n)
    BY <1>2, <2>2
  <2> HIDE DEF T
  <2> QED
    BY <1>3, <1>4, <2>1, <2>3
<1> QED
  BY <1>3, <1>5

\* A product with the size of a page.
LEMMA PageStarts ==
    ASSUME NEW page \in Nat, page > 0
    PROVE  /\ (page - 1) * PageSize \in Nat /\ page * PageSize \in Nat /\ page - 1 <= (page - 1) * PageSize
           /\ (page - 1) * PageSize < page * PageSize /\ (page + 1) - 1 = page
BY InboxAssumption

\* The rows of the inbox are finitely many, and numbers.
LEMMA RowsFinite ==
    ASSUME InboxShape
    PROVE  /\ IsFiniteSet(Rows) /\ Rows \subseteq Nat /\ Rows \subseteq NoticeIds
           /\ Cardinality(Rows) <= Cardinality(NoticeIds) /\ Cardinality(NoticeIds) \in Nat
<1>1. Rows \in SUBSET NoticeIds
  BY DEF InboxShape, Rows, Matching
<1> QED
  BY <1>1, FS_Subset, FS_CardinalityType, InboxAssumption

\* The rows of a page, by position.
LEMMA PageIs ==
    ASSUME NEW page
    PROVE  OnPage(page) = {id \in Rows : (page - 1) * PageSize <= Newer(Rows, id) /\ Newer(Rows, id) < page * PageSize}
BY DEF OnPage, Rows, Newer

\* Nobody reads an empty inbox.
LEMMA InboxInits == InboxInit => PagingInv
<1> SUFFICES ASSUME InboxInit PROVE PagingInv
  OBVIOUS
<1>1. inbox = << >> /\ reader = Closed
  BY DEF InboxInit
<1>2. /\ reader.page = 0 /\ reader.unreadOnly = FALSE /\ reader.from = {} /\ reader.shown = {} /\ reader.moved = FALSE
      /\ reader = [page |-> 0, unreadOnly |-> FALSE, from |-> {}, shown |-> {}, moved |-> FALSE]
  BY <1>1 DEF Closed
<1>3. DOMAIN inbox = {}
  BY <1>1
<1>4. Cardinality(NoticeIds) \in Nat
  BY InboxAssumption, FS_CardinalityType
<1> QED
  BY <1>2, <1>3, <1>4 DEF PagingInv, InboxShape, StillAhead

\* While the rows the reader looks for only grow and nothing else of it changes, what it is
\* to be shown stays ahead.
LEMMA RowsGrow ==
    ASSUME PagingInv, InboxShape', UNCHANGED <<reader.page, reader.unreadOnly, reader.from, reader.shown>>,
           ~reader'.moved => ~reader.moved /\ (reader.page > 0 => Rows \subseteq Rows')
    PROVE  PagingInv'
<1> SUFFICES ASSUME reader'.page > 0, ~reader'.moved, NEW id \in reader'.from
             PROVE  id \in Rows' /\ (id \in reader'.shown \/ (reader'.page - 1) * PageSize <= Newer(Rows', id))
  BY DEF PagingInv, StillAhead
<1> DEFINE a == (reader.page - 1) * PageSize
           above == {x \in Rows : x > id}
           above2 == {x \in Rows' : x > id}
<1>1. reader.page > 0 /\ ~reader.moved /\ id \in reader.from /\ Rows \subseteq Rows'
  OBVIOUS
<1>2. id \in Rows /\ (id \in reader.shown \/ a <= Newer(Rows, id))
  BY <1>1 DEF PagingInv, StillAhead
<1>3. IsFiniteSet(Rows') /\ IsFiniteSet(Rows) /\ Rows \subseteq Nat /\ Rows' \subseteq Nat
  <2>1. InboxShape' => IsFiniteSet(Rows') /\ Rows' \subseteq Nat
    <3>1. ASSUME InboxShape' PROVE Rows' \in SUBSET NoticeIds
      BY <3>1 DEF InboxShape, Rows, Matching
    <3> QED
      BY <3>1, FS_Subset, InboxAssumption
  <2> QED
    BY <2>1, RowsFinite DEF PagingInv
<1>4. above \in SUBSET above2 /\ IsFiniteSet(above2)
  <2>1. above2 \in SUBSET (Rows')
    OBVIOUS
  <2> QED
    BY <1>1, <1>3, <2>1, FS_Subset
<1>5. Cardinality(above) <= Cardinality(above2)
  BY <1>4, FS_Subset
<1>6. Newer(Rows, id) <= Newer(Rows', id) /\ Newer(Rows, id) \in Nat /\ Newer(Rows', id) \in Nat
  <2>1. Newer(Rows, id) = Cardinality(above) /\ Newer(Rows', id) = Cardinality(above2)
    BY DEF Newer
  <2> QED
    BY <1>3, <1>5, <2>1, Position
<1>7. a \in Nat /\ (reader'.page - 1) * PageSize = a
  BY <1>1, PageStarts DEF PagingInv, InboxShape
<1> HIDE DEF a, above, above2
<1> QED
  BY <1>1, <1>2, <1>6, <1>7

\* What an edit of the rows leaves of the reader.
LEMMA ReaderMoves ==
    ASSUME InboxShape, NEW moved \in BOOLEAN, Moved(moved)
    PROVE  /\ UNCHANGED <<reader.page, reader.unreadOnly, reader.from, reader.shown>>
           /\ reader'.moved \in BOOLEAN
           /\ ~reader'.moved => ~reader.moved /\ (reader.page > 0 => ~moved)
           /\ reader' = [page |-> reader'.page, unreadOnly |-> reader'.unreadOnly, from |-> reader'.from,
                         shown |-> reader'.shown, moved |-> reader'.moved]
<1> DEFINE m == reader.moved \/ (reader.page > 0 /\ moved)
<1>1. reader' = [reader EXCEPT !.moved = m]
  BY Zenon DEF Moved
<1>2. m \in BOOLEAN /\ (~m => ~reader.moved /\ (reader.page > 0 => ~moved))
  BY Zenon
<1>3. reader = [page |-> reader.page, unreadOnly |-> reader.unreadOnly, from |-> reader.from,
                 shown |-> reader.shown, moved |-> reader.moved]
  BY DEF InboxShape
<1> HIDE DEF m
<1>4. reader' = [page |-> reader.page, unreadOnly |-> reader.unreadOnly, from |-> reader.from,
                 shown |-> reader.shown, moved |-> m]
  BY <1>1, <1>3
<1> QED
  BY <1>2, <1>4

\* Every step of the inbox and its reader.
LEMMA StepInbox == PagingInv /\ [InboxNext]_inboxVars => PagingInv'
<1> SUFFICES ASSUME PagingInv, [InboxNext]_inboxVars PROVE PagingInv'
  OBVIOUS
<1>0. InboxShape /\ Cardinality(NoticeIds) \in Nat /\ PageSize \in Nat \ {0} /\ reader.page \in Nat
      /\ DOMAIN inbox \subseteq NoticeIds /\ (\A id \in DOMAIN inbox : inbox[id] \in BOOLEAN)
      /\ NoticeIds \subseteq Nat
  BY RowsFinite, InboxAssumption DEF PagingInv, InboxShape
<1>1. CASE UNCHANGED inboxVars
  <2>1. inbox' = inbox /\ reader' = reader
    BY <1>1 DEF inboxVars
  <2>2. InboxShape' /\ Rows' = Rows
    BY <1>0, <2>1 DEF InboxShape, Rows, Matching
  <2> QED
    BY <2>1, <2>2, RowsGrow
<1>2. ASSUME NEW unreadOnly \in BOOLEAN, OpenInbox(unreadOnly) PROVE PagingInv'
  <2> DEFINE m == Matching(unreadOnly)
  <2>0. m \subseteq NoticeIds
    BY <1>0 DEF Matching
  <2>1. inbox' = inbox /\ reader' = [page |-> 1, unreadOnly |-> unreadOnly, from |-> m, shown |-> {}, moved |-> FALSE]
    BY <1>2 DEF OpenInbox, Closed
  <2>2. Rows' = m
    BY <2>1 DEF Rows, Matching
  <2> HIDE DEF m
  <2>3. InboxShape'
    BY <1>0, <2>0, <2>1 DEF InboxShape
  <2>4. IsFiniteSet(m) /\ m \subseteq Nat
    BY <2>0, <1>0, FS_Subset, InboxAssumption
  <2>5. \A id : Newer(m, id) \in Nat
    BY <2>4, Position
  <2>6. (1 - 1) * PageSize = 0
    BY <1>0
  <2>7. ASSUME NEW id \in m PROVE (reader'.page - 1) * PageSize <= Newer(Rows', id)
    BY <2>1, <2>2, <2>5, <2>6
  <2>8. StillAhead'
    BY <2>1, <2>2, <2>7 DEF StillAhead
  <2> QED
    BY <2>3, <2>8 DEF PagingInv
<1>3. CASE getUserNotifications
  <2> DEFINE p == OnPage(reader.page)
             a == (reader.page - 1) * PageSize
             b == reader.page * PageSize
  <2>0. reader = [page |-> reader.page, unreadOnly |-> reader.unreadOnly, from |-> reader.from,
                  shown |-> reader.shown, moved |-> reader.moved]
    BY DEF PagingInv, InboxShape
  <2>1. /\ reader.page > 0 /\ p # {} /\ inbox' = inbox
        /\ reader' = [reader EXCEPT !.page = reader.page + 1, !.shown = reader.shown \cup p]
    BY <1>3 DEF getUserNotifications
  <2>2. p = {id \in Rows : a <= Newer(Rows, id) /\ Newer(Rows, id) < b}
    BY PageIs
  <2>3. a \in Nat /\ b \in Nat /\ reader.page - 1 <= a /\ (reader.page + 1) - 1 = reader.page
    BY <1>0, <2>1, PageStarts
  <2>4. p \subseteq NoticeIds
    BY <2>2, RowsFinite DEF PagingInv
  <2> HIDE DEF p
  <2>5. /\ reader'.page = reader.page + 1 /\ reader'.unreadOnly = reader.unreadOnly
        /\ reader'.from = reader.from /\ reader'.shown = reader.shown \cup p /\ reader'.moved = reader.moved
        /\ reader' = [page |-> reader'.page, unreadOnly |-> reader'.unreadOnly, from |-> reader'.from,
                      shown |-> reader'.shown, moved |-> reader'.moved]
    BY <2>0, <2>1
  <2>6. reader.page + 1 \in 0..Cardinality(NoticeIds) + 1
    <3>1. PICK id \in Rows : a <= Newer(Rows, id)
      BY <2>1, <2>2
    <3>2. Newer(Rows, id) < Cardinality(Rows) /\ Newer(Rows, id) \in Nat /\ Cardinality(Rows) \in Nat
      BY <3>1, RowsFinite, Position DEF PagingInv
    <3>3. Cardinality(Rows) <= Cardinality(NoticeIds)
      BY RowsFinite DEF PagingInv
    <3> HIDE DEF a
    <3> QED
      BY <1>0, <2>1, <2>3, <3>1, <3>2, <3>3
  <2>7. InboxShape'
    BY <1>0, <2>1, <2>4, <2>5, <2>6 DEF InboxShape
  <2>8. Rows' = Rows
    BY <2>1, <2>5 DEF Rows, Matching
  <2>9. ASSUME reader'.page > 0, ~reader'.moved, NEW id \in reader'.from
        PROVE  id \in Rows' /\ (id \in reader'.shown \/ (reader'.page - 1) * PageSize <= Newer(Rows', id))
    <3>1. id \in Rows /\ (id \in reader.shown \/ a <= Newer(Rows, id))
      BY <2>1, <2>5, <2>9 DEF PagingInv, StillAhead
    <3>2. Newer(Rows, id) \in Nat
      BY RowsFinite, Position DEF PagingInv
    <3>3. (reader'.page - 1) * PageSize = b
      BY <2>3, <2>5
    <3>4. CASE id \in reader.shown
      BY <2>5, <2>8, <3>1, <3>4
    <3>5. CASE a <= Newer(Rows, id) /\ Newer(Rows, id) < b
      BY <2>2, <2>5, <2>8, <3>1, <3>5
    <3>6. CASE ~ (Newer(Rows, id) < b)
      <4> HIDE DEF b
      <4>1. b <= Newer(Rows, id)
        BY <2>3, <3>2, <3>6
      <4> QED
        BY <2>8, <3>1, <3>3, <4>1
    <3> QED
      BY <3>1, <3>4, <3>5, <3>6
  <2>10. StillAhead'
    BY <2>9 DEF StillAhead
  <2> QED
    BY <2>7, <2>10 DEF PagingInv
<1>4. CASE CloseInbox
  <2>1. inbox' = inbox /\ reader' = [page |-> 0, unreadOnly |-> FALSE, from |-> {}, shown |-> {}, moved |-> FALSE]
    BY <1>4 DEF CloseInbox, Closed
  <2>2. InboxShape'
    BY <1>0, <2>1 DEF InboxShape
  <2> QED
    BY <2>1, <2>2 DEF PagingInv, StillAhead
<1>5. ASSUME NEW ids \in SUBSET NoticeIds, markAsRead(ids) PROVE PagingInv'
  <2> DEFINE marked == IF ids = {} THEN DOMAIN inbox ELSE ids \cap DOMAIN inbox
             moved == reader.unreadOnly /\ inbox' # inbox
  <2>1. inbox' = [id \in DOMAIN inbox |-> inbox[id] \/ id \in marked] /\ Moved(moved)
    BY <1>5 DEF markAsRead
  <2>2. moved \in BOOLEAN
    BY Zenon
  <2>3. DOMAIN inbox' = DOMAIN inbox
    BY <2>1
  <2>4. \A id \in DOMAIN inbox : inbox'[id] \in BOOLEAN
    BY <2>1, Zenon
  <2>5. ~moved => ~reader.unreadOnly \/ inbox' = inbox
    BY Zenon
  <2> HIDE DEF moved, marked
  <2>6. /\ UNCHANGED <<reader.page, reader.unreadOnly, reader.from, reader.shown>>
        /\ reader'.moved \in BOOLEAN
        /\ ~reader'.moved => ~reader.moved /\ (reader.page > 0 => ~moved)
        /\ reader' = [page |-> reader'.page, unreadOnly |-> reader'.unreadOnly, from |-> reader'.from,
                      shown |-> reader'.shown, moved |-> reader'.moved]
    BY <1>0, <2>1, <2>2, ReaderMoves
  <2>7. InboxShape'
    BY <1>0, <2>3, <2>4, <2>6 DEF InboxShape
  <2>8. ~moved => Rows \subseteq Rows'
    BY <2>3, <2>5, <2>6 DEF Rows, Matching
  <2> QED
    BY <2>6, <2>7, <2>8, RowsGrow
<1>6. ASSUME NEW id \in NoticeIds, saveNotice(id) PROVE PagingInv'
  <2>1. /\ inbox' = [x \in DOMAIN inbox \cup {id} |-> IF x = id THEN FALSE ELSE inbox[x]] /\ reader' = reader
        /\ \A old \in DOMAIN inbox : old < id
    BY <1>6 DEF saveNotice
  <2>2. DOMAIN inbox' = DOMAIN inbox \cup {id}
    BY <2>1
  <2>3. \A x \in DOMAIN inbox : x # id
    BY <1>0, <2>1
  <2>4. \A x \in DOMAIN inbox : inbox'[x] = inbox[x]
    BY <2>1, <2>3
  <2>5. inbox'[id] = FALSE
    BY <2>1
  <2>6. InboxShape'
    BY <1>0, <2>1, <2>2, <2>4, <2>5 DEF InboxShape
  <2>7. Rows \subseteq Rows'
    BY <2>1, <2>2, <2>4 DEF Rows, Matching
  <2> QED
    BY <2>1, <2>6, <2>7, RowsGrow
<1>7. ASSUME NEW id \in NoticeIds, deleteNotification(id) PROVE PagingInv'
  <2>1. inbox' = [x \in DOMAIN inbox \ {id} |-> inbox[x]] /\ Moved(TRUE)
    BY <1>7 DEF deleteNotification
  <2>2. DOMAIN inbox' \subseteq DOMAIN inbox /\ \A x \in DOMAIN inbox' : inbox'[x] = inbox[x]
    BY <2>1
  <2>3. /\ UNCHANGED <<reader.page, reader.unreadOnly, reader.from, reader.shown>>
        /\ reader'.moved \in BOOLEAN
        /\ ~reader'.moved => ~reader.moved /\ ~(reader.page > 0)
        /\ reader' = [page |-> reader'.page, unreadOnly |-> reader'.unreadOnly, from |-> reader'.from,
                      shown |-> reader'.shown, moved |-> reader'.moved]
    BY <1>0, <2>1, ReaderMoves
  <2>4. InboxShape'
    BY <1>0, <2>2, <2>3 DEF InboxShape
  <2> QED
    BY <2>3, <2>4, RowsGrow
<1> QED
  BY <1>1, <1>2, <1>3, <1>4, <1>5, <1>6, <1>7 DEF InboxNext

\* A reader with nothing more to come has been shown all.
LEMMA InboxMeans == PagingInv => InboxTypeOK /\ PagedToTheEnd
<1> SUFFICES ASSUME PagingInv PROVE PagedToTheEnd
  BY InboxTyped DEF PagingInv
<1> SUFFICES ASSUME reader.page > 0, OnPage(reader.page) = {}, ~reader.moved, NEW id \in reader.from,
                    id \notin reader.shown
             PROVE  FALSE
  BY DEF PagedToTheEnd
<1> DEFINE a == (reader.page - 1) * PageSize
           b == reader.page * PageSize
<1>1. id \in Rows /\ a <= Newer(Rows, id)
  BY DEF PagingInv, StillAhead
<1>2. a \in Nat /\ b \in Nat /\ a < b
  BY PageStarts DEF PagingInv, InboxShape
<1>3. OnPage(reader.page) = {m \in Rows : a <= Newer(Rows, m) /\ Newer(Rows, m) < b}
  BY PageIs
<1> HIDE DEF a, b
<1>4. PICK m \in Rows : Newer(Rows, m) = a
  BY <1>1, <1>2, RowsFinite, EveryPosition DEF PagingInv
<1> QED
  BY <1>2, <1>3, <1>4

-----------------------------------------------------------------------------
(* The user *)

\* Each component keeps its own invariant, and the components share no column.
UserInv ==
    /\ part \in UserParts
    /\ AccountInv /\ PinInv /\ KycInv /\ PayoutInv /\ PointsInv
    /\ SocialInv /\ NoticesInv /\ PagingInv

\* A step of the user is one of one component at most.
LEMMA OnePart ==
    [UserNext]_userVars =>
        /\ [AccountNext]_accountVars /\ [PinNext]_pinVars /\ [KycNext]_kycVars /\ [PayoutNext]_payoutVars
        /\ [PointsNext]_pointsVars /\ [SocialNext]_socialVars /\ [NoticesNext]_noticeVars
        /\ [InboxNext]_inboxVars /\ part' = part
BY DEF UserNext, userVars, SocialNext

\* A step keeps every component's invariant and does what each of them may do.
LEMMA StepUser ==
    UserInv /\ [UserNext]_userVars =>
        /\ UserInv' /\ VerifiedByNewestCode /\ FlagsStay /\ LockHolds /\ ApprovalStands
        /\ EditsStick /\ NoMessageThroughBlock
<1> SUFFICES ASSUME UserInv, [UserNext]_userVars
             PROVE  /\ UserInv' /\ VerifiedByNewestCode /\ FlagsStay /\ LockHolds /\ ApprovalStands
                    /\ EditsStick /\ NoMessageThroughBlock
  OBVIOUS
<1>1. /\ part' \in UserParts /\ AccountInv /\ PinInv /\ KycInv /\ PayoutInv /\ PointsInv
      /\ SocialInv /\ NoticesInv /\ PagingInv
  BY OnePart DEF UserInv
<1>2. AccountInv' /\ VerifiedByNewestCode /\ FlagsStay
  BY <1>1, OnePart, StepAccount, AccountStep
<1>3. PinInv' /\ LockHolds /\ KycInv' /\ ApprovalStands
  BY <1>1, OnePart, StepPin, StepKyc
<1>4. PayoutInv' /\ PointsInv' /\ EditsStick
  BY <1>1, OnePart, StepPayout, StepPoints, RulesStick
<1>5. SocialInv' /\ NoMessageThroughBlock
  BY <1>1, OnePart, StepSocial
<1>6. NoticesInv' /\ PagingInv'
  BY <1>1, OnePart, StepNotices, StepInbox
<1> QED
  BY <1>1, <1>2, <1>3, <1>4, <1>5, <1>6 DEF UserInv

\* The components keep their invariants together.
LEMMA UserKeeps == UserSpec => []UserInv
<1>1. UserInit => UserInv
  BY AccountInits, PinInits, KycInits, PayoutInits, PointsInits, SocialInits, NoticesInits, InboxInits
     DEF UserInit, UserInv
<1>2. UserInv /\ [UserNext]_userVars => UserInv'
  BY StepUser
<1> QED
  BY <1>1, <1>2, PTL DEF UserSpec

\* Every variable of the user's components keeps its shape, whatever requests and servers
\* there are.
THEOREM UserTyped == UserSpec => []UserTypeOK
<1>1. ASSUME UserInv PROVE UserTypeOK
  <2>1. /\ AccountTypeOK /\ PinTypeOK /\ KycTypeOK /\ PayoutTypeOK /\ PointsTypeOK
        /\ SocialTypeOK /\ NoticesTypeOK /\ InboxTypeOK
    BY <1>1, AccountMeans, KycMeans, PointsMeans, SocialMeans, NoticesMeans, InboxMeans
       DEF UserInv, PinInv, PayoutInv
  <2>2. /\ part \in {"account", "pin", "kyc", "payout", "points", "friends", "chat", "notices", "inbox"}
    BY <1>1 DEF UserInv, UserParts
  <2> QED
    BY <2>1, <2>2 DEF UserTypeOK
<1> QED
  BY <1>1, UserKeeps, PTL

\* A parked refund is paid once and closed when it is paid, and a payment's points are
\* awarded once, to its giver and to the champion of its campaign, all of them unless a crash,
\* an error of the database or an edited rule cut them off.
THEOREM CreditedForOnce == UserSpec => []CreditedOnce
<1>1. UserInv => CreditedOnce
  BY PointsMeans DEF UserInv, PayoutInv, CreditedOnce
<1> QED
  BY <1>1, UserKeeps, PTL

\* What a user has proven, agreed to and asked for is what counts, in every component; the
\* flag of the identity check follows its levels unless requests that wrote it overlapped.
THEOREM OwnSay == UserSpec => []OwnSayIsKept
<1>1. ASSUME UserInv PROVE OwnSayIsKept
  <2>1. AccountInv /\ PinInv /\ KycInv /\ SocialInv /\ NoticesInv /\ PagingInv
    BY <1>1 DEF UserInv
  <2>2. CodeIsSpent /\ TwoFactorCanBeAnswered /\ Level1BeforeLevel2 /\ FlagFollowsLevel2
    BY <2>1, AccountMeans, KycMeans
  <2>3. FailuresAreCounted /\ BlockedAreStrangers /\ FriendsAgreed /\ OneRowPerPair
    BY <2>1, SocialMeans DEF PinInv
  <2>4. ChangesAreKept /\ AlwaysInTheInbox /\ SilentWhenOff /\ PagedToTheEnd
    BY <2>1, NoticesMeans, InboxMeans
  <2> QED
    BY <2>2, <2>3, <2>4 DEF OwnSayIsKept
<1> QED
  BY <1>1, UserKeeps, PTL

\* What was decided stays, in every step of every component: verified addresses, locks,
\* approvals, edited rules and blocks; a stale row saved over them is the exception named.
THEOREM Decided == UserSpec => DecidedStays
<1>1. UserInv /\ [UserNext]_userVars =>
        [VerifiedByNewestCode /\ FlagsStay /\ LockHolds /\ ApprovalStands /\ EditsStick /\ NoMessageThroughBlock]_userVars
  BY StepUser
<1> QED
  BY <1>1, UserKeeps, PTL DEF UserSpec, DecidedStays
=============================================================================
