------------------------------- MODULE Points -------------------------------
(***************************************************************************)
(* Points (points.service): the rules of the table, seeded once by         *)
(* whichever server finds the table empty, and the ledger rows one settled *)
(* donation or bill payment produces after its transaction has committed.  *)
(* Counting the rules, saving them, reading one and inserting the ledger   *)
(* row are four statements, with other awards, boots and an administrator  *)
(* who edits the table in between.                                         *)
(***************************************************************************)
EXTENDS Naturals, Sequences, FiniteSets

CONSTANTS
    Members,        \* users
    Causes,         \* campaigns
    Payments,       \* payments that may settle
    Boots,          \* servers that may start
    MaxRuleEdits,   \* bound: rules an administrator switches off
    MaxFailing,     \* bound: payments that may miss awards for an error or a crash (or an edit)
    ChampionOf      \* the amplifier rows: campaign |-> the users who champion it

ASSUME ChampionsAssumption == ChampionOf \in [Causes -> SUBSET Members]
ASSUME BootsAssumption == Boots \cap Payments = {}

VARIABLES
    rules,          \* the rows of points_rules: action code |-> is_active
    earned,         \* the rows of user_points_events: what for |-> how many
    settled,        \* the payments that have committed, and what they were
    awarding,       \* per process: the awards still to make, and where the first one is
    spoiled         \* history: payments whose awards met a crash, an error of the database
                    \* or an edited rule

pointsVars == <<rules, earned, settled, awarding, spoiled>>

ActionCodes == {"direct", "behalf_payer", "behalf_beneficiary", "champion", "split"}
Processes == Payments \cup Boots
Nobody == "nobody"
Award == [user : Members, action : ActionCodes]
Event == [user : Members, action : ActionCodes, source : Payments]
Payment == [kind : {"donation", "split"}, payer : Members, beneficiary : Members \cup {Nobody},
            champion : Members \cup {Nobody}, cause : Causes]

PointsTypeOK ==
    /\ rules \in [ActionCodes -> BOOLEAN] \/ rules = << >>
    /\ \A e \in DOMAIN earned : e \in Event /\ earned[e] \in 1..2
    /\ \A p \in DOMAIN settled : p \in Payments /\ settled[p] \in Payment
    /\ awarding \in [Processes -> [left : Seq(Award), at : {"idle", "count", "seed", "rule", "insert"}]]
    /\ spoiled \subseteq Payments
    /\ \A e \in DOMAIN earned : e.source \in DOMAIN settled

Idle == [left |-> << >>, at |-> "idle"]

PointsInit ==
    /\ rules = << >> /\ earned = << >> /\ settled = << >>
    /\ awarding = [p \in Processes |-> Idle] /\ spoiled = {}

\* The next award of a process, each of which seeds first; a server's boot has none.
Advance(p) ==
    LET rest == IF awarding[p].left = << >> THEN << >> ELSE Tail(awarding[p].left) IN
    awarding' = [awarding EXCEPT ![p] = [left |-> rest, at |-> IF rest = << >> THEN "idle" ELSE "count"]]

-----------------------------------------------------------------------------
(* The rules *)

onModuleInit(b) ==
    /\ awarding[b].at = "idle" /\ rules = << >>
    /\ awarding' = [awarding EXCEPT ![b].at = "count"] /\ UNCHANGED <<rules, earned, settled, spoiled>>

\* A table with rows in it is left alone.
seedDefaultRules(p) ==
    /\ awarding[p].at = "count" /\ UNCHANGED <<rules, earned, settled, spoiled>>
    /\ awarding' = [awarding EXCEPT ![p].at = IF rules = << >> THEN "seed" ELSE "rule"]

\* Mutant of SaveDefaults: rows that are there are overwritten.
SaveDefaults_Over(p) ==
    /\ awarding[p].at = "seed" /\ UNCHANGED <<earned, settled, spoiled>>
    /\ rules' = [a \in ActionCodes |-> TRUE] /\ awarding' = [awarding EXCEPT ![p].at = "rule"]

\* The defaults are inserted in one transaction; the code is unique, so where another
\* server was first the insert fails, and the failure is logged.
SaveDefaults(p) ==
    /\ awarding[p].at = "seed" /\ UNCHANGED <<earned, settled, spoiled>>
    /\ rules' = IF rules = << >> THEN [a \in ActionCodes |-> TRUE] ELSE rules
    /\ awarding' = [awarding EXCEPT ![p].at = "rule"]

FewFail(p) == Cardinality(spoiled \cup ({p} \cap Payments)) <= MaxFailing

\* Any other error of that insert is logged as well, and the award goes on.
SeedingFails(p) ==
    /\ FewFail(p)
    /\ awarding[p].at = "seed" /\ UNCHANGED <<rules, earned, settled>>
    /\ awarding' = [awarding EXCEPT ![p].at = "rule"] /\ spoiled' = spoiled \cup ({p} \cap Payments)

\* An administrator switches a rule off in the table.
EditRule ==
    /\ rules # << >> /\ Cardinality({a \in ActionCodes : ~rules[a]}) < MaxRuleEdits
    /\ \E a \in ActionCodes : rules[a] /\ rules' = [rules EXCEPT ![a] = FALSE]
    /\ spoiled' = spoiled \cup {p \in Payments : p \notin DOMAIN settled \/ awarding[p].at # "idle"}
    /\ UNCHANGED <<earned, settled, awarding>>

-----------------------------------------------------------------------------
(* The awards *)

\* The code a donor arrived with counts only for the campaign it was made for.
resolveReferrer(user, cause) == IF user \in ChampionOf[cause] THEN user ELSE Nobody

\* The ledger rows of one donation.
awardForDonation(t) ==
    (IF t.beneficiary = Nobody THEN <<[user |-> t.payer, action |-> "direct"]>>
     ELSE <<[user |-> t.payer, action |-> "behalf_payer"], [user |-> t.beneficiary, action |-> "behalf_beneficiary"]>>)
    \o (IF t.champion \in {Nobody, t.payer} THEN << >> ELSE <<[user |-> t.champion, action |-> "champion"]>>)

awardForSplitBillDonation(t) == <<[user |-> t.payer, action |-> "split"]>>

\* A donation commits, and its awards begin.
DonationSettles(p, t, code) ==
    LET paid == [t EXCEPT !.champion = IF code = Nobody THEN Nobody ELSE resolveReferrer(code, t.cause)] IN
    /\ p \notin DOMAIN settled /\ t.kind = "donation"
    /\ settled' = [q \in DOMAIN settled \cup {p} |-> IF q = p THEN paid ELSE settled[q]]
    /\ awarding' = [awarding EXCEPT ![p] = [left |-> awardForDonation(paid), at |-> "count"]]
    /\ spoiled' = IF rules = << >> \/ \A a \in ActionCodes : rules[a] THEN spoiled ELSE spoiled \cup {p}
    /\ UNCHANGED <<rules, earned>>

\* So does a payment of a bill that collects for a campaign.
BillPaymentSettles(p, t) ==
    /\ p \notin DOMAIN settled /\ t.kind = "split"
    /\ settled' = [q \in DOMAIN settled \cup {p} |-> IF q = p THEN t ELSE settled[q]]
    /\ awarding' = [awarding EXCEPT ![p] = [left |-> awardForSplitBillDonation(t), at |-> "count"]]
    /\ spoiled' = IF rules = << >> \/ \A a \in ActionCodes : rules[a] THEN spoiled ELSE spoiled \cup {p}
    /\ UNCHANGED <<rules, earned>>

\* The rule of the action is read: without one, or with one that is off, no row.
ReadRule(p) ==
    /\ awarding[p].at = "rule" /\ UNCHANGED <<rules, earned, settled, spoiled>>
    /\ IF p \in Payments /\ rules # << >> /\ rules[Head(awarding[p].left).action]
       THEN awarding' = [awarding EXCEPT ![p].at = "insert"] ELSE Advance(p)

\* Append-only: one more row, whatever rows there are.
Earn(p) ==
    LET row == [user |-> Head(awarding[p].left).user, action |-> Head(awarding[p].left).action, source |-> p] IN
    earned' = [e \in DOMAIN earned \cup {row} |->
                 IF e # row THEN earned[e] ELSE IF e \in DOMAIN earned THEN earned[e] + 1 ELSE 1]

\* Mutant of award: the row is inserted, and the award begins again.
award_Again(p) ==
    /\ awarding[p].at = "insert" /\ Cardinality(DOMAIN earned) < 3
    /\ Earn(p) /\ awarding' = [awarding EXCEPT ![p].at = IF earned = << >> THEN "count" ELSE "idle"]
    /\ UNCHANGED <<rules, settled, spoiled>>

award(p) ==
    /\ awarding[p].at = "insert" /\ Earn(p) /\ Advance(p) /\ UNCHANGED <<rules, settled, spoiled>>

\* An award whose count, rule or insert fails is logged and left out; the others go on.
\* A start of the server logs it too.
AwardFails(p) ==
    /\ FewFail(p)
    /\ awarding[p].at \in {"count", "rule", "insert"} /\ Advance(p)
    /\ spoiled' = spoiled \cup ({p} \cap Payments) /\ UNCHANGED <<rules, earned, settled>>

\* The server stops after the payment has committed, or what the awards need cannot be
\* read: the awards left are gone.
AwardsLost(p) ==
    /\ FewFail(p)
    /\ awarding[p].at # "idle" /\ awarding' = [awarding EXCEPT ![p] = Idle]
    /\ spoiled' = spoiled \cup ({p} \cap Payments) /\ UNCHANGED <<rules, earned, settled>>

PointsNext ==
    \/ \E b \in Boots : onModuleInit(b)
    \/ \E p \in Processes : seedDefaultRules(p) \/ SaveDefaults(p) \/ ReadRule(p) \/ award(p)
                             \/ SeedingFails(p) \/ AwardFails(p) \/ AwardsLost(p)
    \/ EditRule
    \/ \E p \in Payments, t \in Payment :
        \/ t.champion = Nobody /\ \E code \in Members \cup {Nobody} : DonationSettles(p, t, code)
        \/ t.champion = Nobody /\ t.beneficiary = Nobody /\ BillPaymentSettles(p, t)

-----------------------------------------------------------------------------

\* One payment never rewards one person twice for one thing, whatever servers seed
\* the rules at the same time (points.service award).
AwardedOnce == \A e \in DOMAIN earned : earned[e] = 1

\* Nobody earns as the champion of their own donation, nor of a campaign they do not
\* champion, whatever code the donor arrived with (points.service:355, donation.service:84).
ChampionsOthersDonations ==
    \A e \in DOMAIN earned : e.action = "champion" =>
        e.user # settled[e.source].payer /\ e.user \in ChampionOf[settled[e.source].cause]

\* A payment whose awards were not cut off by a crash, left out for an error nor met by a
\* switched-off rule has paid every point it should, also where it found the table empty,
\* another server seeded at the same time, or failed to (the "self-heal" of
\* points.service:133).
EarnedWhenUndisturbed ==
    \A p \in DOMAIN settled \ spoiled : awarding[p].at = "idle" =>
        LET t == settled[p]
            due == IF t.kind = "split" THEN awardForSplitBillDonation(t) ELSE awardForDonation(t) IN
        \A i \in DOMAIN due : [user |-> due[i].user, action |-> due[i].action, source |-> p] \in DOMAIN earned

\* A rule the administrator has switched off stays off: no boot and no award seeds over
\* it ("admin edits stick", points.service:74).
EditsStick ==
    [rules # << >> => \A a \in ActionCodes : ~rules[a] => ~rules'[a]]_pointsVars
=============================================================================
