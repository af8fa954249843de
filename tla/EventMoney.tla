----------------------------- MODULE EventMoney -----------------------------
(***************************************************************************)
(* Contributions to an event: from the wallet (event.service.ts            *)
(* contribute), where the balance is checked before the transaction that   *)
(* locks the money, and by card, which a webhook books, several deliveries *)
(* at a time (payment-webhook.service.ts).  A contribution may be made in  *)
(* the name of somebody else.                                              *)
(***************************************************************************)
EXTENDS Integers, FiniteSets, Functions

CONSTANTS
    Givers,         \* who contributes
    GiveCalls,      \* requests and webhooks served at the same time
    References,     \* bound: contributions, each with its reference
    GiftAmounts,    \* amounts given
    Funds,          \* what each wallet starts with
    LeaderboardSize \* places on the leaderboard (10)

ASSUME GiversAssumption == IsFiniteSet(Givers)
ASSUME FundsAssumption == GiftAmounts \subseteq Nat \ {0} /\ Funds \in Nat
ASSUME LeaderboardAssumption == LeaderboardSize \in Nat

VARIABLES
    raised,         \* amount_raised of the event
    gifts,          \* the rows of event_contributions, with the reference of their transaction
    available,      \* what each wallet can spend
    eventEscrow,    \* what is locked for the event
    charges,        \* card payments begun, with what they carry
    giving,         \* what each request does and has read
    notFound,       \* history: money that lockIntoEscrow did not find
    overlapped,     \* history: a wallet was spent from while a request had checked its balance
    referencesUsed  \* references given out

moneyVars == <<raised, gifts, available, eventEscrow, charges, giving, notFound, overlapped, referencesUsed>>

Gift == [ref : References, by : {"wallet", "card"}, giver : Givers, credited : Givers, amount : GiftAmounts]
NoGiving == {}
Sum(f) == FoldFunction(LAMBDA x, y : x + y, 0, f)
SumOfGifts(rows) == Sum([g \in rows |-> g.amount])

MoneyTypeOK ==
    /\ raised \in Nat /\ gifts \subseteq Gift /\ available \in [Givers -> Nat] /\ eventEscrow \in Nat
    /\ charges \subseteq Gift /\ giving \in [GiveCalls -> SUBSET Gift] /\ notFound \in Nat
    /\ overlapped \in BOOLEAN /\ referencesUsed \subseteq References
    /\ {g.ref : g \in gifts \cup charges} \subseteq referencesUsed
    /\ \A g \in gifts, c \in charges : g.ref = c.ref => g = c

MoneyInit ==
    /\ raised = 0 /\ gifts = {} /\ available = [g \in Givers |-> Funds] /\ eventEscrow = 0
    /\ charges = {} /\ giving = [r \in GiveCalls |-> NoGiving] /\ notFound = 0
    /\ overlapped = FALSE /\ referencesUsed = {}

NewReference(ref) ==
    /\ ref \in References \ referencesUsed /\ \A x \in References \ referencesUsed : ref <= x
    /\ referencesUsed' = referencesUsed \cup {ref}

\* A card payment is begun and forgotten; a payment from the wallet has checked the
\* PIN and the balance.
contribute(r, gift) ==
    /\ giving[r] = NoGiving /\ NewReference(gift.ref)
    /\ IF gift.by = "card"
       THEN charges' = charges \cup {gift} /\ UNCHANGED giving
       ELSE /\ available[gift.giver] >= gift.amount
            /\ giving' = [giving EXCEPT ![r] = {gift}] /\ UNCHANGED charges
    /\ UNCHANGED <<raised, gifts, available, eventEscrow, notFound, overlapped>>

\* Mutant of Book: the total of the event is left to another request.
Book_NoTotal(gift) == gifts' = gifts \cup {gift} /\ UNCHANGED raised

\* The contribution and the total of the event.
Book(gift) == gifts' = gifts \cup {gift} /\ raised' = raised + gift.amount

CheckedBy(giver) == {r \in GiveCalls : \E g \in giving[r] : g.by = "wallet" /\ g.giver = giver}

\* One transaction; lockIntoEscrow moves what is there and says nothing if it is not.
PayGift(r) ==
    \E gift \in giving[r] :
        /\ gift.by = "wallet"
        /\ giving' = [giving EXCEPT ![r] = NoGiving]
        /\ IF available[gift.giver] >= gift.amount
           THEN /\ available' = [available EXCEPT ![gift.giver] = @ - gift.amount]
                /\ eventEscrow' = eventEscrow + gift.amount /\ UNCHANGED notFound
           ELSE notFound' = notFound + gift.amount /\ UNCHANGED <<available, eventEscrow>>
        /\ overlapped' = (overlapped \/ CheckedBy(gift.giver) # {r})
        /\ Book(gift) /\ UNCHANGED <<charges, referencesUsed>>

\* The wallet is spent on something else.
SpendElsewhere(giver, amount) ==
    /\ available[giver] >= amount
    /\ available' = [available EXCEPT ![giver] = @ - amount]
    /\ overlapped' = (overlapped \/ CheckedBy(giver) # {})
    /\ UNCHANGED <<raised, gifts, eventEscrow, charges, giving, notFound, referencesUsed>>

\* A webhook looks for the transaction of its reference, which is not locked.
ReceiveWebhook(r, gift) ==
    /\ giving[r] = NoGiving /\ gift \in charges
    /\ ~\E g \in gifts : g.ref = gift.ref
    /\ giving' = [giving EXCEPT ![r] = {gift}]
    /\ UNCHANGED <<raised, gifts, available, eventEscrow, charges, notFound, overlapped, referencesUsed>>

\* The transaction's reference is unique: a second insert fails and all is rolled back.
processEventContributionWebhook(r) ==
    \E gift \in giving[r] :
        /\ gift.by = "card"
        /\ giving' = [giving EXCEPT ![r] = NoGiving]
        /\ IF \E g \in gifts : g.ref = gift.ref THEN UNCHANGED <<gifts, raised>> ELSE Book(gift)
        /\ UNCHANGED <<available, eventEscrow, charges, notFound, overlapped, referencesUsed>>

Given(person) == SumOfGifts({g \in gifts : g.credited = person})
Contributors == {g.credited : g \in gifts}

\* Who is on the leaderboard: those who gave most, in any order where they gave the same.
Leaders ==
    {top \in SUBSET Contributors :
        /\ Cardinality(top) <= LeaderboardSize
        /\ Cardinality(top) < LeaderboardSize => top = Contributors
        /\ \A p \in top, q \in Contributors \ top : Given(q) <= Given(p)}

\* What the leaderboard may show, and of whom.
getLeaderboard == {[p \in top |-> Given(p)] : top \in Leaders}

MoneyNext ==
    \/ \E r \in GiveCalls :
         \/ \E gift \in Gift : contribute(r, gift)
         \/ \E gift \in charges : ReceiveWebhook(r, gift)
         \/ PayGift(r) \/ processEventContributionWebhook(r)
    \/ \E giver \in Givers, amount \in GiftAmounts : SpendElsewhere(giver, amount)

-----------------------------------------------------------------------------
(* Properties *)

\* What the event shows as raised is what its contributions add up to, although the two
\* are written by different statements; its leaderboard never adds up to more, and to as
\* much when everybody who gave has a place on it.
RaisedIsSum ==
    /\ raised = SumOfGifts(gifts)
    /\ \A board \in getLeaderboard :
         /\ Sum(board) <= raised
         /\ DOMAIN board = Contributors => Sum(board) = raised

\* Behind every contribution there is money, once: locked in the event's escrow or
\* charged to a card; only requests that overlap on one wallet leave some out.
MoneyBehindGifts ==
    /\ SumOfGifts({g \in gifts : g.by = "wallet"}) = eventEscrow + notFound
    /\ {g \in gifts : g.by = "card"} \subseteq charges
    /\ ~overlapped => notFound = 0

\* A contribution is paid by who makes it, in whoever's name it is.
PaidByGiver ==
    \A giver \in Givers :
        available[giver] + SumOfGifts({g \in gifts : g.by = "wallet" /\ g.giver = giver}) <= Funds + notFound
=============================================================================
