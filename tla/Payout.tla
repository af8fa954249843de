------------------------------- MODULE Payout -------------------------------
(***************************************************************************)
(* Refunds parked for guests (pending-payout.service.ts): created when a   *)
(* bill is cancelled, announced out of band, claimed when the guest signs  *)
(* up or verifies the phone, returned to the bill's creator after 90 days. *)
(* All payouts here wait for the same phone number.                        *)
(*                                                                         *)
(* A claim and a return insert a transaction row without a reference.  The *)
(* column is unique, not null and has no default: a strict MySQL refuses   *)
(* the row, another one stores the empty string, once.                     *)
(***************************************************************************)
EXTENDS Naturals, FiniteSets

CONSTANTS
    Payouts,        \* guests' refunds
    Claims          \* claims under way at the same time

VARIABLES
    payout,         \* the rows of pending_payouts
    creatorOf,      \* what the creator of the bill has to be paid on
    notifying,      \* payouts whose announcement is being sent, as they were created
    claiming,       \* what each claim has found, before its transaction
    sweeping,       \* what the sweep has found and not yet treated
    strict,         \* the database refuses a missing value
    references,     \* references of transactions: the empty one is taken
    credited,       \* how often each payout was credited to a wallet
    reopened        \* history: an announcement was saved over a row that had been closed

payoutVars == <<payout, creatorOf, notifying, claiming, sweeping, strict, references, credited, reopened>>

PayoutStatus == {"none", "PENDING", "CLAIMED", "RETURNED", "EXPIRED"}
NoClaim == {}
Pending == {p \in Payouts : payout[p].status = "PENDING"}

PayoutTypeOK ==
    /\ payout \in [Payouts -> [status : PayoutStatus, due : BOOLEAN]]
    /\ creatorOf \in [Payouts -> {"wallet", "noWallet", "nobody"}]
    /\ {notifying, sweeping, reopened} \subseteq SUBSET Payouts /\ claiming \in [Claims -> SUBSET Payouts]
    /\ strict \in BOOLEAN /\ references \in BOOLEAN /\ credited \in [Payouts -> Nat]
    /\ \A p \in Payouts :
         /\ payout[p].status \in {"RETURNED", "EXPIRED"} => payout[p].due
         /\ payout[p].status = "EXPIRED" => creatorOf[p] # "wallet"

PayoutInit ==
    /\ payout = [p \in Payouts |-> [status |-> "none", due |-> FALSE]]
    /\ creatorOf \in [Payouts -> {"wallet", "noWallet", "nobody"}]
    /\ notifying = {} /\ claiming = [c \in Claims |-> NoClaim] /\ sweeping = {}
    /\ strict \in BOOLEAN /\ references = FALSE
    /\ credited = [p \in Payouts |-> 0] /\ reopened = {}

\* Part of the cancellation's transaction; the announcement follows.
createForGuestCancel(p) ==
    /\ payout[p].status = "none"
    /\ payout' = [payout EXCEPT ![p].status = "PENDING"]
    /\ notifying' = notifying \cup {p}
    /\ UNCHANGED <<creatorOf, claiming, sweeping, strict, references, credited, reopened>>

\* After the messages, the row is saved as it was created, its status included.
notify(p) ==
    /\ p \in notifying
    /\ notifying' = notifying \ {p}
    /\ payout' = [payout EXCEPT ![p].status = "PENDING"]
    /\ reopened' = IF p \in Pending THEN reopened ELSE reopened \cup {p}
    /\ UNCHANGED <<creatorOf, claiming, sweeping, strict, references, credited>>

NinetyDays(p) ==
    /\ payout[p].status # "none" /\ ~payout[p].due /\ p \notin notifying
    /\ payout' = [payout EXCEPT ![p].due = TRUE]
    /\ UNCHANGED <<creatorOf, notifying, claiming, sweeping, strict, references, credited, reopened>>

-----------------------------------------------------------------------------
(* Crediting: the insert of the transaction row decides *)

Insertable(rows) == rows = {} \/ (~strict /\ ~references /\ Cardinality(rows) = 1)

\* Mutant of Credit: every transaction has a reference of its own.
Credit_OwnReference(rows, status) ==
    /\ payout' = [p \in Payouts |-> IF p \in rows THEN [payout[p] EXCEPT !.status = status] ELSE payout[p]]
    /\ credited' = [p \in Payouts |-> IF p \in rows THEN credited[p] + 1 ELSE credited[p]]
    /\ UNCHANGED references

\* All of the rows or, rolled back, none.
Credit(rows, status) ==
    IF Insertable(rows)
    THEN /\ payout' = [p \in Payouts |-> IF p \in rows THEN [payout[p] EXCEPT !.status = status] ELSE payout[p]]
         /\ credited' = [p \in Payouts |-> IF p \in rows THEN credited[p] + 1 ELSE credited[p]]
         /\ references' = (references \/ rows # {})
    ELSE UNCHANGED <<payout, credited, references>>

claimForUser(c) ==
    /\ claiming[c] = NoClaim /\ Pending # {}
    /\ claiming' = [claiming EXCEPT ![c] = Pending]
    /\ UNCHANGED <<payout, creatorOf, notifying, sweeping, strict, references, credited, reopened>>

\* In one transaction, rows that are no longer pending skipped.  Without an active
\* wallet it is given up.
CommitClaim(c) ==
    /\ claiming[c] # NoClaim
    /\ claiming' = [claiming EXCEPT ![c] = NoClaim]
    /\ Credit(claiming[c] \cap Pending, "CLAIMED") \/ UNCHANGED <<payout, credited, references>>
    /\ UNCHANGED <<creatorOf, notifying, sweeping, strict, reopened>>

runExpirySweep ==
    /\ sweeping = {}
    /\ sweeping' = {p \in Pending : payout[p].due}
    /\ UNCHANGED <<payout, creatorOf, notifying, claiming, strict, references, credited, reopened>>

\* One transaction each; without a creator the status is set whatever it has become.
returnToBillCreator(p) ==
    /\ p \in sweeping
    /\ sweeping' = sweeping \ {p}
    /\ \/ /\ creatorOf[p] = "nobody" \/ (creatorOf[p] = "noWallet" /\ p \in Pending)
          /\ payout' = [payout EXCEPT ![p].status = "EXPIRED"]
          /\ UNCHANGED <<credited, references>>
       \/ creatorOf[p] = "wallet" /\ Credit({p} \cap Pending, "RETURNED")
       \/ creatorOf[p] = "noWallet" /\ p \notin Pending /\ UNCHANGED <<payout, credited, references>>
    /\ reopened' = IF creatorOf[p] = "nobody" /\ p \notin Pending THEN reopened \cup {p} ELSE reopened
    /\ UNCHANGED <<creatorOf, notifying, claiming, strict>>

PayoutNext ==
    \/ \E p \in Payouts : createForGuestCancel(p) \/ notify(p) \/ NinetyDays(p) \/ returnToBillCreator(p)
    \/ \E c \in Claims : claimForUser(c) \/ CommitClaim(c)
    \/ runExpirySweep

-----------------------------------------------------------------------------
(* Properties *)

\* A payout is closed as paid exactly when it was credited once, whatever claims and
\* sweeps cross, unless an announcement (or the sweep, for a bill without a creator)
\* was written over a row already closed.
ClosedWhenCredited ==
    \A p \in Payouts \ reopened :
        /\ payout[p].status \in {"CLAIMED", "RETURNED"} <=> credited[p] > 0
        /\ credited[p] <= 1

\* Even a payout that an announcement has reopened is not credited again: the second
\* transaction row would need the reference of the first.
NeverCreditedTwice == \A p \in Payouts : credited[p] <= 1

\* "the row is consumed the moment they verify the same phone number": what a claim
\* with an active wallet found pending is closed afterwards.
\* Not so: see Insertable.
ClaimConsumes ==
    [][\A c \in Claims : CommitClaim(c) => claiming[c] \cap {p \in Payouts : payout'[p].status = "PENDING"} = {}]_payoutVars
=============================================================================
