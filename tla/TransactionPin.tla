--------------------------- MODULE TransactionPin ---------------------------
(***************************************************************************)
(* The PIN of a wallet (wallet.service.ts): setting, changing and          *)
(* verifying it, the count of wrong tries and the lock.  A request reads   *)
(* the wallet without a lock, compares hashes for a while, and then        *)
(* updates the columns of the PIN.                                         *)
(***************************************************************************)
EXTENDS Naturals

CONSTANTS
    PinCalls,               \* requests served at the same time
    MAX_PIN_ATTEMPTS,
    PIN_LOCK_MINUTES,       \* in the unit of the clock below
    MaxPinTime, MaxTries    \* bounds: the clock, requests

ASSUME PinAssumption ==
    /\ MAX_PIN_ATTEMPTS \in Nat \ {0} /\ PIN_LOCK_MINUTES \in Nat \ {0}
    /\ MaxPinTime \in Nat /\ MaxTries \in Nat

VARIABLES
    pin,            \* the columns of the wallet
    trying,         \* what each request does and the columns it has read
    minute,         \* the time
    wrong,          \* history: wrong tries since the last success
    unlockAt,       \* history: when the lock of the last try too many ends
    pinStale,       \* history: a request wrote on columns that had changed
    tries           \* counter of the bound

pinVars == <<pin, trying, minute, wrong, unlockAt, pinStale, tries>>

PinRow == [set : BOOLEAN, failed : Nat, lockedUntil : Nat]
PinOps == {"none", "setTransactionPin", "changeTransactionPin", "verifyTransactionPin"}
NoPin == [set |-> FALSE, failed |-> 0, lockedUntil |-> 0]
NotTrying == [op |-> "none", right |-> FALSE, row |-> NoPin]

PinTypeOK ==
    /\ pin \in PinRow /\ trying \in [PinCalls -> [op : PinOps, right : BOOLEAN, row : PinRow]]
    /\ minute \in 0..MaxPinTime /\ tries \in 0..MaxTries
    /\ wrong \in Nat /\ unlockAt \in Nat /\ pinStale \in BOOLEAN
    /\ pin.lockedUntil > 0 => pin.set /\ (pinStale \/ pin.failed >= MAX_PIN_ATTEMPTS)

PinInit ==
    /\ pin = NoPin /\ trying = [r \in PinCalls |-> NotTrying]
    /\ minute = 0 /\ wrong = 0 /\ unlockAt = 0 /\ pinStale = FALSE /\ tries = 0

Try(r, op, right) ==
    /\ trying[r].op = "none" /\ tries < MaxTries /\ tries' = tries + 1
    /\ trying' = [trying EXCEPT ![r] = [op |-> op, right |-> right, row |-> pin]]
    /\ UNCHANGED <<pin, minute, wrong, unlockAt, pinStale>>

Tried(r, op, right) ==
    /\ trying[r].op = op /\ trying[r].right = right
    /\ trying' = [trying EXCEPT ![r] = NotTrying]
    /\ pinStale' = (pinStale \/ trying[r].row # pin)
    /\ UNCHANGED <<minute, tries>>

assertPinNotLocked == pin.lockedUntil <= minute

setTransactionPin(r) == ~pin.set /\ Try(r, "setTransactionPin", TRUE)

changeTransactionPin(r) ==
    pin.set /\ assertPinNotLocked /\ \E right \in BOOLEAN : Try(r, "changeTransactionPin", right)

verifyTransactionPin(r) ==
    pin.set /\ assertPinNotLocked /\ \E right \in BOOLEAN : Try(r, "verifyTransactionPin", right)

WritePin(r) ==
    /\ Tried(r, "setTransactionPin", TRUE) \/ Tried(r, "changeTransactionPin", TRUE)
    /\ pin' = [set |-> TRUE, failed |-> 0, lockedUntil |-> 0]
    /\ wrong' = 0 /\ UNCHANGED unlockAt

\* The count is cleared only if the row that was read had one.
AcceptPin(r) ==
    /\ Tried(r, "verifyTransactionPin", TRUE)
    /\ pin' = IF trying[r].row.failed > 0 THEN [pin EXCEPT !.failed = 0, !.lockedUntil = 0] ELSE pin
    /\ wrong' = 0 /\ UNCHANGED unlockAt

\* The count is the one that was read plus one; a lock that has passed leaves it at
\* the limit, so that the next wrong try locks again.
incrementPinFailedAttempts(r) ==
    /\ Tried(r, "verifyTransactionPin", FALSE) \/ Tried(r, "changeTransactionPin", FALSE)
    /\ LET count == trying[r].row.failed + 1 IN
       pin' = IF count >= MAX_PIN_ATTEMPTS
              THEN [pin EXCEPT !.failed = count, !.lockedUntil = minute + PIN_LOCK_MINUTES]
              ELSE [pin EXCEPT !.failed = count]
    /\ wrong' = wrong + 1
    /\ unlockAt' = IF wrong' >= MAX_PIN_ATTEMPTS THEN minute + PIN_LOCK_MINUTES ELSE unlockAt

PinClock ==
    /\ minute < MaxPinTime /\ minute' = minute + 1
    /\ UNCHANGED <<pin, trying, wrong, unlockAt, pinStale, tries>>

PinNext ==
    \/ \E r \in PinCalls :
         \/ setTransactionPin(r) \/ changeTransactionPin(r) \/ verifyTransactionPin(r)
         \/ WritePin(r) \/ AcceptPin(r) \/ incrementPinFailedAttempts(r)
    \/ PinClock

-----------------------------------------------------------------------------
(* Properties *)

\* The column counts the wrong tries since the last success, through locks, changes
\* of the PIN and payments, unless two tries overlap.
FailuresAreCounted == ~pinStale => pin.failed = wrong

\* While the lock of one wrong try too many lasts, no PIN is accepted, right or wrong,
\* to pay or to change it: only tries that overlap get past it.
LockHolds ==
    [\A r \in PinCalls :
       trying'[r].op \in {"changeTransactionPin", "verifyTransactionPin"} /\ trying[r].op = "none" /\ ~pinStale
       => minute >= unlockAt]_pinVars
=============================================================================
