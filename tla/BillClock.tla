----------------------------- MODULE BillClock -----------------------------
(***************************************************************************)
(* What the clock does to a split bill: the daily due-date sweep           *)
(* (split-bill-due-reminder.service), the reminders that the creator sends *)
(* (sendReminders), and the hourly removal of cancelled bills              *)
(* (split-bill-retention.service).  Each sweep first reads the bills and   *)
(* writes later; the bill is paid, cancelled and reopened meanwhile.       *)
(* Times are in hours from midnight of the first day.                      *)
(***************************************************************************)
EXTENDS Integers, FiniteSets

CONSTANTS
    Dues,           \* due dates of the bill
    SweepHours,     \* hours of the day at which the sweep starts: the scheduled one and its retries
    Hour,           \* bound: the clock moves by this many hours
    LastHour,       \* bound: the end of time
    MaxClockEvents  \* bound: reminders by hand, payments, cancellations, crashes

ASSUME HourAssumption == Hour \in 1..24 /\ 24 % Hour = 0 /\ LastHour \in Nat /\ Dues \subseteq Nat
ASSUME SweepAssumption == (\E h \in SweepHours : h \in 0..23 /\ h % Hour = 0) /\ MaxClockEvents \in Nat

VARIABLES
    now,            \* the time
    due,            \* dueDate
    state,          \* status of the bill
    lastReminderAt, reminderSentCount,
    cancelledAt,
    hidden,         \* deletedAt is set
    sweep,          \* the due-date sweep: its step, its time and the count it has read
    pruning,        \* the removal has found the bill
    nudges,         \* history: times of the sweeps' reminders
    sent,           \* history: reminders sent, by the sweep and by hand
    lapsed,         \* history: a sweep died before it wrote, or a reminder by hand crossed it
    reopened,       \* history: the bill was reopened since the removal found it
    clockEvents     \* counter of the bound

clockVars == <<now, due, state, lastReminderAt, reminderSentCount, cancelledAt, hidden, sweep,
               pruning, nudges, sent, lapsed, reopened, clockEvents>>

Never == -1000
Open == {"active", "partially_paid", "overdue"}
NoSweep == [step |-> "idle", at |-> Never, count |-> 0]

ClockTypeOK ==
    /\ now \in 0..LastHour /\ due \in Dues /\ state \in Open \cup {"funded", "cancelled"}
    /\ {lastReminderAt, cancelledAt} \subseteq (0..now) \cup {Never}
    /\ reminderSentCount \in 0..sent /\ sent \in Nat
    /\ sweep \in [step : {"idle", "notify", "write"}, at : (0..now) \cup {Never}, count : 0..sent]
    /\ nudges \subseteq 0..now
    /\ hidden \in BOOLEAN /\ pruning \in BOOLEAN /\ lapsed \in BOOLEAN /\ reopened \in BOOLEAN
    /\ state = "cancelled" => cancelledAt # Never
    /\ clockEvents \in 0..MaxClockEvents

ClockInit ==
    /\ now = 0 /\ due \in Dues /\ state \in {"active", "overdue"}
    /\ lastReminderAt = Never /\ reminderSentCount = 0 /\ cancelledAt = Never /\ hidden = FALSE
    /\ sweep = NoSweep /\ pruning = FALSE /\ nudges = {} /\ sent = 0
    /\ lapsed = FALSE /\ reopened = FALSE /\ clockEvents = 0

bill == <<due, state, lastReminderAt, reminderSentCount, cancelledAt, hidden>>
Event == clockEvents < MaxClockEvents /\ clockEvents' = clockEvents + 1

-----------------------------------------------------------------------------
(* sweepDueBills *)

\* From three days overdue to due within a day.
DueWindow(t) == due \in (t - 3 * 24) .. (t + 24)

RemindedRecently(t) == lastReminderAt > t - 20

FindDue ==
    /\ now % 24 \in SweepHours /\ sweep.step = "idle" /\ sweep.at # now
    /\ sweep' = IF ~hidden /\ state \in Open /\ DueWindow(now) /\ ~RemindedRecently(now)
                THEN [step |-> "notify", at |-> now, count |-> reminderSentCount]
                ELSE [NoSweep EXCEPT !.at = now]
    /\ UNCHANGED <<now, bill, pruning, nudges, sent, lapsed, reopened, clockEvents>>

\* What the reminder says: whole days left, rounded down.
Headline(t) ==
    LET days == (due - t) \div 24
    IN IF days >= 1 THEN "due tomorrow" ELSE IF days = 0 THEN "due today" ELSE "overdue"

\* _notifyBill: the failures of single notifications are caught.
Notify ==
    /\ sweep.step = "notify"
    /\ sweep' = [sweep EXCEPT !.step = "write"]
    /\ nudges' = nudges \cup {sweep.at} /\ sent' = sent + 1
    /\ UNCHANGED <<now, bill, pruning, lapsed, reopened, clockEvents>>

\* The count is the one that was read, plus one.
WriteReminded ==
    /\ sweep.step = "write"
    /\ lastReminderAt' = sweep.at /\ reminderSentCount' = sweep.count + 1
    /\ sweep' = [NoSweep EXCEPT !.at = sweep.at]
    /\ UNCHANGED <<now, due, state, cancelledAt, hidden, pruning, nudges, sent, lapsed, reopened, clockEvents>>

SweepDies ==
    /\ sweep.step = "write" /\ Event
    /\ sweep' = [NoSweep EXCEPT !.at = sweep.at]
    /\ lapsed' = TRUE
    /\ UNCHANGED <<now, bill, pruning, nudges, sent, reopened>>

\* By hand, any time; the database adds one to the count.
sendReminders ==
    /\ ~hidden /\ state # "cancelled" /\ Event
    /\ lastReminderAt' = now /\ reminderSentCount' = reminderSentCount + 1 /\ sent' = sent + 1
    /\ lapsed' = (lapsed \/ sweep.step # "idle")
    /\ UNCHANGED <<now, due, state, cancelledAt, hidden, sweep, pruning, nudges, reopened>>

-----------------------------------------------------------------------------
(* pruneCancelledBills *)

PastGrace == state = "cancelled" /\ cancelledAt < now - 6

FindCancelled ==
    /\ ~pruning /\ ~hidden /\ PastGrace
    /\ pruning' = TRUE /\ reopened' = FALSE
    /\ UNCHANGED <<now, bill, sweep, nudges, sent, lapsed, clockEvents>>

\* The rows that were found, whatever became of them.
SoftDeleteCancelled ==
    /\ pruning /\ pruning' = FALSE /\ hidden' = TRUE
    /\ UNCHANGED <<now, due, state, lastReminderAt, reminderSentCount, cancelledAt, sweep, nudges, sent,
                   lapsed, reopened, clockEvents>>

-----------------------------------------------------------------------------
(* The bill and the time *)

PayOff ==
    /\ ~hidden /\ state \in Open /\ Event
    /\ state' = "funded"
    /\ UNCHANGED <<now, due, lastReminderAt, reminderSentCount, cancelledAt, hidden, sweep, pruning, nudges,
                   sent, lapsed, reopened>>

CancelIt ==
    /\ ~hidden /\ state # "cancelled" /\ Event
    /\ state' = "cancelled" /\ cancelledAt' = now
    /\ UNCHANGED <<now, due, lastReminderAt, reminderSentCount, hidden, sweep, pruning, nudges, sent, lapsed, reopened>>

\* A card payment that arrives for a cancelled bill (SplitBill).
ReopenByCard ==
    /\ state = "cancelled" /\ Event
    /\ state' = "partially_paid" /\ reopened' = TRUE
    /\ UNCHANGED <<now, due, lastReminderAt, reminderSentCount, cancelledAt, hidden, sweep, pruning, nudges, sent, lapsed>>

\* The server is up: no scheduled sweep is left out, and a sweep or a removal ends
\* before the clock moves on.
Elapse ==
    /\ now + Hour <= LastHour /\ now' = now + Hour
    /\ sweep.step = "idle" /\ (now % 24 \in SweepHours => sweep.at = now)
    /\ ~pruning /\ (~hidden => ~PastGrace)
    /\ UNCHANGED <<bill, sweep, pruning, nudges, sent, lapsed, reopened, clockEvents>>

ClockNext ==
    \/ FindDue \/ Notify \/ WriteReminded \/ SweepDies \/ sendReminders
    \/ FindCancelled \/ SoftDeleteCancelled
    \/ PayOff \/ CancelIt \/ ReopenByCard \/ Elapse

-----------------------------------------------------------------------------
(* Properties *)

\* Two reminders of the sweep are more than 19 hours apart, whatever retries run,
\* unless a sweep died between sending and writing.
NudgesAreSpaced == ~lapsed => \A s, t \in nudges : s < t => t - s >= 20

\* Nobody is left unwarned: a bill that is open when its due date passes has had a
\* reminder, from the sweep or by hand, in the 44 hours before.
WarnedBeforeDue ==
    /\ now > due /\ due >= 24 /\ state \in Open /\ cancelledAt = Never /\ ~hidden /\ ~lapsed
    => lastReminderAt >= due - 44

\* reminderSentCount counts the reminders, those of the sweep and those by hand, as
\* long as no sweep died and none crossed a reminder by hand.
ReminderCountIsTrue == sweep.step = "idle" /\ ~lapsed => reminderSentCount = sent

\* "After that we stop bumping": five reminders of the sweep at most for one due
\* date, whatever retries run and however long the bill stays unpaid.
FiveNudgesAtMost == ~lapsed => Cardinality(nudges) <= 5

\* A bill disappears six hours after its cancellation at the earliest; one that a
\* late card payment has reopened only if the removal had found it before.
HiddenAfterGrace ==
    [hidden' # hidden => (state = "cancelled" /\ cancelledAt < now - 6) \/ reopened]_clockVars

\* "ON the due date ("due today")": a reminder says so on that day and on no other.
\* It does not: at nine o'clock a bill that is due at midnight is "due today" the
\* day before and "overdue" on the day.
HeadlineTellsTheDay ==
    sweep.step = "write" => (Headline(sweep.at) = "due today" <=> due \div 24 = sweep.at \div 24)
=============================================================================
