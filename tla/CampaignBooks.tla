--------------------------- MODULE CampaignBooks ---------------------------
(***************************************************************************)
(* The vendors and the expenditures a creator lists on a campaign          *)
(* (campaign-vendor.service, campaign-expenditure.service): rows that are  *)
(* loaded, changed field by field, and saved, or removed, by requests of   *)
(* the creator's that may overlap (a second tab, a repeated tap).          *)
(***************************************************************************)
EXTENDS Naturals, FiniteSets

CONSTANTS
    BookCalls,      \* requests served at the same time
    BookIds,        \* bound: rows ever inserted
    Fields,         \* the fields an edit may set or leave out
    Values          \* what a field may hold

VARIABLES
    rows,           \* the table: id |-> the fields
    booking,        \* what each request does, and the row it has loaded, as it will be saved
    idsUsed,        \* ids taken
    wanted,         \* history: for each row, the values last asked for
    removed,        \* history: rows a remove has deleted
    crossedRows      \* history: rows two requests had loaded at the same time

bookVars == <<rows, booking, idsUsed, wanted, removed, crossedRows>>

BookRow == [Fields -> Values]
NoBooking == [op |-> "none", id |-> 0]
Loaded(r, op, i) == booking[r].op = op /\ booking[r].id = i

BooksTypeOK ==
    /\ idsUsed \subseteq BookIds /\ DOMAIN rows \subseteq idsUsed /\ DOMAIN wanted = idsUsed
    /\ \A i \in DOMAIN rows : rows[i] \in BookRow /\ wanted[i] \in BookRow
    /\ \A r \in BookCalls : booking[r].op \in {"none", "remove"} \/ (booking[r].op = "save" /\ booking[r].new \in BookRow)
    /\ removed \subseteq idsUsed /\ crossedRows \subseteq idsUsed

BooksInit ==
    /\ rows = << >> /\ booking = [r \in BookCalls |-> NoBooking] /\ idsUsed = {}
    /\ wanted = << >> /\ removed = {} /\ crossedRows = {}

Put(f, i, v) == [j \in DOMAIN f \cup {i} |-> IF j = i THEN v ELSE f[j]]
NextIds(n) == {i \in BookIds \ idsUsed : Cardinality({j \in BookIds \ idsUsed : j < i}) < n}

\* create, and createMany with the vendors of a new campaign: all of them in one save.
createMany(n, row) ==
    LET new == NextIds(n) IN
    /\ Cardinality(new) = n /\ idsUsed' = idsUsed \cup new
    /\ rows' = [i \in DOMAIN rows \cup new |-> IF i \in new THEN row ELSE rows[i]]
    /\ wanted' = [i \in DOMAIN wanted \cup new |-> IF i \in new THEN row ELSE wanted[i]]
    /\ UNCHANGED <<booking, removed, crossedRows>>

Others(r, i) == \E q \in BookCalls \ {r} : booking[q].op # "none" /\ booking[q].id = i

\* The row is loaded, the fields of the request are set in it.
updateBook(r, i, patch) ==
    /\ booking[r].op = "none" /\ i \in DOMAIN rows
    /\ booking' = [booking EXCEPT ![r] = [op |-> "save", id |-> i, set |-> DOMAIN patch,
                       new |-> [f \in Fields |-> IF f \in DOMAIN patch THEN patch[f] ELSE rows[i][f]]]]
    /\ crossedRows' = IF Others(r, i) THEN crossedRows \cup {i} ELSE crossedRows
    /\ UNCHANGED <<rows, idsUsed, wanted, removed>>

\* All of it is written, over what others wrote since, and again if it is gone.
SaveBook(r) ==
    LET b == booking[r] IN
    /\ b.op = "save" /\ rows' = Put(rows, b.id, b.new)
    /\ wanted' = [wanted EXCEPT ![b.id] = [f \in Fields |-> IF f \in b.set THEN b.new[f] ELSE @[f]]]
    /\ booking' = [booking EXCEPT ![r] = NoBooking] /\ UNCHANGED <<idsUsed, removed, crossedRows>>

removeBook(r, i) ==
    /\ booking[r].op = "none" /\ i \in DOMAIN rows
    /\ booking' = [booking EXCEPT ![r] = [op |-> "remove", id |-> i]]
    /\ crossedRows' = IF Others(r, i) THEN crossedRows \cup {i} ELSE crossedRows
    /\ UNCHANGED <<rows, idsUsed, wanted, removed>>

DeleteBook(r) ==
    /\ booking[r].op = "remove" /\ rows' = [j \in DOMAIN rows \ {booking[r].id} |-> rows[j]]
    /\ removed' = removed \cup {booking[r].id} /\ booking' = [booking EXCEPT ![r] = NoBooking]
    /\ UNCHANGED <<idsUsed, wanted, crossedRows>>

BooksNext ==
    \/ \E row \in BookRow, n \in 1..2 : createMany(n, row)
    \/ \E r \in BookCalls :
        \/ SaveBook(r) \/ DeleteBook(r)
        \/ \E i \in BookIds : removeBook(r, i) \/ \E S \in SUBSET Fields : \E patch \in [S -> Values] : updateBook(r, i, patch)

-----------------------------------------------------------------------------

\* A vendor or an expenditure that was removed does not come back, unless an edit had
\* loaded it before it went: its save inserts the row again (campaign-vendor.service:108).
RemovedIsGone == \A i \in removed \ crossedRows : i \notin DOMAIN rows

\* A row holds what was last asked for in each of its fields; only edits that overlapped
\* lose one another's (campaign-expenditure.service:68-71).
EditsAddUp ==
    \A i \in DOMAIN rows \ crossedRows : rows[i] = wanted[i]
=============================================================================
