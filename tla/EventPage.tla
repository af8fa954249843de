----------------------------- MODULE EventPage -----------------------------
(***************************************************************************)
(* An event's page (event.service.ts): the draft and its publication, the  *)
(* organisers, who comes.  Requests overlap: what one reads is not locked  *)
(* when it writes.  An event is never cancelled nor completed: no code     *)
(* sets its status.                                                        *)
(***************************************************************************)
EXTENDS Naturals, FiniteSets

CONSTANTS
    EventCreator,      \* the creator of the event
    People,         \* everybody else with an account, each with an e-mail address
    PageCalls,      \* requests served at the same time
    SeatIds,        \* bound: rows of event_rsvps ever inserted
    MaxEdits        \* bound: edits of the draft

ASSUME EditsAssumption == MaxEdits \in Nat

VARIABLES
    page,           \* the row of events
    organizers,     \* the rows of event_organizers: how many a person has
    owners,         \* who has a row with the role of owner
    seats,          \* the rows of event_rsvps
    serving,        \* what each request does and has read
    usedIds,        \* identifiers of rows given out
    flagged,        \* history: published by the flag, on another page than the fifth
    blanked,        \* history: a required field was emptied on a published page, or while another edit was under way
    unpublished,    \* history: the page was taken back
    repeated,       \* history: people whom one edit listed twice
    crossed,        \* history: a request for a seat was under way when the event started
    edits           \* counter of the bound

pageVars == <<page, organizers, owners, seats, serving, usedIds, flagged, blanked, unpublished, repeated, crossed, edits>>

Times == 0..2       \* bound: how often one edit lists a person
SeatKind == {"user", "guest", "phone"}      \* with an account; by e-mail; by phone number alone
Seat == [id : SeatIds, owner : People, kind : SeatKind]
Edit == [page5 : BOOLEAN, fills : {"all", "nothing", "blank"}, flag : {"absent", "yes", "no"},
         starts : {"absent", "past", "future"}, adds : [People -> Times]]
NoSeat == << >>
NobodyAdded == [p \in People |-> 0]
NoEdit == [page5 |-> FALSE, fills |-> "nothing", flag |-> "absent", starts |-> "absent", adds |-> NobodyAdded]
NoService == [op |-> "none", seat |-> NoSeat, edit |-> NoEdit]
\* An edit does one thing; the one of the fifth page may fill or empty fields as well.
Edits ==
    {[NoEdit EXCEPT !.page5 = TRUE, !.fills = f] : f \in {"all", "nothing", "blank"}}
    \cup {[NoEdit EXCEPT !.fills = f] : f \in {"all", "blank"}}
    \cup {[NoEdit EXCEPT !.flag = f] : f \in {"yes", "no"}}
    \cup {[NoEdit EXCEPT !.starts = t] : t \in {"past", "future"}}
    \cup {[NoEdit EXCEPT !.adds = a] : a \in [People -> Times] \ {NobodyAdded}}
Ids == {s.id : s \in seats}

PageTypeOK ==
    /\ page \in [filled : BOOLEAN, published : BOOLEAN, public : BOOLEAN, started : BOOLEAN]
    /\ DOMAIN organizers \subseteq People \cup {EventCreator} /\ owners \subseteq DOMAIN organizers
    /\ seats \subseteq Seat /\ usedIds \subseteq SeatIds /\ Ids \subseteq usedIds
    /\ \A s, t \in seats : s.id = t.id => s = t
    /\ serving \in [PageCalls -> [op : {"none", "edit", "insert", "update"}, seat : Seat \cup {NoSeat}, edit : Edit]]
    /\ {flagged, blanked, unpublished, crossed} \subseteq BOOLEAN /\ edits \in 0..MaxEdits
    /\ repeated \subseteq People

\* create: an active event, the creator its owner, in one transaction.
PageInit ==
    /\ page \in [filled : {FALSE}, published : {FALSE}, public : BOOLEAN, started : {FALSE}]
    /\ organizers = [p \in {EventCreator} |-> 1] /\ owners = {EventCreator}
    /\ seats = {} /\ serving = [r \in PageCalls |-> NoService] /\ usedIds = {}
    /\ flagged = FALSE /\ blanked = FALSE /\ unpublished = FALSE /\ repeated = {} /\ crossed = FALSE /\ edits = 0

ServedBy(r, op) == serving[r].op = op /\ serving' = [serving EXCEPT ![r] = NoService]
Start(r, service) ==
    /\ serving[r].op = "none"
    /\ serving' = [serving EXCEPT ![r] = service]
    /\ UNCHANGED <<page, organizers, owners, seats, flagged, blanked, unpublished, repeated, crossed>>

-----------------------------------------------------------------------------
(* The draft *)

\* Only the fifth page asks for every required field, of the row as it was read and
\* the edit.
assertDraftIsComplete(edit) == edit.page5 => edit.fills = "all" \/ (page.filled /\ edit.fills # "blank")

\* Internal organisers are taken on the fourth page only.
updateEventDraft(r) ==
    /\ edits < MaxEdits /\ edits' = edits + 1 /\ UNCHANGED usedIds
    /\ \E edit \in Edits :
         /\ assertDraftIsComplete(edit)
         /\ Start(r, [NoService EXCEPT !.op = "edit", !.edit = edit])

\* The rows there are are read after the event's row was written: two edits do not
\* add the same person.  The list is compared with these rows alone: a person it names
\* twice gets two rows.
AddOrganizers(adds) ==
    LET new == {p \in People : adds[p] > 0} \ DOMAIN organizers IN
    /\ organizers' = [p \in DOMAIN organizers \cup new |-> IF p \in new THEN adds[p] ELSE organizers[p]]
    /\ \E asOwner \in SUBSET new : owners' = owners \cup asOwner
    /\ repeated' = repeated \cup {p \in People : adds[p] > 1}

\* The columns of the edit, in a transaction.
WriteDraft(r) ==
    LET edit == serving[r].edit
        others == \E q \in PageCalls \ {r} : serving[q].op = "edit"
        publishes == edit.page5 \/ edit.flag = "yes" IN
    /\ ServedBy(r, "edit")
    /\ page' = [page EXCEPT
           !.filled = CASE edit.fills = "all" -> TRUE [] edit.fills = "blank" -> FALSE [] edit.fills = "nothing" -> @,
           !.published = IF publishes THEN TRUE ELSE IF edit.flag = "no" THEN FALSE ELSE @,
           !.started = CASE edit.starts = "past" -> TRUE [] edit.starts = "future" -> FALSE [] edit.starts = "absent" -> @]
    /\ AddOrganizers(edit.adds)
    /\ flagged' = (flagged \/ (edit.flag = "yes" /\ ~edit.page5))
    /\ blanked' = (blanked \/ (edit.fills = "blank" /\ (page'.published \/ others)))
    /\ unpublished' = (unpublished \/ (page.published /\ ~page'.published))
    /\ crossed' = (crossed \/ (page'.started /\ \E q \in PageCalls : serving[q].op \in {"insert", "update"}))
    /\ UNCHANGED <<seats, usedIds, edits>>

EventStarts ==
    /\ ~page.started /\ page' = [page EXCEPT !.started = TRUE]
    /\ crossed' = (crossed \/ \E r \in PageCalls : serving[r].op \in {"insert", "update"})
    /\ UNCHANGED <<organizers, owners, seats, serving, usedIds, flagged, blanked, unpublished, repeated, edits>>

-----------------------------------------------------------------------------
(* Who comes *)

getPublishedEvent == page.published

\* Mutant of assertEventAcceptsRsvp: after the start as well.
assertEventAcceptsRsvp_Always == TRUE

assertEventAcceptsRsvp == ~page.started

\* Mutant of Unique: the e-mail address may be there twice.
Unique_AccountOnly(seat) == ~\E s \in seats : s.kind = "user" /\ seat.kind = "user" /\ s.owner = seat.owner

\* The unique indexes: one row per account, one per e-mail address, an account's
\* address included.
Unique(seat) == ~\E s \in seats : s.owner = seat.owner /\ s.kind # "phone" /\ seat.kind # "phone"

NewSeat(r, owner, kind) ==
    \E i \in SeatIds \ usedIds :
        /\ \A j \in SeatIds \ usedIds : i <= j
        /\ usedIds' = usedIds \cup {i} /\ UNCHANGED edits
        /\ Start(r, [NoService EXCEPT !.op = "insert", !.seat = [id |-> i, owner |-> owner, kind |-> kind]])

rsvpAsUser(r, p) ==
    /\ getPublishedEvent /\ assertEventAcceptsRsvp
    /\ ~\E s \in seats : s.kind = "user" /\ s.owner = p
    /\ NewSeat(r, p, "user")

\* Guests need a public event; who gives only a phone number is not looked for.
rsvpAsGuest(r, p) ==
    /\ getPublishedEvent /\ assertEventAcceptsRsvp /\ page.public
    /\ \/ (~\E s \in seats : s.kind # "phone" /\ s.owner = p) /\ NewSeat(r, p, "guest")
       \/ NewSeat(r, p, "phone")

\* An insert that breaks an index fails.
InsertSeat(r) ==
    /\ ServedBy(r, "insert")
    /\ seats' = IF Unique(serving[r].seat) THEN seats \cup {serving[r].seat} ELSE seats
    /\ UNCHANGED <<page, organizers, owners, usedIds, flagged, blanked, unpublished, repeated, crossed, edits>>

updateRsvp(r, s) ==
    /\ s.kind = "user" /\ UNCHANGED <<usedIds, edits>>
    /\ Start(r, [NoService EXCEPT !.op = "update", !.seat = s])

\* A row that was cancelled meanwhile is inserted again.
SaveSeat(r) ==
    /\ ServedBy(r, "update")
    /\ seats' = IF serving[r].seat.id \in Ids \/ Unique(serving[r].seat) THEN seats \cup {serving[r].seat} ELSE seats
    /\ UNCHANGED <<page, organizers, owners, usedIds, flagged, blanked, unpublished, repeated, crossed, edits>>

cancelRsvp(s) ==
    /\ s.kind = "user" /\ seats' = seats \ {s}
    /\ UNCHANGED <<page, organizers, owners, serving, usedIds, flagged, blanked, unpublished, repeated, crossed, edits>>

\* What a person's list of events shows of this one.
getMyRsvpEvents(p) == {s \in seats : page.published /\ s.kind = "user" /\ s.owner = p}

PageNext ==
    \/ \E r \in PageCalls :
         \/ updateEventDraft(r) \/ WriteDraft(r) \/ InsertSeat(r) \/ SaveSeat(r)
         \/ \E p \in People : rsvpAsUser(r, p) \/ rsvpAsGuest(r, p)
         \/ \E s \in seats : updateRsvp(r, s)
    \/ \E s \in seats : cancelRsvp(s)
    \/ EventStarts

-----------------------------------------------------------------------------
(* Properties *)

\* "Cannot publish. Complete these fields first": what the last page publishes is
\* complete, unless a field is emptied afterwards or by an edit under way.
PublishedIsComplete == page.published /\ ~flagged /\ ~blanked => page.filled

\* Edits that overlap do not add an organiser twice, unless one of them lists the person
\* twice, and the creator, who has one row, stays the owner.
OneRowPerOrganizer ==
    /\ EventCreator \in owners
    /\ \A p \in DOMAIN organizers \ repeated : organizers[p] <= 1

\* One seat per account and per e-mail address, whichever way the person asked,
\* although the checks and the insert are apart and an update may revive a row.
OneSeatPerPerson == \A s, t \in seats : s.owner = t.owner /\ s.kind # "phone" /\ t.kind # "phone" => s = t

\* Who has a seat finds the event in the list, unless the page was taken back.
SeatIsListed == \A s \in seats : s.kind = "user" /\ ~unpublished => s \in getMyRsvpEvents(s.owner)

\* Once the event has started no seat is added, unless a request crossed the start,
\* an organiser moved it, or an updateRsvp is under way: it looks at no start, and inserts
\* a seat again that was cancelled meanwhile.
ClosedAtStart ==
    [page.started /\ ~crossed /\ (\A r \in PageCalls : serving[r].op # "update") => seats' \subseteq seats]_pageVars
=============================================================================
