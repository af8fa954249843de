-------------------------------- MODULE Inbox --------------------------------
(***************************************************************************)
(* The notices one user keeps, and a client that pages through them while  *)
(* others arrive, are read or deleted (notification.service).              *)
(***************************************************************************)
EXTENDS Naturals, FiniteSets

CONSTANTS
    NoticeIds,      \* bound: rows, in the order of their creation
    PageSize        \* rows of a page

ASSUME InboxAssumption == NoticeIds \subseteq Nat /\ IsFiniteSet(NoticeIds) /\ PageSize \in Nat \ {0}

VARIABLES
    inbox,          \* the rows of notifications: id |-> has it been read
    reader          \* the client: the next page, its filter, what there was and was shown

inboxVars == <<inbox, reader>>

Closed == [page |-> 0, unreadOnly |-> FALSE, from |-> {}, shown |-> {}, moved |-> FALSE]
Matching(unreadOnly) == {id \in DOMAIN inbox : unreadOnly => ~inbox[id]}

InboxInit == inbox = << >> /\ reader = Closed

\* notify inserts a row, unread and newer than the others.
saveNotice(id) ==
    /\ \A old \in DOMAIN inbox : old < id
    /\ inbox' = [x \in DOMAIN inbox \cup {id} |-> IF x = id THEN FALSE ELSE inbox[x]]
    /\ UNCHANGED reader

OpenInbox(unreadOnly) ==
    /\ reader = Closed
    /\ reader' = [Closed EXCEPT !.page = 1, !.unreadOnly = unreadOnly, !.from = Matching(unreadOnly)]
    /\ UNCHANGED inbox

\* Mutant of OnPage: the first page is page 0.
OnPage_FromZero(page) ==
    LET rows == Matching(reader.unreadOnly)
        newer(id) == Cardinality({x \in rows : x > id}) IN
    {id \in rows : page * PageSize <= newer(id) /\ newer(id) < (page + 1) * PageSize}

\* Newest first: skip (page - 1) * limit rows, take limit.
OnPage(page) ==
    LET rows == Matching(reader.unreadOnly)
        newer(id) == Cardinality({x \in rows : x > id}) IN
    {id \in rows : (page - 1) * PageSize <= newer(id) /\ newer(id) < page * PageSize}

\* One page after the other, until there is none.
getUserNotifications ==
    /\ reader.page > 0 /\ OnPage(reader.page) # {}
    /\ reader' = [reader EXCEPT !.page = @ + 1, !.shown = @ \cup OnPage(reader.page)]
    /\ UNCHANGED inbox

CloseInbox == reader.page > 0 /\ OnPage(reader.page) = {} /\ reader' = Closed /\ UNCHANGED inbox

Moved(moved) == reader' = [reader EXCEPT !.moved = @ \/ (reader.page > 0 /\ moved)]

\* The rows named are read, or, where none is named, all there are by now.
markAsRead(ids) ==
    LET marked == IF ids = {} THEN DOMAIN inbox ELSE ids \cap DOMAIN inbox IN
    /\ inbox' = [id \in DOMAIN inbox |-> inbox[id] \/ id \in marked]
    /\ Moved(reader.unreadOnly /\ inbox' # inbox)

deleteNotification(id) ==
    /\ id \in DOMAIN inbox /\ inbox' = [x \in DOMAIN inbox \ {id} |-> inbox[x]]
    /\ Moved(TRUE)

InboxNext ==
    \/ \E unreadOnly \in BOOLEAN : OpenInbox(unreadOnly)
    \/ getUserNotifications \/ CloseInbox
    \/ \E ids \in SUBSET NoticeIds : markAsRead(ids)
    \/ \E id \in NoticeIds : saveNotice(id) \/ deleteNotification(id)

-----------------------------------------------------------------------------

InboxTypeOK ==
    /\ DOMAIN inbox \subseteq NoticeIds /\ \A id \in DOMAIN inbox : inbox[id] \in BOOLEAN
    /\ reader \in [page : 0..Cardinality(NoticeIds) + 1, unreadOnly : BOOLEAN, from : SUBSET NoticeIds,
                   shown : SUBSET NoticeIds, moved : BOOLEAN]

\* A client that has paged to the end has been shown every row that was there when it
\* began, whatever arrived meanwhile, unless one was deleted, or read under its filter:
\* the pages are cut by position.
PagedToTheEnd ==
    reader.page > 0 /\ OnPage(reader.page) = {} /\ ~reader.moved => reader.from \subseteq reader.shown
=============================================================================
