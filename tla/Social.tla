------------------------------- MODULE Social -------------------------------
(***************************************************************************)
(* Two people: friend requests (friend-request.service), following           *)
(* (follow.service), blocks (block.service) and the messages a mutual      *)
(* follow allows (chat.service).  Every call checks the rows of several    *)
(* tables and then writes one, outside any transaction, except the block,  *)
(* which inserts its row and deletes the follows and requests in one.      *)
(***************************************************************************)
EXTENDS Naturals, FiniteSets

CONSTANTS
    Pair,           \* the two people
    SocialCalls,    \* requests served at the same time
    RequestIds,     \* bound: rows of friend_requests ever inserted
    MaxMessages     \* bound: messages of each

ASSUME PairAssumption == IsFiniteSet(Pair) /\ Cardinality(Pair) = 2 /\ MaxMessages \in Nat

VARIABLES
    blocks,         \* who blocks the other
    following,      \* who follows the other
    requests,       \* the rows of friend_requests: id |-> [sender, status]
    messages,       \* how many messages each has sent
    unread,         \* how many of them the other has not read
    acting,         \* what each request has checked and loaded
    idsTaken,       \* ids of the rows inserted
    offered,        \* history: who has sent a request
    agreed,         \* history: who has accepted one
    late,           \* history: requests that had passed the block check when a block came
    crossedBlock,   \* history: a write of one of those came after it
    crossedSend     \* history: two sends overlapped, or a save put back a row that was gone

socialVars == <<blocks, following, requests, messages, unread, acting, idsTaken,
                offered, agreed, late, crossedBlock, crossedSend>>

FriendRequestStatus == {"pending", "accepted", "rejected"}
Request == [sender : Pair, status : FriendRequestStatus]
Other(u) == CHOOSE v \in Pair : v # u
AtRest == [op |-> "none"]
Steps == {"none", "look", "insert", "resend", "answer", "delete", "follow", "message", "deliver"}

SocialTypeOK ==
    /\ blocks \subseteq Pair /\ following \subseteq Pair
    /\ DOMAIN requests \subseteq idsTaken /\ idsTaken \subseteq RequestIds
    /\ \A i \in DOMAIN requests : requests[i] \in Request
    /\ \A i, j \in DOMAIN requests : requests[i].sender = requests[j].sender => i = j
    /\ messages \in [Pair -> 0..MaxMessages] /\ unread \in [Pair -> 0..MaxMessages]
    /\ \A u \in Pair : unread[u] <= messages[u]
    /\ \A r \in SocialCalls : acting[r].op \in Steps
    /\ offered \subseteq Pair /\ agreed \subseteq Pair /\ late \subseteq SocialCalls
    /\ crossedBlock \in BOOLEAN /\ crossedSend \in BOOLEAN

SocialInit ==
    /\ blocks = {} /\ following = {} /\ requests = << >> /\ messages = [u \in Pair |-> 0]
    /\ unread = [u \in Pair |-> 0] /\ acting = [r \in SocialCalls |-> AtRest] /\ idsTaken = {}
    /\ offered = {} /\ agreed = {} /\ late = {} /\ crossedBlock = FALSE /\ crossedSend = FALSE

Histories == <<offered, agreed, crossedBlock, crossedSend>>
SocialTables == <<blocks, following, requests, messages, unread, idsTaken>>

\* A request goes on to its next step, having read what the guard names.
Checked(r, call) == acting' = [acting EXCEPT ![r] = call] /\ late' = late \ {r} /\ UNCHANGED <<SocialTables, Histories>>
Proceed(r, call) == acting' = [acting EXCEPT ![r] = call] /\ UNCHANGED <<late, SocialTables, Histories>>
EndCall(r) ==
    /\ acting' = [acting EXCEPT ![r] = AtRest] /\ late' = late \ {r}
    /\ crossedBlock' = (crossedBlock \/ r \in late)
Resting(r) == acting[r] = AtRest
PutRow(i, row) == [j \in DOMAIN requests \cup {i} |-> IF j = i THEN row ELSE requests[j]]
DropRow(i) == [j \in DOMAIN requests \ {i} |-> requests[j]]
Sending == {"look", "insert", "resend"}

-----------------------------------------------------------------------------
(* Friend requests *)

sendRequest(r, u) == Resting(r) /\ blocks = {} /\ Checked(r, [op |-> "look", user |-> u])

\* A request of either of them: one that was rejected is sent again, in the same row.
LookForRequest(r) ==
    LET u == acting[r].user IN
    /\ acting[r].op = "look"
    /\ \/ requests = << >> /\ Proceed(r, [op |-> "insert", user |-> u])
       \/ \E i \in DOMAIN requests :
            \/ requests[i].status # "rejected" /\ Proceed(r, AtRest)
            \/ requests[i].status = "rejected" /\ Proceed(r, [op |-> "resend", user |-> u, id |-> i])

\* Mutant of Taken: the table has no unique constraint.
Taken_Never(sender, own) == FALSE
Taken(sender, own) == \E j \in DOMAIN requests \ own : requests[j].sender = sender

\* The row is unique per sender and receiver: where there is one, the save fails.
SaveRequest(r) ==
    LET c == acting[r] taken == Taken(c.user, IF c.op = "resend" THEN {c.id} ELSE {}) IN
    /\ c.op \in {"insert", "resend"} /\ EndCall(r)
    /\ UNCHANGED <<blocks, following, messages, unread, agreed>>
    /\ IF taken THEN UNCHANGED <<requests, idsTaken, offered, crossedSend>>
       ELSE /\ \E i \in RequestIds :
                 /\ IF c.op = "resend" THEN i = c.id ELSE i \notin idsTaken /\ \A j \in RequestIds \ idsTaken : i <= j
                 /\ requests' = PutRow(i, [sender |-> c.user, status |-> "pending"])
                 /\ idsTaken' = idsTaken \cup {i}
                 /\ crossedSend' = (crossedSend \/ (i \notin DOMAIN requests /\ c.op = "resend")
                                    \/ \E q \in SocialCalls \ {r} : acting[q].op \in Sending)
            /\ offered' = offered \cup {c.user}

\* Mutant of updateRequestStatus: the sender may answer as well.
updateRequestStatus_Anyone(r, u, i, status) ==
    /\ Resting(r) /\ i \in DOMAIN requests /\ requests[i].status = "pending"
    /\ Checked(r, [op |-> "answer", user |-> u, id |-> i, row |-> [requests[i] EXCEPT !.status = status]])

\* The receiver answers a request that is pending.
updateRequestStatus(r, u, i, status) ==
    /\ Resting(r) /\ i \in DOMAIN requests /\ requests[i].status = "pending" /\ requests[i].sender = Other(u)
    /\ Checked(r, [op |-> "answer", user |-> u, id |-> i, row |-> [requests[i] EXCEPT !.status = status]])

\* The row is saved as it was loaded, with the answer; a row that is gone comes back.
SaveAnswer(r) ==
    LET c == acting[r] taken == Taken(c.row.sender, {c.id}) IN
    /\ c.op = "answer" /\ EndCall(r)
    /\ UNCHANGED <<blocks, following, messages, unread, idsTaken, offered>>
    /\ requests' = IF taken THEN requests ELSE PutRow(c.id, c.row)
    /\ agreed' = IF c.row.status = "accepted" THEN agreed \cup {c.user} ELSE agreed
    /\ crossedSend' = (crossedSend \/ c.id \notin DOMAIN requests)

cancelRequest(r, u, i) ==
    /\ Resting(r) /\ i \in DOMAIN requests /\ requests[i].sender = u /\ requests[i].status = "pending"
    /\ Checked(r, [op |-> "delete", user |-> u, id |-> i])
removeFriend(r, u, i) ==
    /\ Resting(r) /\ i \in DOMAIN requests /\ requests[i].status = "accepted"
    /\ Checked(r, [op |-> "delete", user |-> u, id |-> i])
DeleteRequest(r) ==
    /\ acting[r].op = "delete" /\ requests' = DropRow(acting[r].id)
    /\ acting' = [acting EXCEPT ![r] = AtRest] /\ late' = late \ {r}
    /\ UNCHANGED <<blocks, following, messages, unread, idsTaken, Histories>>

-----------------------------------------------------------------------------
(* Follows and blocks *)

followUser(r, u) ==
    /\ Resting(r) /\ blocks = {} /\ u \notin following /\ Checked(r, [op |-> "follow", user |-> u])
SaveFollow(r) ==
    /\ acting[r].op = "follow" /\ following' = following \cup {acting[r].user} /\ EndCall(r)
    /\ UNCHANGED <<blocks, requests, messages, unread, idsTaken, offered, agreed, crossedSend>>
unfollowUser(u) ==
    /\ u \in following /\ following' = following \ {u}
    /\ UNCHANGED <<blocks, requests, messages, unread, idsTaken, acting, late, Histories>>

\* In one transaction: the block, and the end of the follows and requests of both.
blockUser(u) ==
    /\ u \notin blocks /\ blocks' = blocks \cup {u} /\ following' = {} /\ requests' = << >>
    /\ late' = {r \in SocialCalls : ~Resting(r)}
    /\ UNCHANGED <<messages, unread, idsTaken, acting, Histories>>
unblockUser(u) ==
    /\ u \in blocks /\ blocks' = blocks \ {u}
    /\ UNCHANGED <<following, requests, messages, unread, idsTaken, acting, late, Histories>>

-----------------------------------------------------------------------------
(* Messages *)

\* Mutant of sendMessage: only the recipient's block counts.
sendMessage_Theirs(r, u) ==
    /\ Resting(r) /\ Other(u) \notin blocks /\ Checked(r, [op |-> "message", user |-> u])

sendMessage(r, u) == Resting(r) /\ blocks = {} /\ Checked(r, [op |-> "message", user |-> u])

isMutualFollow(u) == {u, Other(u)} \subseteq following

CheckFriends(r) ==
    /\ acting[r].op = "message"
    /\ Proceed(r, IF isMutualFollow(acting[r].user) THEN [acting[r] EXCEPT !.op = "deliver"] ELSE AtRest)

DeliverMessage(r) ==
    LET u == acting[r].user IN
    /\ acting[r].op = "deliver" /\ messages[u] < MaxMessages
    /\ messages' = [messages EXCEPT ![u] = @ + 1] /\ unread' = [unread EXCEPT ![u] = @ + 1]
    /\ EndCall(r) /\ UNCHANGED <<blocks, following, requests, idsTaken, offered, agreed, crossedSend>>

markRead(u) ==
    /\ unread[Other(u)] > 0 /\ unread' = [unread EXCEPT ![Other(u)] = 0]
    /\ UNCHANGED <<blocks, following, requests, messages, idsTaken, acting, late, Histories>>

FriendsNext ==
    \E r \in SocialCalls :
        \/ LookForRequest(r) \/ SaveRequest(r) \/ SaveAnswer(r) \/ DeleteRequest(r)
        \/ \E u \in Pair : sendRequest(r, u)
        \/ \E u \in Pair, i \in RequestIds :
            \/ cancelRequest(r, u, i) \/ removeFriend(r, u, i)
            \/ \E status \in {"accepted", "rejected"} : updateRequestStatus(r, u, i, status)

ChatNext ==
    \/ \E r \in SocialCalls :
        \/ SaveFollow(r) \/ CheckFriends(r) \/ DeliverMessage(r)
        \/ \E u \in Pair : followUser(r, u) \/ sendMessage(r, u)
    \/ \E u \in Pair : unfollowUser(u) \/ markRead(u)

BlocksNext == \E u \in Pair : blockUser(u) \/ unblockUser(u)

SocialNext == FriendsNext \/ ChatNext \/ BlocksNext

-----------------------------------------------------------------------------

\* Two of whom one blocks the other are strangers: no follow, no request, no friendship
\* is left, unless a call that had passed its checks wrote after the block
\* (block.service:45-62, friend-request.service:160).
BlockedAreStrangers == blocks # {} /\ ~crossedBlock => following = {} /\ requests = << >>

\* Friends have both wanted it: whoever sent, and whoever answered, whatever requests
\* crossed, were sent again or came back.
FriendsAgreed ==
    \A i \in DOMAIN requests : requests[i].status = "accepted" =>
        requests[i].sender \in offered /\ Other(requests[i].sender) \in agreed

\* There is one row between two people, so that ending a friendship ends it, unless two
\* requests crossed or an answer put back a row that was gone (friend-request.service:58).
OneRowPerPair == ~crossedSend => Cardinality(DOMAIN requests) <= 1

\* No message is delivered through a block, except one that was on its way when it came.
NoMessageThroughBlock ==
    [\A u \in Pair : messages'[u] > messages[u] =>
       blocks = {} \/ \E r \in late : acting[r].op = "deliver" /\ acting[r].user = u]_socialVars
=============================================================================
