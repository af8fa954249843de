---------------------------- MODULE CampaignTeam ----------------------------
(***************************************************************************)
(* The organisers of one campaign (campaign-organizer.service): the        *)
(* creator invites, edits and removes, the invited answer, donors follow.  *)
(* Every call loads a row and saves all of it some time later: TypeORM's   *)
(* save writes what differs from the row as it is then, and inserts a row  *)
(* that is gone.                                                           *)
(***************************************************************************)
EXTENDS Naturals, FiniteSets

CONSTANTS
    Invitees,       \* users the creator invites, who also follow organisers
    TeamCalls,      \* requests served at the same time
    OrganizerIds,   \* bound: rows of campaign_organizers ever inserted
    FollowIds       \* bound: rows of campaign_organizer_follows ever inserted

VARIABLES
    team,           \* the rows of campaign_organizers: id |-> [user, status]
    follows,        \* the rows of campaign_organizer_follows: id |-> [row, user]
    teaming,        \* what each request does, and the row it has loaded
    accepted,       \* history: the rows whose invitee has saved an acceptance
    spanned,        \* history: the rows two requests had loaded at once, or saved after a removal
    invitedTwice,       \* history: the users invited, or following, by two requests at once
    rowsUsed,       \* organiser ids taken
    followsUsed     \* follow ids taken

teamVars == <<team, follows, teaming, accepted, spanned, invitedTwice, rowsUsed, followsUsed>>

Unlinked == "unlinked"
ASSUME InviteesAssumption == Unlinked \notin Invitees

OrganizerInvitationStatus == {"pending", "accepted", "rejected"}
Organizer == [user : Invitees \cup {Unlinked}, status : OrganizerInvitationStatus]
NoId == 0
Unloaded == [op |-> "none", id |-> NoId, user |-> Unlinked, status |-> "pending"]

TeamTypeOK ==
    /\ DOMAIN team \subseteq OrganizerIds /\ \A i \in DOMAIN team : team[i] \in Organizer
    /\ DOMAIN follows \subseteq FollowIds
    /\ \A f \in DOMAIN follows : follows[f].row \in DOMAIN team /\ follows[f].user \in Invitees
    /\ teaming \in [TeamCalls -> [op : {"none", "insert", "accept", "reject", "update", "follow", "unfollow"},
                                  id : OrganizerIds \cup FollowIds \cup {NoId},
                                  user : Invitees \cup {Unlinked}, status : OrganizerInvitationStatus]]
    /\ accepted \subseteq OrganizerIds /\ spanned \subseteq OrganizerIds
    /\ invitedTwice \subseteq Invitees /\ rowsUsed \subseteq OrganizerIds /\ followsUsed \subseteq FollowIds

TeamInit ==
    /\ team = << >> /\ follows = << >> /\ teaming = [r \in TeamCalls |-> Unloaded]
    /\ accepted = {} /\ spanned = {} /\ invitedTwice = {} /\ rowsUsed = {} /\ followsUsed = {}

With(f, i, v) == [j \in DOMAIN f \cup {i} |-> IF j = i THEN v ELSE f[j]]
Without(f, S) == [j \in DOMAIN f \ S |-> f[j]]
Free(r) == teaming[r].op = "none"
RowOf(u) == {i \in DOMAIN team : team[i].user = u}
FollowsOf(i, u) == {f \in DOMAIN follows : follows[f] = [row |-> i, user |-> u]}
Begin(r, op, i, u, status) ==
    teaming' = [teaming EXCEPT ![r] = [op |-> op, id |-> i, user |-> u, status |-> status]]
Respond(r) == teaming' = [teaming EXCEPT ![r] = Unloaded]

-----------------------------------------------------------------------------
(* Invitations *)

\* A user with a row, whatever its status, is not invited again.  Without a user the
\* row is a name the creator typed.
createOrganizer(r, u) ==
    /\ Free(r) /\ (u # Unlinked => RowOf(u) = {})
    /\ Begin(r, "insert", NoId, u, IF u = Unlinked THEN "accepted" ELSE "pending")
    /\ UNCHANGED <<team, follows, accepted, spanned, invitedTwice, rowsUsed, followsUsed>>

InsertOrganizer(r) ==
    \E i \in OrganizerIds \ rowsUsed :
        /\ teaming[r].op = "insert" /\ \A j \in OrganizerIds \ rowsUsed : i <= j
        /\ team' = With(team, i, [user |-> teaming[r].user, status |-> teaming[r].status])
        /\ rowsUsed' = rowsUsed \cup {i} /\ Respond(r)
        /\ invitedTwice' = invitedTwice \cup
              {u \in Invitees : u = teaming[r].user /\ \E q \in TeamCalls \ {r} : teaming[q].op = "insert" /\ teaming[q].user = u}
        /\ UNCHANGED <<follows, accepted, spanned, followsUsed>>

\* Mutant of AnswerInvitation: a rejected invitation may still be accepted.
AnswerInvitation_Late(r, i, op) ==
    /\ Free(r) /\ i \in DOMAIN team /\ team[i].user # Unlinked
    /\ team[i].status # (IF op = "accept" THEN "accepted" ELSE "rejected")
    /\ Begin(r, op, i, team[i].user, team[i].status)
    /\ UNCHANGED <<team, follows, accepted, spanned, invitedTwice, rowsUsed, followsUsed>>

\* accept and reject, by the invitee: an answer given before stands.
AnswerInvitation(r, i, op) ==
    /\ Free(r) /\ i \in DOMAIN team /\ team[i].user # Unlinked /\ team[i].status = "pending"
    /\ Begin(r, op, i, team[i].user, team[i].status)
    /\ UNCHANGED <<team, follows, accepted, spanned, invitedTwice, rowsUsed, followsUsed>>
accept(r, i) == AnswerInvitation(r, i, "accept")
reject(r, i) == AnswerInvitation(r, i, "reject")

\* The creator edits the words of a row.
updateOrganizer(r, i) ==
    /\ Free(r) /\ i \in DOMAIN team /\ Begin(r, "update", i, team[i].user, team[i].status)
    /\ UNCHANGED <<team, follows, accepted, spanned, invitedTwice, rowsUsed, followsUsed>>

\* The loaded row is saved as a whole, with the answer in it.
SaveOrganizer(r) ==
    LET t == teaming[r] i == t.id IN
    /\ t.op \in {"accept", "reject", "update"}
    /\ team' = With(team, i, [user |-> t.user, status |-> CASE t.op = "accept" -> "accepted"
                                                           [] t.op = "reject" -> "rejected"
                                                           [] t.op = "update" -> t.status])
    /\ accepted' = IF t.op = "accept" THEN accepted \cup {i} ELSE accepted
    /\ spanned' = IF i \notin DOMAIN team \/ \E q \in TeamCalls \ {r} :
                        teaming[q].op \in {"accept", "reject", "update"} /\ teaming[q].id = i
                  THEN spanned \cup {i} ELSE spanned
    /\ Respond(r) /\ UNCHANGED <<follows, invitedTwice, rowsUsed, followsUsed>>

\* The row goes, and with it its followers (ON DELETE CASCADE).
remove(i) ==
    /\ i \in DOMAIN team /\ team' = Without(team, {i})
    /\ follows' = Without(follows, {f \in DOMAIN follows : follows[f].row = i})
    /\ UNCHANGED <<teaming, accepted, spanned, invitedTwice, rowsUsed, followsUsed>>

-----------------------------------------------------------------------------
(* Followers *)

follow(r, i, u) ==
    /\ Free(r) /\ i \in DOMAIN team /\ FollowsOf(i, u) = {} /\ Begin(r, "follow", i, u, "pending")
    /\ UNCHANGED <<team, follows, accepted, spanned, invitedTwice, rowsUsed, followsUsed>>

\* No constraint keeps a second row out; an organiser who is gone is not followed.
InsertFollow(r) ==
    LET t == teaming[r] IN
    /\ t.op = "follow" /\ Respond(r) /\ UNCHANGED <<team, accepted, spanned, rowsUsed>>
    /\ invitedTwice' = invitedTwice \cup
          {u \in {t.user} : \E q \in TeamCalls \ {r} : teaming[q].op = "follow" /\ teaming[q].user = u}
    /\ \/ t.id \notin DOMAIN team /\ UNCHANGED <<follows, followsUsed>>
       \/ \E f \in FollowIds \ followsUsed :
            /\ t.id \in DOMAIN team /\ \A g \in FollowIds \ followsUsed : f <= g
            /\ follows' = With(follows, f, [row |-> t.id, user |-> t.user])
            /\ followsUsed' = followsUsed \cup {f}

\* One of the rows is loaded, and removed.
unfollow(r, i, u) ==
    /\ Free(r) /\ \E f \in FollowsOf(i, u) : Begin(r, "unfollow", f, u, "pending")
    /\ UNCHANGED <<team, follows, accepted, spanned, invitedTwice, rowsUsed, followsUsed>>
RemoveFollow(r) ==
    /\ teaming[r].op = "unfollow" /\ follows' = Without(follows, {teaming[r].id}) /\ Respond(r)
    /\ UNCHANGED <<team, accepted, spanned, invitedTwice, rowsUsed, followsUsed>>

TeamNext ==
    \/ \E r \in TeamCalls :
        \/ InsertOrganizer(r) \/ SaveOrganizer(r) \/ InsertFollow(r) \/ RemoveFollow(r)
        \/ \E u \in Invitees \cup {Unlinked} : createOrganizer(r, u)
        \/ \E i \in OrganizerIds : accept(r, i) \/ reject(r, i) \/ updateOrganizer(r, i)
        \/ \E i \in OrganizerIds, u \in Invitees : follow(r, i, u) \/ unfollow(r, i, u)
    \/ \E i \in OrganizerIds : remove(i)

-----------------------------------------------------------------------------

\* Whom list shows as an organiser.
list == {i \in DOMAIN team : team[i].status = "accepted"}

\* A user the public rail shows as an organiser has accepted, whatever edits, removals
\* and late saves there were (campaign-organizer.service list, accept).
ListedByInvitee == \A i \in list : team[i].user # Unlinked => i \in accepted

\* A user has two rows only when two requests invited at the same time, or a save put
\* back a row that had been removed.
InvitedOnce ==
    \A u \in Invitees : Cardinality(RowOf(u)) > 1 => u \in invitedTwice \/ RowOf(u) \cap spanned # {}

\* A user follows an organiser in one row, unless two requests followed at once.
FollowedOnce ==
    \A i \in DOMAIN team, u \in Invitees : Cardinality(FollowsOf(i, u)) > 1 => u \in invitedTwice

\* The first answer stands ("rejects re-accepts of previously-rejected invites"): a
\* status that is an answer changes only by a save of a row loaded before the answer.
FirstAnswerStands ==
    [\A i \in DOMAIN team \cap DOMAIN team' :
       team[i].status # "pending" /\ team'[i].status # team[i].status => i \in spanned \cup spanned']_teamVars
=============================================================================
