--------------------------- MODULE BillOrganizers ---------------------------
(***************************************************************************)
(* Organisers of a split bill (split-bill-organizer.service): the creator  *)
(* invites, the invitee accepts or rejects, the creator edits or removes.  *)
(* Every handler reads a row, checks it and saves the whole of it later;   *)
(* save() inserts the row again when it has been removed meanwhile.        *)
(***************************************************************************)
EXTENDS Naturals, FiniteSets

CONSTANTS
    Invitees,       \* users who may be invited
    ByName,         \* an organiser without an account
    OrgRows,        \* rows that may be inserted
    OrgRequests,    \* requests served at the same time
    MaxOrgOps       \* bound: requests

ASSUME ByNameAssumption == ByName \notin Invitees /\ OrgRows # {} /\ MaxOrgOps \in Nat

VARIABLES
    orgRows,        \* the table: who and what status each row has
    orgAsked,       \* what each request does, on which row, as it has read it
    consented,      \* history: invitees who have accepted
    orgOverlap,     \* history: a request began while another was being served
    orgOps          \* counter of the bound

orgVars == <<orgRows, orgAsked, consented, orgOverlap, orgOps>>

OrgStatus == {"absent", "pending", "accepted", "rejected"}
OrgRow == [who : Invitees \cup {ByName}, status : OrgStatus]
NoRow == [who |-> ByName, status |-> "absent"]
OrgIdle == [op |-> "none", slot |-> CHOOSE s \in OrgRows : TRUE, row |-> NoRow]

OrgTypeOK ==
    /\ orgRows \in [OrgRows -> OrgRow]
    /\ \A s \in OrgRows : orgRows[s].who = ByName => orgRows[s].status \in {"absent", "accepted"}
    /\ orgAsked \in [OrgRequests -> [op : {"none", "create", "save", "accept", "remove"},
                                     slot : OrgRows, row : OrgRow]]
    /\ consented \subseteq Invitees /\ orgOverlap \in BOOLEAN /\ orgOps \in 0..MaxOrgOps

OrgInit ==
    /\ orgRows = [s \in OrgRows |-> NoRow]
    /\ orgAsked = [r \in OrgRequests |-> OrgIdle]
    /\ consented = {} /\ orgOverlap = FALSE /\ orgOps = 0

OrgAbsent(s) == orgRows[s].status = "absent"
RowsOf(u) == {s \in OrgRows : ~OrgAbsent(s) /\ orgRows[s].who = u}

OrgAsk(r, op, s, row) ==
    /\ orgAsked[r].op = "none" /\ orgOps < MaxOrgOps /\ orgOps' = orgOps + 1
    /\ orgAsked' = [orgAsked EXCEPT ![r] = [op |-> op, slot |-> s, row |-> row]]
    /\ orgOverlap' = (orgOverlap \/ \E q \in OrgRequests : orgAsked[q].op # "none")
    /\ UNCHANGED <<orgRows, consented>>

\* Mutant of NewOrganizer: the default of the column, accepted.
NewOrganizer_Default(u) == [who |-> u, status |-> "accepted"]
NewOrganizer(u) == [who |-> u, status |-> IF u = ByName THEN "accepted" ELSE "pending"]

\* Nobody with a row, whatever its status, is invited again.  A new row has an id
\* that no request holds.
createOrganizer(r) ==
    \E u \in Invitees \cup {ByName}, s \in OrgRows :
       /\ OrgAbsent(s) /\ \A q \in OrgRequests : orgAsked[q].slot = s => orgAsked[q].op = "none"
       /\ u # ByName => RowsOf(u) = {}
       /\ OrgAsk(r, "create", s, NewOrganizer(u))

\* Mutant of acceptOrganizer: a rejected invitation can be accepted.
acceptOrganizer_Rejected(r) ==
    \E s \in OrgRows :
       /\ orgRows[s].who # ByName /\ orgRows[s].status \in {"pending", "rejected"}
       /\ OrgAsk(r, "accept", s, [orgRows[s] EXCEPT !.status = "accepted"])

\* By the invitee; accepting again returns the row.
acceptOrganizer(r) ==
    \E s \in OrgRows :
       /\ orgRows[s].who # ByName /\ orgRows[s].status = "pending"
       /\ OrgAsk(r, "accept", s, [orgRows[s] EXCEPT !.status = "accepted"])

rejectOrganizer(r) ==
    \E s \in OrgRows :
       /\ orgRows[s].who # ByName /\ orgRows[s].status = "pending"
       /\ OrgAsk(r, "save", s, [orgRows[s] EXCEPT !.status = "rejected"])

\* The creator changes name, role or picture: the status that was read goes along.
updateOrganizer(r) ==
    \E s \in OrgRows : ~OrgAbsent(s) /\ OrgAsk(r, "save", s, orgRows[s])

removeOrganizer(r) ==
    \E s \in OrgRows : ~OrgAbsent(s) /\ OrgAsk(r, "remove", s, orgRows[s])

SaveOrganizer(r) ==
    LET q == orgAsked[r] IN
    /\ q.op \in {"create", "save", "accept"}
    /\ orgRows' = [orgRows EXCEPT ![q.slot] = q.row]
    /\ consented' = IF q.op = "accept" THEN consented \cup {q.row.who} ELSE consented
    /\ orgAsked' = [orgAsked EXCEPT ![r] = OrgIdle]
    /\ UNCHANGED <<orgOverlap, orgOps>>

DeleteOrganizer(r) ==
    LET q == orgAsked[r] IN
    /\ q.op = "remove"
    /\ orgRows' = [orgRows EXCEPT ![q.slot] = NoRow]
    /\ orgAsked' = [orgAsked EXCEPT ![r] = OrgIdle]
    /\ UNCHANGED <<consented, orgOverlap, orgOps>>

OrgNext == \E r \in OrgRequests :
    \/ createOrganizer(r) \/ acceptOrganizer(r) \/ rejectOrganizer(r) \/ updateOrganizer(r)
    \/ removeOrganizer(r) \/ SaveOrganizer(r) \/ DeleteOrganizer(r)

\* list: the public rail.
ListedOrganizers == {s \in OrgRows : orgRows[s].status = "accepted"}

-----------------------------------------------------------------------------
(* Properties *)

\* Whatever stale rows are saved over it, the public rail shows an account only
\* if its owner has accepted an invitation to this bill.
OrganizersConsented == \A s \in ListedOrganizers : orgRows[s].who \in consented \cup {ByName}

\* An account has one row, so it answers one invitation, unless two requests overlapped.
OneRowPerInvitee == ~orgOverlap => \A u \in Invitees : Cardinality(RowsOf(u)) <= 1

\* An answer stands until the creator removes the row: no request that ran alone
\* turns one answer into another, or back into an open invitation.
AnswerStands ==
    [\A s \in OrgRows : orgRows[s].status \in {"accepted", "rejected"} =>
       orgRows'[s].status \in {orgRows[s].status, "absent"} \/ orgOverlap]_orgVars
=============================================================================
