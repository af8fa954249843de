-------------------------- MODULE BillPeopleProofs --------------------------
(***************************************************************************)
(* What people do on a split bill, proved for every bill: who is on it,    *)
(* the invitation, the proposal, the organisers, the comments and the      *)
(* clock.  Each component has an invariant of its own that its steps keep; *)
(* the components share no state, so the bill keeps all of them.           *)
(***************************************************************************)
EXTENDS MCBillPeople, SumTheorems, FiniteSetTheorems, TLAPS

-----------------------------------------------------------------------------
(* The invitation *)

\* What a request for the invitation has read, and what that still tells.
AskedOK(q) ==
    /\ q.op = "acceptInvite" => q.by \in Accounts
    /\ q.op = "acceptBillInvite" => invite.user # Nobody
    /\ q.op \in {"declineBillInvite", "declineInvite"} => q.row.paid = 0
    /\ q.op = "declineInvite" => q.row.declines <= declinedByCode
    /\ q.op = "reinviteParticipant" => q.row.status = "declined" /\ q.row.declines < 2

InviteInv ==
    /\ InviteTypeOK
    /\ InvitationIsAnswerable /\ DeclinesAreCounted /\ PayersSeeTheBill
    /\ invite.accepted => invite.user # Nobody
    /\ \A r \in Requests : AskedOK(asked[r])

\* A request that reads the row as it is.
LEMMA InviteAsked ==
    ASSUME InviteInv, NEW r \in Requests, NEW op \in InviteOps, NEW by \in Accounts \cup {Nobody},
           Asks(r, op, by),
           op = "acceptInvite" => by \in Accounts,
           op = "acceptBillInvite" => invite.user # Nobody,
           op \in {"declineBillInvite", "declineInvite"} => invite.paid = 0,
           op = "reinviteParticipant" => invite.status = "declined" /\ invite.declines < 2
    PROVE  InviteInv'
<1> DEFINE q == [op |-> op, by |-> by, row |-> invite]
<1>1. /\ asked' = [asked EXCEPT ![r] = q] /\ answers < MaxAnswers /\ answers' = answers + 1
      /\ UNCHANGED <<invite, declinedByCode, crossed>>
  BY DEF Asks
<1>2. invite.declines <= declinedByCode
  BY DEF InviteInv, DeclinesAreCounted
<1>3. q \in [op : InviteOps, by : Accounts \cup {Nobody}, row : Inviting]
  BY DEF InviteInv, InviteTypeOK
<1>4. q.op = op /\ q.by = by /\ q.row = invite
  OBVIOUS
<1> HIDE DEF q
<1>5. InviteTypeOK'
  BY <1>1, <1>3, NobodyAssumption DEF InviteInv, InviteTypeOK
<1>6. AskedOK(asked[r])'
  BY <1>1, <1>2, <1>4 DEF AskedOK, InviteInv, InviteTypeOK
<1>7. ASSUME NEW x \in Requests \ {r} PROVE AskedOK(asked[x])'
  <2>1. asked'[x] = asked[x] /\ AskedOK(asked[x])
    BY <1>1, <1>7 DEF InviteInv, InviteTypeOK
  <2> QED
    BY <1>1, <2>1 DEF AskedOK
<1> QED
  BY <1>1, <1>5, <1>6, <1>7
     DEF InviteInv, InvitationIsAnswerable, DeclinesAreCounted, PayersSeeTheBill, getMyActiveBills

\* What a request writes on the row.
Written(r, row) ==
    \/ /\ asked[r].op = "acceptBillInvite"
       /\ row = [invite EXCEPT !.status = "accepted", !.accepted = TRUE]
    \/ /\ asked[r].op \in {"declineBillInvite"}
       /\ row = [invite EXCEPT !.status = "declined", !.declined = TRUE]
    \/ /\ asked[r].op = "acceptInvite"
       /\ row = [invite EXCEPT !.status = "accepted", !.accepted = TRUE,
                    !.user = IF asked[r].row.user = Nobody THEN asked[r].by ELSE asked[r].row.user]
    \/ /\ asked[r].op = "declineInvite"
       /\ row = [invite EXCEPT !.status = "declined", !.declined = TRUE,
                               !.declines = asked[r].row.declines + 1]
    \/ /\ asked[r].op = "reinviteParticipant"
       /\ row = [invite EXCEPT !.status = "invited", !.declined = FALSE, !.expired = FALSE]

WritesInvite(r) ==
    /\ \E row : Written(r, row) /\ Writes(r, asked[r].op, row)
    /\ declinedByCode' = IF asked[r].op = "declineInvite" THEN declinedByCode + 1 ELSE declinedByCode

\* The steps of an invitation.
LEMMA InviteSteps ==
    ASSUME InviteNext
    PROVE  \/ \E r \in Requests :
                 \/ acceptBillInvite(r) \/ declineBillInvite(r) \/ acceptInvite(r) \/ declineInvite(r)
                 \/ reinviteParticipant(r) \/ WritesInvite(r)
           \/ Expire \/ PayForInvited
<1>1. ASSUME NEW r \in Requests,
             \/ WriteAcceptedInApp(r) \/ WriteDeclinedInApp(r) \/ WriteAcceptedByCode(r)
             \/ WriteDeclinedByCode(r) \/ WriteReinvited(r)
      PROVE  WritesInvite(r)
  BY <1>1 DEF WriteAcceptedInApp, WriteDeclinedInApp, WriteAcceptedByCode, WriteDeclinedByCode,
              WriteReinvited, WritesInvite, Written, Writes
<1> QED
  BY <1>1 DEF InviteNext

\* What the row is then.
LEMMA RowWritten ==
    ASSUME InviteInv, NEW r \in Requests, NEW row, Written(r, row)
    PROVE  /\ row \in Inviting /\ row.paid = invite.paid
           /\ row.status \in {"invited", "accepted", "declined"}
           /\ row.status = "invited" => asked[r].op = "reinviteParticipant" /\ ~row.declined
           /\ row.status = "declined" => asked[r].op \in {"declineBillInvite", "declineInvite"}
           /\ row.accepted => row.user # Nobody
           /\ invite.user # Nobody => row.user # Nobody
           /\ row.user # invite.user => asked[r].row.user # invite.user \/ invite.user = Nobody
           /\ row.declines = IF asked[r].op = "declineInvite"
                             THEN asked[r].row.declines + 1 ELSE invite.declines
<1> DEFINE q == asked[r]
<1>1. /\ invite \in Inviting /\ q.row \in Inviting /\ q.by \in Accounts \cup {Nobody}
      /\ AskedOK(q) /\ (invite.accepted => invite.user # Nobody)
  BY DEF InviteInv, InviteTypeOK
<1>2. CASE q.op = "acceptBillInvite"
  <2>1. row = [invite EXCEPT !.status = "accepted", !.accepted = TRUE]
    BY <1>2 DEF Written
  <2>2. row \in Inviting
    BY <1>1, <2>1 DEF Inviting, InviteStatus
  <2>3. row.status = "accepted" /\ row.user = invite.user /\ row.paid = invite.paid
        /\ row.declines = invite.declines
    BY <1>1, <2>1 DEF Inviting
  <2> QED
    BY <1>1, <1>2, <2>2, <2>3 DEF AskedOK
<1>3. CASE q.op = "declineBillInvite"
  BY <1>1, <1>3 DEF Written, AskedOK, Inviting, InviteStatus
<1>4. CASE q.op = "acceptInvite"
  <2> DEFINE user == IF q.row.user = Nobody THEN q.by ELSE q.row.user
  <2>1. user \in Accounts /\ user # Nobody /\ (invite.user # Nobody /\ q.row.user = invite.user => user = invite.user)
    BY <1>1, <1>4, NobodyAssumption DEF AskedOK, Inviting
  <2>2. row = [invite EXCEPT !.status = "accepted", !.accepted = TRUE, !.user = user]
    BY <1>4 DEF Written
  <2> HIDE DEF user
  <2> QED
    BY <1>1, <1>4, <2>1, <2>2 DEF Inviting, InviteStatus
<1>5. CASE q.op = "declineInvite"
  <2> DEFINE declines == q.row.declines + 1
  <2>1. declines \in Nat /\ row = [invite EXCEPT !.status = "declined", !.declined = TRUE,
                                              !.declines = declines]
    BY <1>1, <1>5 DEF Written, Inviting
  <2> HIDE DEF declines
  <2>2. row.declines = declines
    BY <1>1, <2>1 DEF Inviting
  <2>3. declines = asked[r].row.declines + 1
    BY DEF declines
  <2> QED
    BY <1>1, <1>5, <2>1, <2>2, <2>3 DEF Inviting, InviteStatus
<1>6. CASE q.op = "reinviteParticipant"
  BY <1>1, <1>6 DEF Written, AskedOK, Inviting, InviteStatus
<1> QED
  BY <1>2, <1>3, <1>4, <1>5, <1>6 DEF Written

\* A request that writes.
LEMMA InviteWritten ==
    ASSUME InviteInv, NEW r \in Requests, WritesInvite(r)
    PROVE  /\ InviteInv'
           /\ invite.user # Nobody => invite'.user = invite.user \/ crossed'
           /\ declinedByCode >= 2 /\ invite.status = "declined" /\ ~crossed' => invite'.status # "invited"
<1>1. PICK row :
         /\ Written(r, row) /\ invite' = row /\ asked' = [asked EXCEPT ![r] = NoRequest(row)]
         /\ crossed' = (crossed \/ asked[r].row # invite) /\ UNCHANGED answers
  BY DEF WritesInvite, Writes
<1>2. declinedByCode' = IF asked[r].op = "declineInvite" THEN declinedByCode + 1 ELSE declinedByCode
  BY DEF WritesInvite
<1>3. /\ row \in Inviting /\ row.paid = invite.paid
      /\ row.status \in {"invited", "accepted", "declined"}
      /\ row.status = "invited" => asked[r].op = "reinviteParticipant" /\ ~row.declined
      /\ row.status = "declined" => asked[r].op \in {"declineBillInvite", "declineInvite"}
      /\ row.accepted => row.user # Nobody
      /\ invite.user # Nobody => row.user # Nobody
      /\ row.user # invite.user => asked[r].row.user # invite.user \/ invite.user = Nobody
      /\ row.declines = IF asked[r].op = "declineInvite"
                        THEN asked[r].row.declines + 1 ELSE invite.declines
  BY <1>1, RowWritten
<1>4. InviteTypeOK /\ AskedOK(asked[r])
  BY DEF InviteInv
<1>12. ~crossed' => ~crossed /\ asked[r].row = invite
  BY <1>1, Zenon
<1>5. NoRequest(row) \in [op : InviteOps, by : Accounts \cup {Nobody}, row : Inviting]
      /\ NoRequest(row).op = "none"
  BY <1>3 DEF NoRequest, InviteOps
<1>6. InviteTypeOK'
  <2>1. crossed' \in BOOLEAN
    BY <1>1, <1>4, Zenon DEF InviteTypeOK
  <2>2. declinedByCode' \in Nat
    BY <1>2, <1>4 DEF InviteTypeOK
  <2> QED
    BY <1>1, <1>3, <1>4, <1>5, <2>1, <2>2 DEF InviteTypeOK
<1>7. InvitationIsAnswerable' /\ (invite'.accepted => invite'.user # Nobody)
  BY <1>1, <1>3 DEF InvitationIsAnswerable
<1>8. DeclinesAreCounted'
  <2>1. invite.declines \in Nat /\ asked[r].row.declines \in Nat /\ declinedByCode \in Nat
    BY <1>4 DEF InviteTypeOK, Inviting
  <2> QED
    BY <1>1, <1>2, <1>3, <1>4, <1>12, <2>1 DEF InviteInv, DeclinesAreCounted, AskedOK
<1>9. PayersSeeTheBill'
  <2>1. invite.paid \in 0..2
    BY <1>4 DEF InviteTypeOK, Inviting
  <2> QED
    BY <1>1, <1>3, <1>4, <1>12, <2>1 DEF InviteInv, PayersSeeTheBill, getMyActiveBills, AskedOK
<1>10. ASSUME NEW x \in Requests PROVE AskedOK(asked[x])'
  <2>1. CASE x = r
    BY <1>1, <1>4, <1>5, <2>1 DEF AskedOK, InviteTypeOK
  <2>2. CASE x # r
    <3>1. asked'[x] = asked[x] /\ AskedOK(asked[x]) /\ asked[x].row.declines \in Nat
      BY <1>1, <1>4, <2>2 DEF InviteInv, InviteTypeOK, Inviting
    <3>2. declinedByCode' = declinedByCode \/ declinedByCode' = declinedByCode + 1
      BY <1>2
    <3>3. declinedByCode \in Nat
      BY <1>4 DEF InviteTypeOK
    <3> QED
      BY <1>1, <1>3, <3>1, <3>2, <3>3 DEF AskedOK
  <2> QED
    BY <2>1, <2>2
<1>11. declinedByCode >= 2 /\ invite.status = "declined" /\ ~crossed' => invite'.status # "invited"
  <2>1. invite.declines \in Nat /\ declinedByCode \in Nat
    BY <1>4 DEF InviteTypeOK, Inviting
  <2> QED
    BY <1>1, <1>3, <1>4, <1>12, <2>1 DEF InviteInv, DeclinesAreCounted, AskedOK
<1> QED
  BY <1>1, <1>3, <1>6, <1>7, <1>8, <1>9, <1>10, <1>11 DEF InviteInv

\* An invitation that expires or is paid for.
LEMMA InviteElsewhere ==
    ASSUME InviteInv, Expire \/ PayForInvited
    PROVE  /\ InviteInv' /\ invite'.user = invite.user
           /\ invite.status # "invited" => invite'.status # "invited"
<1>1. /\ invite \in Inviting /\ InviteTypeOK /\ UNCHANGED <<asked, declinedByCode, crossed>>
      /\ answers' \in 0..MaxAnswers
  BY NobodyAssumption DEF InviteInv, InviteTypeOK, Expire, PayForInvited
<1>2. /\ invite' \in Inviting
      /\ invite'.user = invite.user /\ invite'.accepted = invite.accepted
      /\ invite'.declines = invite.declines
      /\ \/ invite'.paid = invite.paid /\ invite'.status = invite.status /\ invite'.declined = invite.declined
         \/ invite'.status \in {"paid", "partial"}
  <2>1. CASE Expire
    BY <1>1, <2>1 DEF Expire, Inviting
  <2>2. CASE PayForInvited
    <3> DEFINE status == IF invite.paid = 1 THEN "paid" ELSE "partial"
               paid == invite.paid + 1
    <3>1. status \in {"paid", "partial"} /\ paid \in 0..2
      BY <1>1, <2>2 DEF PayForInvited, Inviting
    <3>2. invite' = [invite EXCEPT !.paid = paid, !.status = status]
      BY <2>2 DEF PayForInvited
    <3> HIDE DEF status, paid
    <3> QED
      BY <1>1, <3>1, <3>2 DEF Inviting, InviteStatus
  <2> QED
    BY <2>1, <2>2
<1>3. InviteTypeOK'
  BY <1>1, <1>2 DEF InviteTypeOK
<1>4. \A r \in Requests : AskedOK(asked[r])'
  BY <1>1, <1>2 DEF InviteInv, AskedOK
<1> QED
  BY <1>1, <1>2, <1>3, <1>4
     DEF InviteInv, InvitationIsAnswerable, DeclinesAreCounted, PayersSeeTheBill, getMyActiveBills

\* An invited participant has not answered in the beginning.
LEMMA InviteInits == InviteInit => InviteInv
<1> SUFFICES ASSUME InviteInit PROVE InviteInv
  OBVIOUS
<1>1. PICK u \in Accounts \cup {Nobody} :
         invite = [status |-> "invited", user |-> u, accepted |-> FALSE, declined |-> FALSE,
                   declines |-> 0, paid |-> 0, expired |-> FALSE]
  BY DEF InviteInit
<1>2. invite \in Inviting /\ InvitationIsAnswerable /\ invite.paid = 0 /\ invite.declines = 0
      /\ ~invite.accepted
  BY <1>1 DEF Inviting, InviteStatus, InvitationIsAnswerable
<1>3. NoRequest(invite) \in [op : InviteOps, by : Accounts \cup {Nobody}, row : Inviting]
      /\ NoRequest(invite).op = "none"
  BY <1>2 DEF NoRequest, InviteOps
<1>4. InviteTypeOK
  <2> DEFINE q == NoRequest(invite)
  <2>1. /\ asked = [r \in Requests |-> q]
        /\ declinedByCode = 0 /\ crossed = FALSE /\ answers = 0
    BY DEF InviteInit
  <2> HIDE DEF q
  <2>2. 0 \in 0..MaxAnswers /\ crossed \in BOOLEAN
    <3>1. crossed \in BOOLEAN
      BY <2>1, Zenon
    <3> QED
      BY <3>1, NobodyAssumption
  <2>3. q \in [op : InviteOps, by : Accounts \cup {Nobody}, row : Inviting]
    BY <1>3 DEF q
  <2> QED
    BY <1>2, <2>1, <2>2, <2>3 DEF InviteTypeOK
<1>5. ASSUME NEW r \in Requests PROVE AskedOK(asked[r])
  <2>1. asked[r].op = "none"
    BY <1>3 DEF InviteInit
  <2> QED
    BY <2>1 DEF AskedOK
<1>6. DeclinesAreCounted /\ PayersSeeTheBill
  BY <1>2 DEF InviteInit, DeclinesAreCounted, PayersSeeTheBill
<1> QED
  BY <1>2, <1>4, <1>5, <1>6 DEF InviteInv

\* Every step of an invitation.
LEMMA StepInvite ==
    InviteInv /\ [InviteNext]_inviteVars =>
        /\ InviteInv'
        /\ invite.user # Nobody => invite'.user = invite.user \/ crossed'
        /\ declinedByCode >= 2 /\ invite.status = "declined" /\ ~crossed' => invite'.status # "invited"
<1> SUFFICES ASSUME InviteInv, [InviteNext]_inviteVars
             PROVE  /\ InviteInv'
                    /\ invite.user # Nobody => invite'.user = invite.user \/ crossed'
                    /\ declinedByCode >= 2 /\ invite.status = "declined" /\ ~crossed'
                         => invite'.status # "invited"
  OBVIOUS
<1>1. ASSUME NEW r \in Requests, acceptBillInvite(r) \/ declineBillInvite(r) \/ acceptInvite(r)
                                 \/ declineInvite(r) \/ reinviteParticipant(r)
      PROVE  InviteInv' /\ UNCHANGED invite
  <2>1. invite.user \in Accounts \cup {Nobody}
    BY DEF InviteInv, InviteTypeOK, Inviting
  <2>2. CASE acceptBillInvite(r)
    BY <2>1, <2>2, InviteAsked DEF acceptBillInvite, InviteOps, Asks
  <2>3. CASE declineBillInvite(r)
    BY <2>1, <2>3, InviteAsked DEF declineBillInvite, InviteOps, Asks
  <2>4. CASE acceptInvite(r)
    BY <2>4, InviteAsked DEF acceptInvite, InviteOps, Asks
  <2>5. CASE declineInvite(r)
    BY <2>5, InviteAsked DEF declineInvite, InviteOps, Asks
  <2>6. CASE reinviteParticipant(r)
    BY <2>6, InviteAsked DEF reinviteParticipant, InviteOps, Asks
  <2> QED
    BY <1>1, <2>2, <2>3, <2>4, <2>5, <2>6
<1>2. CASE UNCHANGED inviteVars
  BY <1>2 DEF inviteVars, InviteInv, InviteTypeOK, InvitationIsAnswerable, DeclinesAreCounted,
              PayersSeeTheBill, getMyActiveBills, AskedOK
<1> QED
  BY <1>1, <1>2, InviteSteps, InviteWritten, InviteElsewhere

-----------------------------------------------------------------------------
(* The organisers *)

\* What a request has read and will save.
OrgAskedOK(q) ==
    /\ q.row.who = ByName => q.row.status \in {"absent", "accepted"}
    /\ q.op \in {"create", "save"} /\ q.row.status = "accepted" => q.row.who \in consented \cup {ByName}
    /\ q.op = "accept" => q.row.who \in Invitees

\* What it finds when it has run alone.
OrgAlone(q) ==
    /\ q.op = "create" => OrgAbsent(q.slot) /\ (q.row.who # ByName => RowsOf(q.row.who) = {})
    /\ q.op = "save" => q.row = orgRows[q.slot] \/ orgRows[q.slot].status = "pending"
    /\ q.op = "accept" => orgRows[q.slot].status = "pending"
    /\ q.op \in {"save", "accept"} => ~OrgAbsent(q.slot) /\ q.row.who = orgRows[q.slot].who

OrgInv ==
    /\ OrgTypeOK /\ OrganizersConsented
    /\ \A r \in OrgRequests : OrgAskedOK(orgAsked[r])
    /\ ~orgOverlap =>
         /\ \A r, x \in OrgRequests : orgAsked[r].op # "none" /\ orgAsked[x].op # "none" => r = x
         /\ \A r \in OrgRequests : OrgAlone(orgAsked[r])
         /\ \A u \in Invitees : \A s, t \in RowsOf(u) : s = t

\* A request that reads a row, alone or while others are served.
LEMMA OrgAsks ==
    ASSUME OrgInv, NEW r \in OrgRequests, NEW op \in {"create", "save", "accept", "remove"},
           NEW s \in OrgRows, NEW row \in OrgRow, OrgAsk(r, op, s, row)
    PROVE  LET q == [op |-> op, slot |-> s, row |-> row]
           IN  OrgAskedOK(q) /\ OrgAlone(q) => OrgInv' /\ UNCHANGED orgRows
<1> DEFINE q == [op |-> op, slot |-> s, row |-> row]
<1> SUFFICES ASSUME OrgAskedOK(q), OrgAlone(q) PROVE OrgInv' /\ UNCHANGED orgRows
  OBVIOUS
<1>1. /\ orgAsked[r].op = "none" /\ orgOps < MaxOrgOps /\ orgOps' = orgOps + 1
      /\ orgAsked' = [orgAsked EXCEPT ![r] = q]
      /\ orgOverlap' = (orgOverlap \/ \E x \in OrgRequests : orgAsked[x].op # "none")
      /\ UNCHANGED <<orgRows, consented>>
  BY DEF OrgAsk
<1>2. q.op = op /\ q \in [op : {"none", "create", "save", "accept", "remove"}, slot : OrgRows, row : OrgRow]
  OBVIOUS
<1> HIDE DEF q
<1>3. OrgTypeOK /\ orgAsked'[r] = q /\ \A x \in OrgRequests \ {r} : orgAsked'[x] = orgAsked[x]
  BY <1>1 DEF OrgInv, OrgTypeOK
<1>4. ~orgOverlap' => ~orgOverlap /\ \A x \in OrgRequests : orgAsked[x].op = "none"
  BY <1>1, Zenon
<1>5. OrgTypeOK'
  <2>1. orgOverlap' \in BOOLEAN
    BY <1>1, Zenon
  <2>2. orgOps' \in 0..MaxOrgOps
    BY <1>1, <1>3, ByNameAssumption DEF OrgTypeOK
  <2>3. orgAsked' \in [OrgRequests -> [op : {"none", "create", "save", "accept", "remove"},
                                       slot : OrgRows, row : OrgRow]]
    BY <1>1, <1>2, <1>3 DEF OrgTypeOK
  <2> QED
    BY <1>1, <1>3, <2>1, <2>2, <2>3 DEF OrgTypeOK
<1>6. OrganizersConsented'
  BY <1>1 DEF OrgInv, OrganizersConsented, ListedOrganizers
<1>7. \A x \in OrgRequests : OrgAskedOK(orgAsked[x])'
  BY <1>1, <1>3 DEF OrgInv, OrgAskedOK
<1>8. ASSUME ~orgOverlap'
      PROVE  /\ \A y, x \in OrgRequests : orgAsked'[y].op # "none" /\ orgAsked'[x].op # "none" => y = x
             /\ \A x \in OrgRequests : OrgAlone(orgAsked[x])'
             /\ \A u \in Invitees : \A x, t \in RowsOf(u)' : x = t
  <2>1. \A y, x \in OrgRequests : orgAsked'[y].op # "none" /\ orgAsked'[x].op # "none" => y = x
    BY <1>3, <1>4, <1>8
  <2>2. ASSUME NEW x \in OrgRequests PROVE OrgAlone(orgAsked[x])'
    <3>1. CASE x = r
      <4>1. OrgAlone(orgAsked'[r])
        BY <1>3
      <4> QED
        BY <1>1, <3>1, <4>1 DEF OrgAlone, OrgAbsent, RowsOf
    <3>2. CASE x # r
      BY <1>3, <1>4, <1>8, <3>2 DEF OrgAlone
    <3> QED
      BY <3>1, <3>2
  <2>3. \A u \in Invitees : \A x, t \in RowsOf(u)' : x = t
    BY <1>1, <1>4, <1>8 DEF OrgInv, RowsOf, OrgAbsent
  <2> QED
    BY <2>1, <2>2, <2>3
<1> QED
  BY <1>1, <1>5, <1>6, <1>7, <1>8 DEF OrgInv

\* A request that saves the row it has read, or removes it.
LEMMA OrgWrites ==
    ASSUME OrgInv, NEW r \in OrgRequests, SaveOrganizer(r) \/ DeleteOrganizer(r)
    PROVE  /\ OrgInv'
           /\ ~orgOverlap => \A s \in OrgRows : orgRows[s].status \in {"accepted", "rejected"} =>
                                 orgRows'[s].status \in {orgRows[s].status, "absent"}
<1> DEFINE q == orgAsked[r]
           row == IF q.op = "remove" THEN NoRow ELSE q.row
<1>1. /\ q.op \in {"create", "save", "accept", "remove"}
      /\ orgRows' = [orgRows EXCEPT ![q.slot] = row]
      /\ consented' = IF q.op = "accept" THEN consented \cup {q.row.who} ELSE consented
      /\ orgAsked' = [orgAsked EXCEPT ![r] = OrgIdle]
      /\ UNCHANGED <<orgOverlap, orgOps>>
  BY DEF SaveOrganizer, DeleteOrganizer
<1>2. /\ OrgTypeOK /\ q \in [op : {"none", "create", "save", "accept", "remove"}, slot : OrgRows, row : OrgRow]
      /\ q.slot \in OrgRows /\ q.row \in OrgRow /\ OrgAskedOK(q)
  BY DEF OrgInv, OrgTypeOK
<1>3. NoRow \in OrgRow /\ NoRow.status = "absent" /\ NoRow.who = ByName
  BY DEF NoRow, OrgRow, OrgStatus
<1>4. /\ row \in OrgRow /\ (row.who = ByName => row.status \in {"absent", "accepted"})
      /\ row.status = "accepted" => row.who \in consented' \cup {ByName}
  BY <1>1, <1>2, <1>3 DEF OrgAskedOK, OrgRow, OrgStatus
<1>5. /\ OrgIdle.op = "none" /\ OrgIdle.row = NoRow
      /\ OrgIdle \in [op : {"none", "create", "save", "accept", "remove"}, slot : OrgRows, row : OrgRow]
  BY <1>3, ByNameAssumption DEF OrgIdle
<1>6. ~orgOverlap =>
        /\ OrgAlone(q) /\ \A x \in OrgRequests \ {r} : orgAsked[x].op = "none"
        /\ \A u \in Invitees : \A s, t \in RowsOf(u) : s = t
  BY <1>1 DEF OrgInv
<1>7. q.op = "remove" => row = NoRow
  OBVIOUS
<1>8. q.op # "remove" => row = q.row
  OBVIOUS
<1> HIDE DEF q, row
<1>9. /\ orgRows'[q.slot] = row /\ \A s \in OrgRows \ {q.slot} : orgRows'[s] = orgRows[s]
      /\ orgAsked'[r].op = "none" /\ orgAsked'[r].row = NoRow
      /\ \A x \in OrgRequests \ {r} : orgAsked'[x] = orgAsked[x]
  BY <1>1, <1>2, <1>5 DEF OrgTypeOK
<1>10. consented' \subseteq Invitees /\ consented \subseteq consented'
  BY <1>1, <1>2 DEF OrgTypeOK, OrgAskedOK
<1>11. OrgTypeOK'
  <2>1. orgRows' \in [OrgRows -> OrgRow]
    BY <1>1, <1>2, <1>4 DEF OrgTypeOK
  <2>2. orgAsked' \in [OrgRequests -> [op : {"none", "create", "save", "accept", "remove"},
                                       slot : OrgRows, row : OrgRow]]
    BY <1>1, <1>2, <1>5 DEF OrgTypeOK
  <2>3. \A s \in OrgRows : orgRows'[s].who = ByName => orgRows'[s].status \in {"absent", "accepted"}
    BY <1>2, <1>4, <1>9 DEF OrgTypeOK
  <2> QED
    BY <1>1, <1>2, <1>10, <2>1, <2>2, <2>3 DEF OrgTypeOK
<1>12. OrganizersConsented'
  BY <1>4, <1>9, <1>10 DEF OrgInv, OrganizersConsented, ListedOrganizers
<1>13. \A x \in OrgRequests : OrgAskedOK(orgAsked[x])'
  <2>1. ASSUME NEW x \in OrgRequests, x # r PROVE OrgAskedOK(orgAsked[x])'
    <3>1. orgAsked'[x] = orgAsked[x] /\ OrgAskedOK(orgAsked[x])
      BY <1>9, <2>1 DEF OrgInv
    <3> QED
      BY <1>10, <3>1 DEF OrgAskedOK
  <2>2. OrgAskedOK(orgAsked[r])'
    BY <1>3, <1>9 DEF OrgAskedOK
  <2> QED
    BY <2>1, <2>2
<1>14. ASSUME ~orgOverlap'
       PROVE  /\ \A y, x \in OrgRequests : orgAsked'[y].op # "none" /\ orgAsked'[x].op # "none" => y = x
              /\ \A x \in OrgRequests : OrgAlone(orgAsked[x])'
              /\ \A u \in Invitees : \A s, t \in RowsOf(u)' : s = t
  <2>1. \A x \in OrgRequests : orgAsked'[x].op = "none"
    BY <1>1, <1>6, <1>9, <1>14
  <2>2. \A x \in OrgRequests : OrgAlone(orgAsked[x])'
    BY <2>1 DEF OrgAlone
  <2>3. ASSUME NEW u \in Invitees, NEW s \in RowsOf(u)', NEW t \in RowsOf(u)' PROVE s = t
    <3>1. /\ s \in OrgRows /\ orgRows'[s].status # "absent" /\ orgRows'[s].who = u
          /\ t \in OrgRows /\ orgRows'[t].status # "absent" /\ orgRows'[t].who = u /\ u # ByName
      BY <2>3, ByNameAssumption DEF RowsOf, OrgAbsent
    <3>2. OrgAlone(q) /\ \A x, y \in RowsOf(u) : x = y
      BY <1>1, <1>6, <1>14
    <3>3. ASSUME NEW x \in OrgRows, x # q.slot, orgRows'[x].status # "absent", orgRows'[x].who = u
          PROVE  x \in RowsOf(u)
      BY <1>9, <3>3 DEF RowsOf, OrgAbsent
    <3>4. CASE q.op = "create"
      BY <1>8, <1>9, <3>1, <3>2, <3>3, <3>4 DEF OrgAlone
    <3>5. CASE q.op \in {"save", "accept"}
      <4>1. orgRows'[q.slot].who = u => q.slot \in RowsOf(u)
        BY <1>2, <1>8, <1>9, <3>2, <3>5 DEF OrgAlone, RowsOf
      <4> QED
        BY <3>1, <3>2, <3>3, <4>1
    <3>6. CASE q.op = "remove"
      BY <1>3, <1>7, <1>9, <3>1, <3>2, <3>3, <3>6
    <3> QED
      BY <1>1, <3>4, <3>5, <3>6
  <2> QED
    BY <2>1, <2>2, <2>3
<1>15. ASSUME ~orgOverlap, NEW s \in OrgRows, orgRows[s].status \in {"accepted", "rejected"}
       PROVE  orgRows'[s].status \in {orgRows[s].status, "absent"}
  <2>1. OrgAlone(q)
    BY <1>6, <1>15
  <2>2. CASE s = q.slot
    BY <1>1, <1>3, <1>7, <1>8, <1>9, <1>15, <2>1, <2>2 DEF OrgAlone, OrgAbsent
  <2> QED
    BY <1>9, <2>2
<1> QED
  BY <1>11, <1>12, <1>13, <1>14, <1>15 DEF OrgInv

\* Nobody has been asked to organize in the beginning.
LEMMA OrgInits == OrgInit => OrgInv
<1> SUFFICES ASSUME OrgInit PROVE OrgInv
  OBVIOUS
<1>1. /\ NoRow \in OrgRow /\ NoRow.status = "absent" /\ NoRow.who = ByName
      /\ OrgIdle.op = "none" /\ OrgIdle.row = NoRow
      /\ OrgIdle \in [op : {"none", "create", "save", "accept", "remove"}, slot : OrgRows, row : OrgRow]
  BY ByNameAssumption DEF NoRow, OrgRow, OrgStatus, OrgIdle
<1>2. OrgTypeOK
  <2>1. orgOverlap \in BOOLEAN
    BY Zenon DEF OrgInit
  <2>2. orgOps \in 0..MaxOrgOps /\ consented \subseteq Invitees
    BY ByNameAssumption DEF OrgInit
  <2> HIDE DEF OrgIdle
  <2>3. /\ orgRows \in [OrgRows -> OrgRow] /\ \A s \in OrgRows : orgRows[s] = NoRow
        /\ orgAsked \in [OrgRequests -> [op : {"none", "create", "save", "accept", "remove"},
                                        slot : OrgRows, row : OrgRow]]
    BY <1>1 DEF OrgInit
  <2> QED
    BY <1>1, <2>1, <2>2, <2>3 DEF OrgTypeOK
<1>3. /\ \A s \in OrgRows : orgRows[s].status = "absent"
      /\ \A r \in OrgRequests : orgAsked[r].op = "none" /\ orgAsked[r].row = NoRow
  BY <1>1 DEF OrgInit
<1>4. \A r \in OrgRequests : OrgAskedOK(orgAsked[r]) /\ OrgAlone(orgAsked[r])
  BY <1>1, <1>3 DEF OrgAskedOK, OrgAlone
<1>5. OrganizersConsented /\ \A u \in Invitees : RowsOf(u) = {}
  BY <1>3 DEF OrganizersConsented, ListedOrganizers, RowsOf, OrgAbsent
<1> QED
  BY <1>2, <1>3, <1>4, <1>5 DEF OrgInv

\* Every step of the organisers.
LEMMA StepOrg ==
    OrgInv /\ [OrgNext]_orgVars =>
        /\ OrgInv'
        /\ \A s \in OrgRows : orgRows[s].status \in {"accepted", "rejected"} =>
              orgRows'[s].status \in {orgRows[s].status, "absent"} \/ orgOverlap
<1> SUFFICES ASSUME OrgInv, [OrgNext]_orgVars
             PROVE  /\ OrgInv'
                    /\ \A s \in OrgRows : orgRows[s].status \in {"accepted", "rejected"} =>
                          orgRows'[s].status \in {orgRows[s].status, "absent"} \/ orgOverlap
  OBVIOUS
<1>1. OrgTypeOK /\ OrganizersConsented /\ ByName \notin Invitees
  BY ByNameAssumption DEF OrgInv
<1>2. ASSUME NEW r \in OrgRequests, createOrganizer(r) PROVE OrgInv' /\ UNCHANGED orgRows
  <2>1. PICK u \in Invitees \cup {ByName}, s \in OrgRows :
           OrgAbsent(s) /\ (u # ByName => RowsOf(u) = {}) /\ OrgAsk(r, "create", s, NewOrganizer(u))
    BY <1>2 DEF createOrganizer
  <2> DEFINE row == NewOrganizer(u)
  <2>2. row \in OrgRow /\ row.who = u /\ (row.status = "accepted" => u = ByName)
        /\ (u = ByName => row.status = "accepted")
    BY DEF NewOrganizer, OrgRow, OrgStatus
  <2> HIDE DEF row
  <2> DEFINE q == [op |-> "create", slot |-> s, row |-> row]
  <2>3. OrgAskedOK(q) /\ OrgAlone(q)
    BY <2>1, <2>2 DEF OrgAskedOK, OrgAlone
  <2>4. OrgAsk(r, "create", s, row)
    BY <2>1 DEF row
  <2> QED
    BY <2>2, <2>3, <2>4, OrgAsks
<1>3. ASSUME NEW r \in OrgRequests, NEW s \in OrgRows, NEW row, NEW op \in {"save", "accept"},
             orgRows[s].who # ByName, orgRows[s].status = "pending",
             \/ op = "save" /\ row = [orgRows[s] EXCEPT !.status = "rejected"]
             \/ op = "accept" /\ row = [orgRows[s] EXCEPT !.status = "accepted"],
             OrgAsk(r, op, s, row)
      PROVE  OrgInv' /\ UNCHANGED orgRows
  <2>1. orgRows[s] \in OrgRow
    BY <1>1 DEF OrgTypeOK
  <2>2. row \in OrgRow /\ row.who = orgRows[s].who /\ row.status = (IF op = "save" THEN "rejected" ELSE "accepted")
    BY <1>3, <2>1 DEF OrgRow, OrgStatus
  <2>3. row.who \in Invitees
    BY <1>3, <2>1, <2>2 DEF OrgRow
  <2> DEFINE q == [op |-> op, slot |-> s, row |-> row]
  <2>4. OrgAskedOK(q) /\ OrgAlone(q)
    BY <1>1, <1>3, <2>2, <2>3 DEF OrgAskedOK, OrgAlone, OrgAbsent
  <2> QED
    BY <1>3, <2>2, <2>4, OrgAsks
<1>4. ASSUME NEW r \in OrgRequests, acceptOrganizer(r) \/ rejectOrganizer(r)
      PROVE  OrgInv' /\ UNCHANGED orgRows
  BY <1>3, <1>4 DEF acceptOrganizer, rejectOrganizer
<1>5. ASSUME NEW r \in OrgRequests, updateOrganizer(r) \/ removeOrganizer(r)
      PROVE  OrgInv' /\ UNCHANGED orgRows
  <2>1. PICK s \in OrgRows, op \in {"save", "remove"} : ~OrgAbsent(s) /\ OrgAsk(r, op, s, orgRows[s])
    BY <1>5 DEF updateOrganizer, removeOrganizer
  <2> DEFINE row == orgRows[s]
             q == [op |-> op, slot |-> s, row |-> row]
  <2>2. row \in OrgRow
    BY <1>1 DEF OrgTypeOK
  <2>3. OrgAskedOK(q)
    BY <1>1, <2>1 DEF OrgAskedOK, OrgTypeOK, OrganizersConsented, ListedOrganizers
  <2>4. OrgAlone(q)
    BY <2>1 DEF OrgAlone
  <2>5. OrgAsk(r, op, s, row)
    BY <2>1
  <2> HIDE DEF row
  <2> QED
    BY <2>2, <2>3, <2>4, <2>5, OrgAsks
<1>6. ASSUME NEW r \in OrgRequests, SaveOrganizer(r) \/ DeleteOrganizer(r)
      PROVE  /\ OrgInv'
             /\ \A s \in OrgRows : orgRows[s].status \in {"accepted", "rejected"} =>
                   orgRows'[s].status \in {orgRows[s].status, "absent"} \/ orgOverlap
  BY <1>6, OrgWrites
<1>7. CASE UNCHANGED orgVars
  BY <1>7 DEF orgVars, OrgInv, OrgTypeOK, OrganizersConsented, ListedOrganizers, OrgAskedOK, OrgAlone,
              RowsOf, OrgAbsent
<1> QED
  BY <1>2, <1>4, <1>5, <1>6, <1>7 DEF OrgNext

\* What the invariant says of the organisers.
LEMMA OrgMeans == OrgInv => OrganizersConsented /\ OneRowPerInvitee
<1> SUFFICES ASSUME OrgInv, ~orgOverlap, NEW u \in Invitees PROVE Cardinality(RowsOf(u)) <= 1
  BY DEF OrgInv, OneRowPerInvitee
<1>1. \A s, t \in RowsOf(u) : s = t
  BY DEF OrgInv
<1>2. CASE RowsOf(u) = {}
  BY <1>2, FS_EmptySet
<1>3. CASE RowsOf(u) # {}
  <2>1. PICK s \in RowsOf(u) : RowsOf(u) = {s}
    BY <1>1, <1>3
  <2> QED
    BY <2>1, FS_Singleton
<1> QED
  BY <1>2, <1>3

-----------------------------------------------------------------------------
(* The proposal *)

Stored(r) == inFlight[r].step \in {"count", "decide", "save"}

\* A row that shows the votes that are stored, and is not left waiting.
Shown(row) == row.votesFor = Count("approve") /\ row.votesAgainst = Count("reject")
Counted(row) == Shown(row) /\ (row.status = "pending" => row.votesFor < row.required)

\* A decision that a row holds rests on votes.
Rests(row) ==
    /\ row.status \in {"approved", "executed"} => backed
    /\ row.status = "rejected" => lost \/ shrunk

\* What a count of the votes would decide rests on votes.
Deciding(row) ==
    /\ WonBy(row) => backed
    /\ LostBy(row, Cardinality(members)) => lost \/ shrunk

\* What a request has read; as long as no two crossed, the proposal has not changed since.
InFlightOK(r) ==
    LET q == inFlight[r] IN
    /\ q.step # "idle" => Opened /\ q.row.status # "none" /\ q.row.required = proposal.required
    /\ Rests(q.row)
    /\ q.step = "execute" => q.row.status = "approved"
    /\ q.step = "decide" => Deciding(q.row)
    /\ ~crossing => /\ q.step \in {"vote", "count", "execute"} => q.row = proposal
                    /\ q.step \in {"vote", "count", "decide", "save"} => proposal.status = "pending"
    /\ ~crossing /\ ~torn /\ (\A s \in GovRequests \ {r} : ~Stored(s)) =>
           /\ q.step = "decide" => Shown(q.row)
           /\ q.step \in {"save", "execute"} => Counted(q.row)

Backing ==
    /\ Opened /\ Count("approve") >= proposal.required => backed
    /\ Opened /\ Count("reject") > Cardinality(members) - proposal.required => lost

GovInv ==
    /\ GovTypeOK /\ members # {} /\ Rests(proposal) /\ Backing
    /\ proposal.status = "none" => proposal = NoProposal /\ \A u \in GovUsers : ballots[u] = "none"
    /\ ~crossing /\ ~torn /\ (\A s \in GovRequests : ~Stored(s)) => Counted(proposal)
    /\ \A r \in GovRequests : InFlightOK(r)

InFlight == [step : {"idle", "vote", "count", "decide", "save", "execute"},
             by : GovUsers, vote : Vote \cup {"none"}, row : ProposalRow]

\* The history is only added to, and says when the votes decide.
GovGrows ==
    /\ backed => backed'
    /\ lost => lost'
    /\ shrunk => shrunk'
    /\ shrunk' \in BOOLEAN
    /\ backed' \in BOOLEAN /\ lost' \in BOOLEAN
    /\ Backing'

\* The histories of the votes only grow, and grow with what the votes say.
LEMMA Grown ==
    ASSUME GovInv, shrunk' \in BOOLEAN, shrunk => shrunk',
           backed' = (backed \/ (Opened /\ Count("approve") >= proposal.required)'),
           lost' = (lost \/ (Opened /\ Count("reject") > Cardinality(members) - proposal.required)')
    PROVE  GovGrows
BY Zenon DEF GovGrows, Backing

\* Votes and members are finitely many.
LEMMA GovCounts ==
    /\ \A v : Count(v) \in Nat
    /\ Cardinality(GovUsers) \in Nat
    /\ \A m \in SUBSET GovUsers : m # {} => Cardinality(m) \in 1..Cardinality(GovUsers)
<1>1. IsFiniteSet(GovUsers)
  BY VotersAssumption, FS_AddElement DEF GovUsers
<1>2. \A m \in SUBSET GovUsers :
        IsFiniteSet(m) /\ Cardinality(m) \in Nat /\ Cardinality(m) <= Cardinality(GovUsers)
  BY <1>1, FS_Subset, FS_CardinalityType
<1>3. \A v : {u \in GovUsers : ballots[u] = v} \in SUBSET GovUsers
  OBVIOUS
<1>4. \A v : Count(v) \in Nat
  BY <1>2, <1>3 DEF Count
<1>5. ASSUME NEW m \in SUBSET GovUsers, m # {} PROVE Cardinality(m) # 0
  BY <1>2, <1>5, FS_EmptySet
<1> QED
  BY <1>1, <1>2, <1>4, <1>5, FS_CardinalityType

\* What holds when the votes, the proposal and the requests stay.
LEMMA GovSame ==
    ASSUME GovInv, GovGrows, UNCHANGED <<proposal, ballots, inFlight, crossing, torn>>,
           members' \in (SUBSET GovUsers) \ {{}},
           \/ shrunk' \/ Cardinality(members) <= Cardinality(members')
           \/ \A r \in GovRequests : inFlight[r].step # "decide",
           ballotCount' \in 0..MaxBallots, joins' \in 0..MaxJoins
    PROVE  GovInv'
<1>1. \A v : Count(v)' = Count(v)
  BY DEF Count
<1>4. ASSUME NEW r \in GovRequests, inFlight[r].step = "decide" PROVE Deciding(inFlight[r].row)'
  <2> DEFINE row == inFlight[r].row
  <2>1. Deciding(row) /\ row \in ProposalRow
    BY <1>4 DEF GovInv, InFlightOK, GovTypeOK
  <2>2. Cardinality(members) \in Nat /\ Cardinality(members)' \in Nat
    BY GovCounts DEF GovInv, GovTypeOK
  <2>3. row.votesAgainst \in Nat /\ row.required \in Nat /\ inFlight' = inFlight
    BY <2>1 DEF ProposalRow
  <2>4. shrunk' \/ Cardinality(members) <= Cardinality(members')
    BY <1>4
  <2> HIDE DEF row
  <2>5. LostBy(row, Cardinality(members'))  => shrunk' \/ LostBy(row, Cardinality(members))
    BY <2>2, <2>3, <2>4 DEF LostBy
  <2>6. Deciding(row)' <=> /\ WonBy(row') => backed'
                           /\ LostBy(row', Cardinality(members')) => lost' \/ shrunk'
    BY DEF Deciding
  <2>7. row' = row
    BY <2>3 DEF row
  <2>8. (WonBy(row) => backed) /\ (LostBy(row, Cardinality(members)) => lost \/ shrunk)
    BY <2>1 DEF Deciding
  <2>9. (backed => backed') /\ (lost => lost') /\ (shrunk => shrunk')
    BY DEF GovGrows
  <2>10. Deciding(row)'
    BY <2>5, <2>6, <2>7, <2>8, <2>9
  <2> QED
    BY <2>10 DEF row
<1>2. \A r \in GovRequests : InFlightOK(r)'
  BY <1>1, <1>4 DEF GovInv, InFlightOK, GovGrows, Rests, Counted, Shown, Stored, Opened
<1>3. GovTypeOK'
  BY DEF GovInv, GovTypeOK, GovGrows
<1> QED
  BY <1>1, <1>2, <1>3 DEF GovInv, GovGrows, Rests, Counted, Shown, Stored

\* A request replaces what a handler does, the votes stay.
LEMMA GovRequest ==
    ASSUME GovInv, GovGrows, NEW r \in GovRequests, NEW q \in InFlight,
           inFlight' = [inFlight EXCEPT ![r] = q],
           UNCHANGED <<members, proposal, ballots, crossing, joins>>,
           (torn' = torn) \/ (torn' = TRUE /\ Stored(r)),
           ballotCount' \in 0..MaxBallots,
           ~torn' => (Stored(r) <=> q.step \in {"count", "decide", "save"}),
           q.step # "idle" => Opened /\ q.row.status # "none" /\ q.row.required = proposal.required,
           Rests(q.row),
           q.step = "execute" => q.row.status = "approved",
           q.step = "decide" => Deciding(q.row),
           ~crossing => /\ q.step \in {"vote", "count", "execute"} => q.row = proposal
                        /\ q.step \in {"vote", "count", "decide", "save"} => proposal.status = "pending",
           ~crossing /\ ~torn /\ q.step = "decide" => Shown(q.row),
           ~crossing /\ ~torn /\ q.step = "save" /\ (\A s \in GovRequests \ {r} : ~Stored(s))
             => Counted(q.row),
           ~crossing /\ ~torn /\ q.step = "execute" => (~Stored(r) /\ q.row = proposal)
    PROVE  GovInv'
<1>1. \A v : Count(v)' = Count(v)
  BY DEF Count
<1>2. /\ inFlight \in [GovRequests -> InFlight] /\ inFlight' \in [GovRequests -> InFlight]
      /\ inFlight'[r] = q /\ \A x \in GovRequests \ {r} : inFlight'[x] = inFlight[x]
  BY DEF GovInv, GovTypeOK, InFlight
<1>3. torn' \in BOOLEAN /\ (~torn' => ~torn)
  <2>1. torn \in BOOLEAN
    BY DEF GovInv, GovTypeOK
  <2>2. CASE torn' = torn
    BY <2>1, <2>2
  <2>3. CASE torn' = TRUE
    BY <2>3
  <2> QED
    BY <2>2, <2>3
<1>4. GovTypeOK'
  <2>1. backed' \in BOOLEAN /\ lost' \in BOOLEAN /\ shrunk' \in BOOLEAN
    BY DEF GovGrows
  <2> QED
    BY <1>2, <1>3, <2>1 DEF GovInv, GovTypeOK, InFlight
<1>5. ~torn' => \A x \in GovRequests : Stored(x)' <=> Stored(x)
  BY <1>2 DEF Stored
<1>6. ~crossing' /\ ~torn' /\ (\A s \in GovRequests : ~Stored(s)') => Counted(proposal)'
  BY <1>1, <1>3, <1>5 DEF GovInv, Counted, Shown
<1>7. ASSUME NEW x \in GovRequests, x # r PROVE InFlightOK(x)'
  <2>1. inFlight'[x] = inFlight[x] /\ InFlightOK(x)
    BY <1>2, <1>7 DEF GovInv
  <2> QED
    <3>1. inFlight[x].step = "decide" => Deciding(inFlight[x].row)'
      BY <2>1 DEF InFlightOK, Deciding, GovGrows, WonBy, LostBy
    <3> QED
      BY <1>1, <1>3, <1>5, <2>1, <3>1 DEF InFlightOK, Opened, Rests, Counted, Shown, GovGrows
<1>8. InFlightOK(r)'
  <2>1. Rests(q.row)'
    BY DEF Rests, GovGrows
  <2>2. ~crossing /\ ~torn' /\ q.step \in {"save", "execute"} /\ (\A s \in GovRequests \ {r} : ~Stored(s)')
          => Counted(q.row)'
    <3>1. Counted(q.row) => Counted(q.row)'
      BY <1>1 DEF Counted, Shown
    <3>2. (\A s \in GovRequests \ {r} : ~Stored(s)') /\ ~torn' => \A s \in GovRequests \ {r} : ~Stored(s)
      BY <1>5
    <3>3. ~crossing /\ ~torn /\ (\A s \in GovRequests \ {r} : ~Stored(s)) /\ ~Stored(r) => Counted(proposal)
      BY DEF GovInv
    <3> QED
      BY <1>3, <3>1, <3>2, <3>3
  <2>3. ~crossing /\ ~torn' /\ q.step = "decide" => Shown(q.row)'
    BY <1>1, <1>3 DEF Shown
  <2>4. q.step = "decide" => Deciding(q.row)'
    BY DEF Deciding, GovGrows, WonBy, LostBy
  <2> QED
    BY <1>2, <2>1, <2>2, <2>3, <2>4 DEF InFlightOK, Opened
<1>9. Rests(proposal)'
  BY DEF GovInv, Rests, GovGrows
<1> QED
  BY <1>4, <1>6, <1>7, <1>8, <1>9 DEF GovInv, GovGrows

\* There is nothing to decide in the beginning.
LEMMA GovInits == GovInit => GovInv
<1> SUFFICES ASSUME GovInit PROVE GovInv
  OBVIOUS
<1>1. /\ NoProposal \in ProposalRow /\ NoProposal.status = "none"
      /\ NoProposal.votesFor = 0 /\ NoProposal.votesAgainst = 0
  BY DEF NoProposal, ProposalRow, ProposalStatus
<1>2. Idle \in InFlight /\ Idle.step = "idle" /\ Idle.row = NoProposal
  BY <1>1 DEF Idle, InFlight, GovUsers, Vote
<1> HIDE DEF Idle, NoProposal
<1>3. /\ proposal = NoProposal /\ \A u \in GovUsers : ballots[u] = "none"
      /\ inFlight \in [GovRequests -> InFlight] /\ \A r \in GovRequests : inFlight[r] = Idle
      /\ ballots \in [GovUsers -> Vote \cup {"none"}]
  BY <1>2 DEF GovInit
<1>4. GovTypeOK
  <2>1. {backed, lost, crossing, torn, shrunk} \subseteq BOOLEAN
    BY Zenon DEF GovInit
  <2>2. ballotCount \in 0..MaxBallots /\ joins \in 0..MaxJoins /\ members \subseteq GovUsers
    BY VotersAssumption DEF GovInit
  <2> QED
    BY <1>1, <1>3, <2>1, <2>2 DEF GovTypeOK, InFlight
<1>5. Count("approve") = 0 /\ Count("reject") = 0
  <2>1. {u \in GovUsers : ballots[u] = "approve"} = {} /\ {u \in GovUsers : ballots[u] = "reject"} = {}
    BY <1>3
  <2> QED
    BY <2>1, FS_EmptySet DEF Count
<1>6. Counted(proposal) /\ Rests(proposal) /\ Backing /\ \A r \in GovRequests : InFlightOK(r)
  BY <1>1, <1>2, <1>3, <1>5 DEF Counted, Shown, Rests, Backing, InFlightOK, Opened
<1> QED
  BY <1>3, <1>4, <1>6 DEF GovInv, GovInit

\* createProposal: nobody votes yet.
LEMMA GovCreates ==
    ASSUME GovInv, GovGrows, createProposal
    PROVE  GovInv'
<1>1. /\ proposal.status = "none" /\ \A u \in GovUsers : ballots[u] = "none"
      /\ proposal' = [NoProposal EXCEPT !.status = "pending", !.required = HalfOf(Cardinality(members))]
      /\ UNCHANGED <<members, ballots, inFlight, crossing, torn, shrunk, ballotCount, joins>>
  BY DEF createProposal, GovInv
<1>2. Cardinality(members) \in 1..Cardinality(GovUsers) /\ Cardinality(GovUsers) \in Nat
  BY GovCounts DEF GovInv, GovTypeOK
<1>3. HalfOf(Cardinality(members)) \in 1..Cardinality(GovUsers)
  BY <1>2 DEF HalfOf
<1>4. /\ proposal' \in ProposalRow /\ proposal'.status = "pending"
      /\ proposal'.votesFor = 0 /\ proposal'.votesAgainst = 0
      /\ proposal'.required \in 1..Cardinality(GovUsers)
  <2> DEFINE n == HalfOf(Cardinality(members))
  <2>1. proposal' = [status |-> "pending", votesFor |-> 0, votesAgainst |-> 0, required |-> n]
    BY <1>1 DEF NoProposal
  <2>2. n \in 1..Cardinality(GovUsers) /\ n \in Nat
    BY <1>2, <1>3
  <2> HIDE DEF n
  <2> QED
    BY <2>1, <2>2 DEF ProposalRow, ProposalStatus
<1>5. Count("approve")' = 0 /\ Count("reject")' = 0
  <2>1. {u \in GovUsers : ballots'[u] = "approve"} = {} /\ {u \in GovUsers : ballots'[u] = "reject"} = {}
    BY <1>1
  <2> QED
    BY <2>1, FS_EmptySet DEF Count
<1>6. Counted(proposal)' /\ Rests(proposal)'
  BY <1>4, <1>5 DEF Counted, Shown, Rests
<1>7. ASSUME NEW r \in GovRequests PROVE InFlightOK(r)'
  <2>1. inFlight[r].step = "idle" /\ Rests(inFlight[r].row)
    BY <1>1 DEF GovInv, InFlightOK, Opened
  <2> QED
    BY <1>1, <2>1 DEF InFlightOK, Rests, GovGrows
<1>8. GovTypeOK'
  BY <1>1, <1>4 DEF GovInv, GovTypeOK, GovGrows
<1> QED
  BY <1>1, <1>4, <1>6, <1>7, <1>8 DEF GovInv, GovGrows

\* castVote and executeProposal read the proposal.
LEMMA GovReads ==
    ASSUME GovInv, GovGrows, NEW r \in GovRequests, castVote(r) \/ executeProposal(r)
    PROVE  GovInv' /\ UNCHANGED proposal
<1>1. PICK u \in GovUsers, v \in Vote \cup {"none"}, step \in {"vote", "execute"} :
         /\ Asking(r, step, u, v) /\ proposal.status = (IF step = "vote" THEN "pending" ELSE "approved")
         /\ UNCHANGED <<members, proposal, ballots, crossing, torn, shrunk, joins>>
  BY DEF castVote, executeProposal, GovUsers
<1> DEFINE q == [step |-> step, by |-> u, vote |-> v, row |-> proposal]
<1>2. inFlight' = [inFlight EXCEPT ![r] = q] /\ ballotCount' \in 0..MaxBallots /\ ~Stored(r)
  BY <1>1, VotersAssumption DEF Asking, Stored, GovInv, GovTypeOK
<1>3. q \in InFlight /\ q.step = step /\ q.row = proposal
  BY DEF InFlight, GovInv, GovTypeOK
<1> HIDE DEF q
<1> QED
  BY <1>1, <1>2, <1>3, GovRequest DEF GovInv, Opened

\* The vote is stored.
LEMMA GovStores ==
    ASSUME GovInv, GovGrows, NEW r \in GovRequests, StoreVote(r)
    PROVE  GovInv' /\ UNCHANGED proposal
<1> DEFINE q == inFlight[r]
<1>1. /\ q \in InFlight /\ q.step = "vote" /\ InFlightOK(r) /\ ballots \in [GovUsers -> Vote \cup {"none"}]
      /\ ballots' = [ballots EXCEPT ![q.by] = q.vote]
      /\ UNCHANGED <<members, proposal, crossing, torn, shrunk, ballotCount, joins>>
  BY DEF StoreVote, GovInv, GovTypeOK, InFlight
<1>2. ~Stored(r) /\ Idle \in InFlight /\ Idle.step = "idle" /\ Rests(Idle.row)
  BY <1>1 DEF Stored, Idle, NoProposal, InFlight, GovUsers, Vote, ProposalRow, ProposalStatus, Rests
<1>3. CASE ballots[q.by] = q.vote
  <2>1. ballots' = ballots
    BY <1>1, <1>3 DEF InFlight
  <2>2. inFlight' = [inFlight EXCEPT ![r] = Idle]
    BY <1>3 DEF StoreVote
  <2>3. ballotCount \in 0..MaxBallots
    BY DEF GovInv, GovTypeOK
  <2> HIDE DEF Idle
  <2> QED
    BY <1>1, <1>2, <2>1, <2>2, <2>3, GovRequest
<1>4. CASE ballots[q.by] # q.vote
  <2> DEFINE p == [q EXCEPT !.step = "count"]
  <2>1. inFlight' = [inFlight EXCEPT ![r] = p]
    BY <1>4 DEF StoreVote
  <2>2. p \in InFlight /\ p.step = "count" /\ p.row = q.row
    BY <1>1 DEF InFlight
  <2> HIDE DEF p
  <2>3. /\ inFlight' \in [GovRequests -> InFlight] /\ inFlight'[r] = p
        /\ \A x \in GovRequests \ {r} : inFlight'[x] = inFlight[x]
    BY <2>1, <2>2 DEF GovInv, GovTypeOK, InFlight
  <2>4. Stored(r)'
    BY <2>2, <2>3 DEF Stored
  <2>5. ballots' \in [GovUsers -> Vote \cup {"none"}]
    BY <1>1 DEF InFlight
  <2>6. GovTypeOK'
    BY <1>1, <2>3, <2>5 DEF GovInv, GovTypeOK, InFlight, GovGrows
  <2>7. Opened /\ proposal.status # "none"
    BY <1>1 DEF InFlightOK, Opened
  <2>8. ASSUME NEW x \in GovRequests, x # r PROVE InFlightOK(x)'
    <3>1. inFlight'[x] = inFlight[x] /\ InFlightOK(x)
      BY <2>3, <2>8 DEF GovInv
    <3>2. inFlight[x].step = "decide" => Deciding(inFlight[x].row)'
      BY <1>1, <3>1 DEF InFlightOK, Deciding, GovGrows, WonBy, LostBy
    <3> QED
      BY <1>1, <2>4, <2>8, <3>1, <3>2 DEF InFlightOK, Opened, Rests, GovGrows
  <2>9. InFlightOK(r)'
    BY <1>1, <2>2, <2>3 DEF InFlightOK, Opened, Rests, GovGrows
  <2>10. Rests(proposal)'
    BY <1>1 DEF GovInv, Rests, GovGrows
  <2> QED
    BY <1>1, <2>4, <2>6, <2>7, <2>8, <2>9, <2>10 DEF GovInv, GovGrows
<1> QED
  BY <1>1, <1>3, <1>4

\* The votes are counted on the row that was read.
LEMMA GovTallies ==
    ASSUME GovInv, GovGrows, NEW r \in GovRequests, CountVotes(r)
    PROVE  GovInv' /\ UNCHANGED proposal
<1> DEFINE q == inFlight[r]
           row == Tallied(q.row)
           p == [q EXCEPT !.step = "decide", !.row = row]
<1>1. /\ q \in InFlight /\ q.row \in ProposalRow /\ q.step = "count" /\ InFlightOK(r) /\ Stored(r)
      /\ inFlight' = [inFlight EXCEPT ![r] = p]
      /\ UNCHANGED <<members, proposal, ballots, crossing, torn, shrunk, ballotCount, joins>>
  BY DEF CountVotes, GovInv, GovTypeOK, InFlight, Stored
<1>2. Count("approve") \in Nat /\ Count("reject") \in Nat
  BY GovCounts
<1>3. /\ row \in ProposalRow /\ row.status = q.row.status /\ row.required = q.row.required
      /\ row.votesFor = Count("approve") /\ row.votesAgainst = Count("reject")
  BY <1>1, <1>2 DEF Tallied, ProposalRow
<1>4. q.row.required = proposal.required /\ Opened /\ Rests(q.row) /\ q.row.status # "none"
  BY <1>1 DEF InFlightOK
<1> HIDE DEF row
<1>5. Rests(row) /\ Shown(row)
  BY <1>3, <1>4 DEF Rests, Shown
<1>6. Deciding(row)
  BY <1>3, <1>4 DEF GovInv, Backing, Deciding, WonBy, LostBy
<1>7. p \in InFlight /\ p.step = "decide" /\ p.row = row
  BY <1>1, <1>3 DEF InFlight
<1>8. ~crossing => proposal.status = "pending"
  BY <1>1 DEF InFlightOK
<1>9. ballotCount' \in 0..MaxBallots
  BY <1>1 DEF GovInv, GovTypeOK
<1> HIDE DEF p
<1> QED
  BY <1>1, <1>3, <1>4, <1>5, <1>6, <1>7, <1>8, <1>9, GovRequest

\* The participants are counted and the row that was counted is decided.
LEMMA GovDecides ==
    ASSUME GovInv, GovGrows, NEW r \in GovRequests, DecideVotes(r)
    PROVE  GovInv' /\ UNCHANGED proposal
<1> DEFINE q == inFlight[r]
           status == IF WonBy(q.row) THEN "approved"
                     ELSE IF LostBy(q.row, Cardinality(members)) THEN "rejected" ELSE q.row.status
           row == [q.row EXCEPT !.status = status]
           p == [q EXCEPT !.step = "save", !.row = row]
<1>1. /\ q \in InFlight /\ q.row \in ProposalRow /\ q.step = "decide" /\ InFlightOK(r) /\ Stored(r)
      /\ inFlight' = [inFlight EXCEPT ![r] = p]
      /\ UNCHANGED <<members, proposal, ballots, crossing, torn, shrunk, ballotCount, joins>>
  BY DEF DecideVotes, GovInv, GovTypeOK, InFlight, Stored
<1>2. /\ q.row.required = proposal.required /\ Opened /\ Rests(q.row) /\ q.row.status # "none"
      /\ Deciding(q.row)
  BY <1>1 DEF InFlightOK
<1>3. /\ status \in ProposalStatus /\ status # "none"
      /\ status = "approved" => WonBy(q.row) \/ q.row.status = "approved"
      /\ status = "rejected" => LostBy(q.row, Cardinality(members)) \/ q.row.status = "rejected"
      /\ status = "executed" => q.row.status = "executed"
      /\ status = "pending" => ~WonBy(q.row)
  BY <1>1, <1>2 DEF ProposalRow, ProposalStatus
<1> HIDE DEF status
<1>4. /\ row \in ProposalRow /\ row.status = status /\ row.required = q.row.required
      /\ row.votesFor = q.row.votesFor /\ row.votesAgainst = q.row.votesAgainst
  BY <1>1, <1>3 DEF ProposalRow
<1> HIDE DEF row
<1>5. Rests(row)
  BY <1>2, <1>3, <1>4 DEF Deciding, Rests
<1>6. p \in InFlight /\ p.step = "save" /\ p.row = row
  BY <1>1, <1>4 DEF InFlight
<1>7. ~crossing => proposal.status = "pending"
  BY <1>1 DEF InFlightOK
<1>8. ballotCount' \in 0..MaxBallots /\ row.votesFor \in Nat /\ row.required \in Nat
  BY <1>1, <1>4 DEF GovInv, GovTypeOK, ProposalRow
<1>9. ~crossing /\ ~torn /\ (\A s \in GovRequests \ {r} : ~Stored(s)) => Counted(row)
  <2>1. ~crossing /\ ~torn /\ (\A s \in GovRequests \ {r} : ~Stored(s)) => Shown(q.row)
    BY <1>1 DEF InFlightOK
  <2>2. row.status = "pending" => row.votesFor < row.required
    BY <1>3, <1>4, <1>8 DEF WonBy
  <2> QED
    BY <1>4, <2>1, <2>2 DEF Counted, Shown
<1>10. Stored(r) /\ (~crossing /\ ~torn /\ p.step = "save" /\ (\A s \in GovRequests \ {r} : ~Stored(s))
                       => Counted(p.row))
  BY <1>1, <1>6, <1>9
<1> HIDE DEF p
<1>11. Rests(p.row) /\ p.row.status # "none" /\ p.row.required = proposal.required /\ p.step = "save"
  BY <1>2, <1>3, <1>4, <1>5, <1>6
<1> QED
  BY <1>1, <1>2, <1>6, <1>7, <1>8, <1>10, <1>11, GovRequest

\* A request that dies after it stored its vote.
LEMMA GovDies ==
    ASSUME GovInv, GovGrows, NEW r \in GovRequests, RequestDies(r)
    PROVE  GovInv' /\ UNCHANGED proposal
<1>1. /\ Stored(r) /\ torn' = TRUE /\ inFlight' = [inFlight EXCEPT ![r] = Idle]
      /\ UNCHANGED <<members, proposal, ballots, crossing, shrunk, ballotCount, joins>>
  BY DEF RequestDies, Stored
<1>2. Idle \in InFlight /\ Idle.step = "idle" /\ Rests(Idle.row)
  BY DEF Idle, NoProposal, InFlight, GovUsers, Vote, ProposalRow, ProposalStatus, Rests
<1>3. ballotCount' \in 0..MaxBallots
  BY <1>1 DEF GovInv, GovTypeOK
<1> HIDE DEF Idle
<1> QED
  BY <1>1, <1>2, <1>3, GovRequest

\* The row that was read is saved, whatever the proposal has become.
LEMMA GovSaves ==
    ASSUME GovInv, GovGrows, NEW r \in GovRequests, SaveTally(r) \/ SaveExecuted(r)
    PROVE  /\ GovInv'
           /\ ~crossing' => \/ proposal.status = "pending"
                            \/ proposal.status = "approved" /\ proposal'.status = "executed"
<1> DEFINE q == inFlight[r]
           row == IF q.step = "save" THEN q.row ELSE [q.row EXCEPT !.status = "executed"]
<1>1. /\ q \in InFlight /\ q.step \in {"save", "execute"} /\ InFlightOK(r) /\ q.row \in ProposalRow
      /\ proposal' = row /\ inFlight' = [inFlight EXCEPT ![r] = Idle]
      /\ crossing' = (crossing \/ \E s \in GovRequests \ {r} : inFlight[s].step # "idle")
      /\ UNCHANGED <<members, ballots, torn, shrunk, ballotCount, joins>>
  BY DEF SaveTally, SaveExecuted, Done, GovInv, GovTypeOK, InFlight
<1>2. /\ row \in ProposalRow /\ row.required = q.row.required
      /\ row.votesFor = q.row.votesFor /\ row.votesAgainst = q.row.votesAgainst
      /\ row.status = (IF q.step = "save" THEN q.row.status ELSE "executed")
  BY <1>1 DEF ProposalRow, ProposalStatus
<1>3. crossing' \in BOOLEAN
      /\ (~crossing' => ~crossing /\ \A s \in GovRequests \ {r} : inFlight[s].step = "idle")
  BY <1>1, Zenon
<1>4. Opened /\ row.required = proposal.required /\ q.row.status # "none" /\ Rests(q.row)
      /\ (q.step = "execute" => q.row.status = "approved")
  BY <1>1, <1>2 DEF InFlightOK
<1> HIDE DEF row
<1>5. Idle \in InFlight /\ Idle.step = "idle" /\ Rests(Idle.row)'
  BY DEF Idle, NoProposal, InFlight, GovUsers, Vote, ProposalRow, ProposalStatus, Rests
<1> HIDE DEF Idle
<1>6. /\ inFlight' \in [GovRequests -> InFlight] /\ inFlight'[r] = Idle
      /\ \A x \in GovRequests \ {r} : inFlight'[x] = inFlight[x]
  BY <1>1, <1>5 DEF GovInv, GovTypeOK, InFlight
<1>7. \A v : Count(v)' = Count(v)
  BY <1>1 DEF Count
<1>8. GovTypeOK'
  <2>1. proposal.required \in 1..Cardinality(GovUsers)
    BY <1>4 DEF GovInv, GovTypeOK, Opened
  <2> QED
    BY <1>1, <1>2, <1>3, <1>4, <1>6, <2>1 DEF GovInv, GovTypeOK, GovGrows, InFlight
<1>9. Rests(proposal)' /\ proposal'.status # "none"
  BY <1>1, <1>2, <1>4 DEF Rests, GovGrows
<1>10. ~crossing' /\ ~torn' => Counted(proposal)'
  <2> SUFFICES ASSUME ~crossing', ~torn' PROVE Counted(proposal)'
    OBVIOUS
  <2>1. Counted(q.row)
    BY <1>1, <1>3 DEF InFlightOK, Stored
  <2> QED
    BY <1>1, <1>2, <1>4, <1>7, <2>1 DEF Counted, Shown
<1>11. ASSUME NEW x \in GovRequests PROVE InFlightOK(x)'
  <2>1. CASE x = r
    BY <1>5, <1>6, <2>1 DEF InFlightOK
  <2>2. CASE x # r
    <3>1. inFlight'[x] = inFlight[x] /\ InFlightOK(x) /\ (~crossing' => inFlight[x].step = "idle")
      BY <1>3, <1>6, <2>2 DEF GovInv
    <3>2. inFlight[x].step = "decide" => Deciding(inFlight[x].row)'
      BY <1>1, <3>1 DEF InFlightOK, Deciding, GovGrows, WonBy, LostBy
    <3> QED
      BY <1>1, <1>4, <1>9, <3>1, <3>2 DEF InFlightOK, Opened, Rests, GovGrows
  <2> QED
    BY <2>1, <2>2
<1>12. ~crossing' => \/ proposal.status = "pending"
                     \/ proposal.status = "approved" /\ proposal'.status = "executed"
  BY <1>1, <1>2, <1>3 DEF InFlightOK
<1> QED
  BY <1>1, <1>8, <1>9, <1>10, <1>11, <1>12 DEF GovInv, GovGrows

\* Every step of a proposal.
LEMMA StepGov ==
    GovInv /\ [GovNext]_govVars =>
        /\ GovInv'
        /\ proposal.status = "rejected" => proposal'.status = "rejected" \/ crossing'
        /\ proposal.status = "approved" => proposal'.status \in {"approved", "executed"} \/ crossing'
        /\ proposal.status = "executed" => proposal'.status = "executed" \/ crossing'
<1> SUFFICES ASSUME GovInv, [GovNext]_govVars
             PROVE  /\ GovInv'
                    /\ proposal.status = "rejected" => proposal'.status = "rejected" \/ crossing'
                    /\ proposal.status = "approved" => proposal'.status \in {"approved", "executed"} \/ crossing'
                    /\ proposal.status = "executed" => proposal'.status = "executed" \/ crossing'
  OBVIOUS
<1>1. CASE GovNext
  <2>1. GovGrows
    <3>1. shrunk \in BOOLEAN
      BY DEF GovInv, GovTypeOK
    <3>2. shrunk' \in BOOLEAN /\ (shrunk => shrunk')
      <4>1. CASE JoinOrLeave
        <5>1. \/ UNCHANGED shrunk
              \/ shrunk' = (shrunk \/ \E r \in GovRequests : inFlight[r].step = "decide")
          BY <4>1 DEF JoinOrLeave
        <5>2. CASE UNCHANGED shrunk
          BY <3>1, <5>2
        <5>3. CASE shrunk' = (shrunk \/ \E r \in GovRequests : inFlight[r].step = "decide")
          BY <5>3, Zenon
        <5> QED
          BY <5>1, <5>2, <5>3
      <4>2. CASE UNCHANGED shrunk
        BY <3>1, <4>2
      <4> QED
        BY <1>1, <4>1, <4>2 DEF GovNext, GovStep, createProposal, castVote, StoreVote, CountVotes,
               DecideVotes, SaveTally, RequestDies, executeProposal, SaveExecuted
    <3> QED
      BY <1>1, <3>2, Grown DEF GovNext
  <2>2. CASE JoinOrLeave
    <3>1. /\ joins' \in 0..MaxJoins /\ members' \in (SUBSET GovUsers) \ {{}}
          /\ UNCHANGED <<proposal, ballots, inFlight, crossing, torn, ballotCount>>
      BY <2>2, VotersAssumption DEF JoinOrLeave, GovInv, GovTypeOK
    <3>2. ballotCount' \in 0..MaxBallots
      BY <3>1 DEF GovInv, GovTypeOK
    <3>3. \/ shrunk' \/ Cardinality(members) <= Cardinality(members')
          \/ \A r \in GovRequests : inFlight[r].step # "decide"
      <4>1. CASE \E u \in GovUsers \ members : members' = members \cup {u}
        <5>1. PICK u \in GovUsers \ members : members' = members \cup {u}
          BY <4>1
        <5>2. IsFiniteSet(GovUsers) /\ members \in SUBSET GovUsers
          BY VotersAssumption, FS_AddElement DEF GovUsers, GovInv, GovTypeOK
        <5>3. IsFiniteSet(members')
          BY <3>1, <5>2, FS_Subset
        <5> QED
          BY <5>1, <5>3, FS_Subset
      <4>2. CASE shrunk' = (shrunk \/ \E r \in GovRequests : inFlight[r].step = "decide")
        BY <4>2, Zenon
      <4> QED
        BY <2>2, <4>1, <4>2 DEF JoinOrLeave
    <3> QED
      BY <2>1, <3>1, <3>2, <3>3, GovSame
  <2>3. CASE createProposal
    BY <2>1, <2>3, GovCreates DEF createProposal
  <2>4. ASSUME NEW r \in GovRequests, castVote(r) \/ executeProposal(r) \/ StoreVote(r)
                                       \/ CountVotes(r) \/ DecideVotes(r) \/ RequestDies(r)
        PROVE  GovInv' /\ UNCHANGED proposal
    BY <2>1, <2>4, GovReads, GovStores, GovTallies, GovDecides, GovDies
  <2>5. ASSUME NEW r \in GovRequests, SaveTally(r) \/ SaveExecuted(r)
        PROVE  /\ GovInv'
               /\ ~crossing' => \/ proposal.status = "pending"
                                \/ proposal.status = "approved" /\ proposal'.status = "executed"
    BY <2>1, <2>5, GovSaves
  <2> QED
    BY <1>1, <2>2, <2>3, <2>4, <2>5 DEF GovNext, GovStep
<1>2. CASE UNCHANGED govVars
  <2>1. GovGrows
    BY <1>2 DEF govVars, GovGrows, GovInv, GovTypeOK, Backing, Opened, Count
  <2>2. /\ members' \in (SUBSET GovUsers) \ {{}} /\ ballotCount' \in 0..MaxBallots /\ joins' \in 0..MaxJoins
        /\ UNCHANGED <<proposal, ballots, inFlight, crossing, torn>> /\ members' = members
    BY <1>2 DEF govVars, GovInv, GovTypeOK
  <2>3. Cardinality(members) <= Cardinality(members')
    BY <2>2, GovCounts DEF GovInv, GovTypeOK
  <2> QED
    BY <2>1, <2>2, <2>3, GovSame
<1> QED
  BY <1>1, <1>2

\* What the invariant says of the decisions.
LEMMA GovMeans == GovInv => GovTypeOK /\ DecisionIsBacked /\ TallyIsTrue
BY DEF GovInv, Rests, DecisionIsBacked, TallyIsTrue, Stored, Counted, Shown

-----------------------------------------------------------------------------
(* The comments *)

\* A comment that is checked or in the list cs, whoever has left since; pairs have
\* once followed each other.
CommentOK(c, cs, pairs) ==
    /\ c.private <=> c.to # {}
    /\ c.by \notin c.to
    /\ c.private => c.by \in Talkers /\ c.to \subseteq Talkers /\ c.told \subseteq c.to
    /\ c.parent # NoParent =>
          /\ c.parent \in DOMAIN cs
          /\ cs[c.parent].private => c.private /\ Audience(c) = Audience(cs[c.parent])
    /\ c.private /\ (c.parent = NoParent \/ ~cs[c.parent].private) =>
          \A q \in c.to : {c.by, q} \in pairs

BusyPosts == {r \in Posts : Busy(r)}

TalkInv ==
    /\ TalkTypeOK /\ NowMutual \subseteq mutuals
    /\ \A i \in DOMAIN comments : CommentOK(comments[i], comments, mutuals)
    /\ \A r \in Posts : Busy(r) => CommentOK(posting[r], comments, mutuals)
    /\ Len(comments) + Cardinality(BusyPosts) <= MaxComments
    /\ \A l \in likes \cup liking :
          comments[l[1]].private => l[2] \in Audience(comments[l[1]])

\* It stays so when comments are added or deleted and pairs join.
LEMMA CommentStays ==
    ASSUME NEW c, NEW cs, NEW pairs, CommentOK(c, cs, pairs), NEW ds, NEW more, pairs \subseteq more,
           DOMAIN cs \subseteq DOMAIN ds,
           \A i \in DOMAIN cs : ds[i].private = cs[i].private /\ Audience(ds[i]) = Audience(cs[i])
    PROVE  CommentOK(c, ds, more)
BY Zenon DEF CommentOK

\* The row nobody has written counts as deleted.
LEMMA NoCommentIs == NoComment \in CommentRow /\ NoComment.deleted
BY ModeratorAssumption, PostsAssumption DEF NoComment, CommentRow, Parties, NoParent

\* Whom a comment is meant for, and whom it is told.
LEMMA ThreadIs ==
    ASSUME TalkInv, NEW p \in Parties, NEW asked1 \in SUBSET Parties,
           NEW parent \in {NoParent} \cup DOMAIN comments,
           MayReply(p, parent), asked1 # {} => RecipientsAllowed(p, asked1)
    PROVE  LET to == Thread(p, asked1, parent).to
               told == Thread(p, asked1, parent).told
           IN  /\ to \subseteq Parties /\ p \notin to /\ told \subseteq to
               /\ to # {} => p \in Talkers /\ to \subseteq Talkers
               /\ parent # NoParent /\ comments[parent].private =>
                     to # {} /\ {p} \cup to = Audience(comments[parent])
               /\ parent = NoParent \/ ~comments[parent].private =>
                     \A q \in to : {p, q} \in mutuals
<1> DEFINE c == comments[parent]
<1>1. CASE parent = NoParent \/ ~c.private
  <2>1. Thread(p, asked1, parent).to = asked1 /\ Thread(p, asked1, parent).told = asked1 \cap present
    BY <1>1 DEF Thread
  <2>2. ASSUME NEW q \in asked1 PROVE {p, q} \in mutuals
    <3>1. Mutual(p, q) /\ p \in Talkers /\ q \in Talkers
      BY <2>2 DEF RecipientsAllowed
    <3>2. <<p, q>> \in {f \in follows : Mutual(f[1], f[2])}
      BY <3>1 DEF Mutual
    <3>3. {p, q} \in NowMutual
      BY <3>2 DEF NowMutual
    <3> QED
      BY <3>3 DEF TalkInv
  <2>3. asked1 # {} => p \in Talkers /\ asked1 \subseteq Talkers /\ p \notin asked1
    BY DEF RecipientsAllowed
  <2> QED
    BY <1>1, <2>1, <2>2, <2>3
<1>2. CASE parent # NoParent /\ c.private
  <2>1. /\ Thread(p, asked1, parent).to = Audience(c) \ {p}
        /\ Thread(p, asked1, parent).told = (Audience(c) \ {p}) \cap present
    BY <1>2 DEF Thread
  <2>2. CommentOK(c, comments, mutuals) /\ c \in CommentRow
    BY <1>2 DEF TalkInv, TalkTypeOK
  <2>3. /\ Audience(c) = {c.by} \cup c.to /\ p \in Audience(c)
        /\ c.to # {} /\ c.by \notin c.to /\ c.by \in Talkers /\ c.to \subseteq Talkers
    BY <1>2, <2>2 DEF Audience, MayReply, CommentOK
  <2>4. Audience(c) \ {p} # {} /\ {p} \cup (Audience(c) \ {p}) = Audience(c) /\ Audience(c) \subseteq Talkers
    BY <2>3
  <2> HIDE DEF c
  <2>5. Audience(c) \ {p} \subseteq Talkers /\ p \in Talkers
    BY <2>3, <2>4
  <2> QED
    BY <1>2, <2>1, <2>4, <2>5 DEF Parties, c
<1> QED
  BY <1>1, <1>2

\* How many requests are under way when one starts or ends.
LEMMA BusyCount ==
    /\ \A S \in SUBSET Posts : IsFiniteSet(S) /\ Cardinality(S) \in Nat
    /\ \A S \in SUBSET Posts : \A r \in Posts \ S : Cardinality(S \cup {r}) = Cardinality(S) + 1
    /\ \A S \in SUBSET Posts : \A r \in S : Cardinality(S \ {r}) = Cardinality(S) - 1
BY PostsAssumption, FS_Subset, FS_CardinalityType, FS_AddElement, FS_RemoveElement

\* The steps that leave the comments and the requests as they are.
LEMMA TalkSame ==
    ASSUME TalkInv, UNCHANGED <<comments, posting>>,
           mutuals \subseteq mutuals', NowMutual' \subseteq mutuals',
           TalkTypeOK',
           \A l \in likes' \cup liking' :
              l \in likes \cup liking \/ (comments[l[1]].private => l[2] \in Audience(comments[l[1]]))
    PROVE  TalkInv'
<1>1. \A i \in DOMAIN comments : CommentOK(comments[i], comments, mutuals')
  BY CommentStays DEF TalkInv
<1>2. \A r \in Posts : Busy(r) => CommentOK(posting[r], comments, mutuals')
  BY CommentStays DEF TalkInv
<1>3. BusyPosts' = BusyPosts
  BY DEF BusyPosts, Busy
<1>4. \A l \in likes' \cup liking' : comments'[l[1]].private => l[2] \in Audience(comments'[l[1]])
  BY DEF TalkInv
<1> QED
  BY <1>1, <1>2, <1>3, <1>4 DEF TalkInv, Busy

\* A post is checked, and waits to be saved.
LEMMA TalkChecks ==
    ASSUME TalkInv, NEW r \in Posts, checkComment(r)
    PROVE  TalkInv'
<1>1. PICK p \in Parties, asked1 \in SUBSET Parties, parent \in {NoParent} \cup DOMAIN comments :
         /\ MayReply(p, parent) /\ (asked1 # {} => RecipientsAllowed(p, asked1))
         /\ LET thread == Thread(p, asked1, parent)
                private == FinalVisibility(asked1, thread.to)
            IN posting' = [posting EXCEPT ![r] =
                 [by |-> p, private |-> private, to |-> IF private THEN thread.to ELSE {},
                  parent |-> parent, deleted |-> FALSE,
                  told |-> IF private THEN thread.told \ {p} ELSE {Moderator} \ {p}]]
  BY DEF checkComment
<1>2. /\ ~Busy(r) /\ Len(comments) + Cardinality(BusyPosts) < MaxComments
      /\ UNCHANGED <<comments, present, declined, follows, likes, liking, cancelled, mutuals, talk>>
  BY DEF checkComment, BusyPosts
<1> DEFINE to == Thread(p, asked1, parent).to
           told == Thread(p, asked1, parent).told
           private == (to # {})
           heard == IF private THEN told \ {p} ELSE {Moderator} \ {p}
           c == [by |-> p, private |-> private, to |-> to, parent |-> parent, deleted |-> FALSE,
                 told |-> heard]
<1>3. /\ to \subseteq Parties /\ p \notin to /\ told \subseteq to
      /\ to # {} => p \in Talkers /\ to \subseteq Talkers
      /\ parent # NoParent /\ comments[parent].private =>
            to # {} /\ {p} \cup to = Audience(comments[parent])
      /\ parent = NoParent \/ ~comments[parent].private => \A q \in to : {p, q} \in mutuals
  BY <1>1, ThreadIs
<1>4. posting' = [posting EXCEPT ![r] = c]
  BY <1>1 DEF FinalVisibility
<1> HIDE DEF to, told
<1>5. heard \subseteq Talkers /\ (private => heard \subseteq to) /\ private \in BOOLEAN
  BY <1>3, ModeratorAssumption
<1>6. parent \in 0..MaxComments
  BY PostsAssumption DEF NoParent, TalkInv, TalkTypeOK
<1>7. c \in CommentRow /\ ~c.deleted
  <2> HIDE DEF heard, private
  <2> QED
    BY <1>3, <1>5, <1>6 DEF CommentRow
<1>8. /\ c.by = p /\ (c.private <=> to # {}) /\ c.to = to /\ c.parent = parent /\ c.told = heard
      /\ Audience(c) = IF to # {} THEN {p} \cup to ELSE Parties
  BY DEF Audience
<1> HIDE DEF c, heard, private
<1>9. CommentOK(c, comments, mutuals)
  BY <1>3, <1>5, <1>8 DEF CommentOK, private
<1>10. /\ posting' \in [Posts -> CommentRow] /\ posting'[r] = c
       /\ \A x \in Posts \ {r} : posting'[x] = posting[x]
  BY <1>4, <1>7 DEF TalkInv, TalkTypeOK
<1>11. BusyPosts' = BusyPosts \cup {r} /\ r \in Posts \ BusyPosts /\ BusyPosts \in SUBSET Posts
  BY <1>2, <1>7, <1>10 DEF BusyPosts, Busy
<1>12. Cardinality(BusyPosts') = Cardinality(BusyPosts) + 1 /\ Cardinality(BusyPosts) \in Nat
  BY <1>11, BusyCount
<1>13. Len(comments') + Cardinality(BusyPosts') <= MaxComments
  BY <1>2, <1>12, PostsAssumption DEF TalkInv, TalkTypeOK
<1>14. TalkTypeOK'
  BY <1>2, <1>10 DEF TalkInv, TalkTypeOK
<1>15. \A x \in Posts : Busy(x)' => CommentOK(posting'[x], comments, mutuals)
  BY <1>9, <1>10 DEF TalkInv, Busy
<1> QED
  BY <1>2, <1>13, <1>14, <1>15 DEF TalkInv, NowMutual, Mutual, Busy

\* A checked post is saved.
LEMMA TalkSaves ==
    ASSUME TalkInv, NEW r \in Posts, saveComment(r)
    PROVE  TalkInv'
<1> DEFINE c == posting[r]
<1>1. /\ Busy(r) /\ comments' = Append(comments, c)
      /\ posting' = [posting EXCEPT ![r] = NoComment]
      /\ UNCHANGED <<present, declined, follows, likes, liking, cancelled, mutuals, talk>>
  BY DEF saveComment
<1>2. /\ c \in CommentRow /\ comments \in Seq(CommentRow) /\ CommentOK(c, comments, mutuals)
      /\ posting \in [Posts -> CommentRow]
  BY <1>1 DEF TalkInv, TalkTypeOK
<1>3. NoComment \in CommentRow /\ NoComment.deleted
  BY NoCommentIs
<1> HIDE DEF c, NoComment
<1>4. /\ comments' \in Seq(CommentRow) /\ Len(comments') = Len(comments) + 1
      /\ DOMAIN comments \subseteq DOMAIN comments' /\ DOMAIN comments' = 1..(Len(comments) + 1)
      /\ DOMAIN comments = 1..Len(comments)
      /\ \A i \in DOMAIN comments : comments'[i] = comments[i]
      /\ comments'[Len(comments) + 1] = c
  BY <1>1, <1>2
<1>5. /\ posting' \in [Posts -> CommentRow] /\ posting'[r] = NoComment
      /\ \A x \in Posts \ {r} : posting'[x] = posting[x]
  BY <1>1, <1>2, <1>3
<1>6. BusyPosts' = BusyPosts \ {r} /\ r \in BusyPosts /\ BusyPosts \in SUBSET Posts
  BY <1>1, <1>3, <1>5 DEF BusyPosts, Busy
<1>7. Cardinality(BusyPosts') = Cardinality(BusyPosts) - 1 /\ Cardinality(BusyPosts') \in Nat
      /\ Cardinality(BusyPosts) \in Nat
  <2>1. BusyPosts' \in SUBSET Posts
    BY <1>6
  <2> QED
    BY <1>6, <2>1, BusyCount
<1>8. Len(comments') + Cardinality(BusyPosts') <= MaxComments /\ Len(comments) \in Nat
  BY <1>2, <1>4, <1>7, PostsAssumption DEF TalkInv
<1>9. \A x, pairs : CommentOK(x, comments, pairs) => CommentOK(x, comments', pairs)
  BY <1>4, CommentStays
<1>10. ASSUME NEW i \in DOMAIN comments' PROVE CommentOK(comments'[i], comments', mutuals)
  <2>1. CASE i \in DOMAIN comments
    BY <1>4, <1>9, <2>1 DEF TalkInv
  <2>2. CASE i \notin DOMAIN comments
    <3>1. i = Len(comments) + 1
      BY <1>4, <1>8, <2>2
    <3> QED
      BY <1>2, <1>4, <1>9, <3>1
  <2> QED
    BY <2>1, <2>2
<1>11. \A x \in Posts : Busy(x)' => CommentOK(posting'[x], comments', mutuals)
  <2>1. ASSUME NEW x \in Posts, ~posting'[x].deleted PROVE x # r /\ Busy(x) /\ posting'[x] = posting[x]
    BY <1>3, <1>5, <2>1 DEF Busy
  <2> QED
    BY <1>9, <2>1 DEF TalkInv, Busy
<1>12. ASSUME NEW i \in DOMAIN comments'
       PROVE  /\ comments'[i].parent < i
              /\ comments'[i].private <=> comments'[i].to # {}
  <2>1. CASE i \in DOMAIN comments
    BY <1>4, <2>1 DEF TalkInv, TalkTypeOK
  <2>2. CASE i \notin DOMAIN comments
    <3>1. i = Len(comments) + 1 /\ comments'[i] = c
      BY <1>4, <1>8, <2>2
    <3>2. c.parent \in 0..Len(comments)
      BY <1>2, <1>4, <1>8 DEF CommentOK, NoParent
    <3> QED
      BY <1>2, <1>8, <3>1, <3>2 DEF CommentOK
  <2> QED
    BY <2>1, <2>2
<1>13. likes \in SUBSET ((DOMAIN comments') \X Talkers) /\ liking \in SUBSET ((DOMAIN comments') \X Talkers)
  BY <1>4 DEF TalkInv, TalkTypeOK
<1>14. TalkTypeOK'
  <2>1. Len(comments') <= MaxComments
    BY <1>4, <1>7, <1>8, PostsAssumption
  <2> QED
    BY <1>1, <1>4, <1>5, <1>12, <1>13, <2>1 DEF TalkInv, TalkTypeOK
<1>15. \A l \in likes \cup liking : comments'[l[1]].private => l[2] \in Audience(comments'[l[1]])
  <2>1. \A l \in likes \cup liking : l[1] \in DOMAIN comments
    BY DEF TalkInv, TalkTypeOK
  <2> QED
    BY <1>4, <2>1 DEF TalkInv
<1>16. NowMutual' = NowMutual
  BY <1>1 DEF NowMutual, Mutual
<1> QED
  BY <1>1, <1>8, <1>10, <1>11, <1>14, <1>15, <1>16 DEF TalkInv

\* Likes, deletions, and what people do meanwhile.
LEMMA TalkLikes ==
    ASSUME TalkInv, toggleCommentLike \/ saveCommentLike
    PROVE  TalkInv'
<1>1. CASE toggleCommentLike
  <2>1. PICK u \in Talkers, i \in DOMAIN comments :
          /\ Talk /\ MayLike(u, i)
          /\ likes' \cup liking' \subseteq likes \cup liking \cup {<<i, u>>}
          /\ UNCHANGED <<comments, present, declined, follows, posting, cancelled, mutuals>>
    BY <1>1 DEF toggleCommentLike
  <2>2. comments[i].private => u \in Audience(comments[i])
    BY <2>1 DEF MayLike
  <2>3. talk' \in 0..MaxTalk
    BY <2>1, PostsAssumption DEF Talk, TalkInv, TalkTypeOK
  <2>4. likes' \cup liking' \subseteq (DOMAIN comments) \X Talkers
    BY <2>1 DEF TalkInv, TalkTypeOK
  <2>5. TalkTypeOK'
    BY <2>1, <2>3, <2>4 DEF TalkInv, TalkTypeOK
  <2>6. NowMutual' = NowMutual
    BY <2>1 DEF NowMutual, Mutual
  <2>7. ASSUME NEW l \in likes' \cup liking'
        PROVE  l \in likes \cup liking \/ (comments[l[1]].private => l[2] \in Audience(comments[l[1]]))
    BY <2>1, <2>2
  <2> QED
    BY <2>1, <2>5, <2>6, <2>7, TalkSame DEF TalkInv
<1>2. CASE saveCommentLike
  <2>1. /\ likes' \cup liking' \subseteq likes \cup liking
        /\ UNCHANGED <<comments, present, declined, follows, posting, cancelled, mutuals, talk>>
    BY <1>2 DEF saveCommentLike
  <2>2. likes' \cup liking' \subseteq (DOMAIN comments) \X Talkers
    BY <2>1 DEF TalkInv, TalkTypeOK
  <2>3. TalkTypeOK'
    BY <2>1, <2>2 DEF TalkInv, TalkTypeOK
  <2>4. NowMutual' = NowMutual
    BY <2>1 DEF NowMutual, Mutual
  <2> QED
    BY <2>1, <2>3, <2>4, TalkSame DEF TalkInv
<1> QED
  BY <1>1, <1>2

\* A comment is marked as deleted.
LEMMA TalkDeletes ==
    ASSUME TalkInv, deleteComment
    PROVE  TalkInv'
<1>1. PICK i \in DOMAIN comments :
        /\ Talk /\ comments' = [comments EXCEPT ![i].deleted = TRUE]
        /\ UNCHANGED <<present, declined, follows, posting, likes, liking, cancelled, mutuals>>
  BY DEF deleteComment
<1> DEFINE gone == [comments[i] EXCEPT !.deleted = TRUE]
<1>2. comments \in Seq(CommentRow) /\ comments[i] \in CommentRow
  BY DEF TalkInv, TalkTypeOK
<1>3. /\ gone \in CommentRow /\ gone.by = comments[i].by /\ gone.private = comments[i].private
      /\ gone.to = comments[i].to /\ gone.parent = comments[i].parent /\ gone.told = comments[i].told
  BY <1>2 DEF CommentRow
<1>4. comments' = [comments EXCEPT ![i] = gone]
  BY <1>1
<1> HIDE DEF gone
<1>5. /\ comments' \in Seq(CommentRow) /\ Len(comments') = Len(comments)
      /\ DOMAIN comments' = DOMAIN comments /\ comments'[i] = gone
      /\ \A j \in (DOMAIN comments) \ {i} : comments'[j] = comments[j]
  BY <1>2, <1>3, <1>4
<1>6. ASSUME NEW j \in DOMAIN comments
      PROVE  /\ comments'[j].by = comments[j].by /\ comments'[j].private = comments[j].private
             /\ comments'[j].to = comments[j].to /\ comments'[j].parent = comments[j].parent
             /\ comments'[j].told = comments[j].told
             /\ Audience(comments'[j]) = Audience(comments[j])
  <2>1. CASE j = i
    BY <1>3, <1>5, <2>1 DEF Audience
  <2>2. CASE j # i
    BY <1>5, <2>2
  <2> QED
    BY <2>1, <2>2
<1>7. \A x, pairs : CommentOK(x, comments, pairs) => CommentOK(x, comments', pairs)
  BY <1>5, <1>6, CommentStays
<1>8. ASSUME NEW j \in DOMAIN comments PROVE CommentOK(comments'[j], comments', mutuals)
  <2>1. CommentOK(comments[j], comments', mutuals)
    BY <1>7 DEF TalkInv
  <2> QED
    BY <1>6, <2>1 DEF CommentOK
<1>9. BusyPosts' = BusyPosts
  BY <1>1 DEF BusyPosts, Busy
<1>10. talk' \in 0..MaxTalk
  BY <1>1, PostsAssumption DEF Talk, TalkInv, TalkTypeOK
<1>11. TalkTypeOK'
  <2>1. \A j \in DOMAIN comments' : /\ comments'[j].parent < j
                                    /\ comments'[j].private <=> comments'[j].to # {}
    BY <1>5, <1>6 DEF TalkInv, TalkTypeOK
  <2> QED
    BY <1>1, <1>5, <1>10, <2>1 DEF TalkInv, TalkTypeOK
<1>12. NowMutual' = NowMutual
  BY <1>1 DEF NowMutual, Mutual
<1>13. \A l \in likes \cup liking : comments'[l[1]].private => l[2] \in Audience(comments'[l[1]])
  <2>1. \A l \in likes \cup liking : l[1] \in DOMAIN comments
    BY DEF TalkInv, TalkTypeOK
  <2> QED
    BY <1>6, <2>1 DEF TalkInv
<1>14. \A r \in Posts : Busy(r)' => CommentOK(posting'[r], comments', mutuals)
  BY <1>1, <1>7 DEF TalkInv, Busy
<1> QED
  BY <1>1, <1>5, <1>8, <1>9, <1>11, <1>12, <1>13, <1>14 DEF TalkInv

\* The author leaves the bill, or follows it or no longer.
LEMMA TalkMeanwhile ==
    ASSUME TalkInv, LeaveBill \/ FollowOrUnfollow
    PROVE  TalkInv'
<1>1. talk' \in 0..MaxTalk
  BY PostsAssumption DEF LeaveBill, FollowOrUnfollow, Talk, TalkInv, TalkTypeOK
<1>2. CASE LeaveBill
  <2>1. /\ UNCHANGED <<comments, follows, posting, likes, liking, mutuals>>
        /\ present' \subseteq Parties /\ declined' \subseteq Parties
    BY <1>2 DEF LeaveBill, TalkInv, TalkTypeOK
  <2>2. cancelled' \in BOOLEAN
    BY <1>2 DEF LeaveBill, TalkInv, TalkTypeOK
  <2>3. TalkTypeOK'
    BY <1>1, <2>1, <2>2 DEF TalkInv, TalkTypeOK
  <2>4. NowMutual' = NowMutual
    BY <2>1 DEF NowMutual, Mutual
  <2> QED
    BY <2>1, <2>3, <2>4, TalkSame DEF TalkInv
<1>3. CASE FollowOrUnfollow
  <2>1. /\ UNCHANGED <<comments, present, declined, posting, likes, liking, cancelled>>
        /\ follows' \subseteq Talkers \X Talkers /\ mutuals' = mutuals \cup NowMutual'
    BY <1>3 DEF FollowOrUnfollow, TalkInv, TalkTypeOK
  <2>2. NowMutual' \subseteq SUBSET Talkers
    BY <2>1 DEF NowMutual
  <2>3. TalkTypeOK'
    BY <1>1, <2>1, <2>2 DEF TalkInv, TalkTypeOK
  <2> QED
    BY <2>1, <2>3, TalkSame DEF TalkInv
<1> QED
  BY <1>2, <1>3

\* Nobody has commented in the beginning.
LEMMA TalkInits == TalkInit => TalkInv
<1> SUFFICES ASSUME TalkInit PROVE TalkInv
  OBVIOUS
<1>1. comments = << >> /\ likes = {} /\ liking = {} /\ talk = 0 /\ declined = {} /\ present = Parties
      /\ cancelled = FALSE
  BY DEF TalkInit
<1>2. posting = [r \in Posts |-> NoComment]
  BY DEF TalkInit
<1>3. follows \subseteq Talkers \X Talkers /\ mutuals = NowMutual
  BY DEF TalkInit
<1>4. NowMutual \subseteq SUBSET Talkers
  BY <1>3 DEF NowMutual
<1>5. posting \in [Posts -> CommentRow] /\ \A r \in Posts : ~Busy(r)
  BY <1>2, NoCommentIs DEF Busy
<1>6. BusyPosts = {}
  BY <1>5 DEF BusyPosts
<1>7. TalkTypeOK
  <2>1. comments \in Seq(CommentRow) /\ Len(comments) = 0 /\ DOMAIN comments = {}
    BY <1>1
  <2>2. {likes, liking} \subseteq SUBSET ((DOMAIN comments) \X Talkers)
    BY <1>1
  <2>3. talk \in 0..MaxTalk /\ 0 <= MaxComments
    BY <1>1, PostsAssumption
  <2>4. cancelled \in BOOLEAN
    BY <1>1, Zenon
  <2> QED
    BY <1>1, <1>3, <1>4, <1>5, <2>1, <2>2, <2>3, <2>4 DEF TalkTypeOK
<1>8. Cardinality(BusyPosts) = 0
  BY <1>6, FS_EmptySet
<1> QED
  BY <1>1, <1>3, <1>5, <1>7, <1>8, PostsAssumption DEF TalkInv

\* Every step of the comments.
LEMMA StepTalk == TalkInv /\ [TalkNext]_talkVars => TalkInv'
<1> SUFFICES ASSUME TalkInv, [TalkNext]_talkVars PROVE TalkInv'
  OBVIOUS
<1>1. ASSUME NEW r \in Posts, checkComment(r) PROVE TalkInv'
  BY <1>1, TalkChecks
<1>2. ASSUME NEW r \in Posts, saveComment(r) PROVE TalkInv'
  BY <1>2, TalkSaves
<1>3. CASE UNCHANGED talkVars
  <2>1. TalkTypeOK'
    BY <1>3 DEF talkVars, TalkInv, TalkTypeOK
  <2>2. NowMutual' = NowMutual
    BY <1>3 DEF talkVars, NowMutual, Mutual
  <2> QED
    BY <1>3, <2>1, <2>2, TalkSame DEF talkVars, TalkInv
<1> QED
  BY <1>1, <1>2, <1>3, TalkLikes, TalkDeletes, TalkMeanwhile DEF TalkNext

\* What the run checks of the comments.
LEMMA TalkMeans ==
    TalkInv => ThreadKeepsAudience /\ ToldCanRead /\ PrivateAmongMutuals /\ LikedIsListed
<1> SUFFICES ASSUME TalkInv
             PROVE  ThreadKeepsAudience /\ ToldCanRead /\ PrivateAmongMutuals /\ LikedIsListed
  OBVIOUS
<1>1. \A i \in DOMAIN comments : CommentOK(comments[i], comments, mutuals)
  BY DEF TalkInv
<1>2. ThreadKeepsAudience /\ PrivateAmongMutuals
  BY <1>1 DEF ThreadKeepsAudience, PrivateAmongMutuals, CommentOK
<1>3. ToldCanRead
  BY <1>1 DEF ToldCanRead, getBillComments, CommentOK
<1>4. \A l \in likes \cup liking : l[1] \in DOMAIN comments
  BY DEF TalkInv, TalkTypeOK
<1>5. LikedIsListed
  BY <1>4 DEF LikedIsListed, TalkInv, getBillComments, Audience
<1> QED
  BY <1>2, <1>3, <1>5

-----------------------------------------------------------------------------
(* The clock *)

\* A bill that was never paid off, cancelled or hidden is still watched.
StillOpen == state \in Open /\ cancelledAt = Never /\ ~hidden

\* The sweep that runs has sent its reminder, or is about to.
SweepOK ==
    /\ sweep.step # "idle" => sweep.at = now /\ due \in (now - 72)..(now + 24)
    /\ sweep.step = "write" => sweep.count + 1 <= sent
    /\ ~lapsed =>
         /\ sweep.step \in {"idle", "notify"} =>
               /\ reminderSentCount = sent
               /\ \A n \in nudges : n <= lastReminderAt
         /\ sweep.step = "notify" => sweep.count = sent /\ lastReminderAt <= now - 20
         /\ sweep.step = "write" =>
               /\ sweep.count + 1 = sent
               /\ \A n \in nudges : n = now \/ n <= now - 20

\* A sweep that has run near the due date has reminded, or found a reminder.
Swept(t) ==
    /\ t % 24 \in SweepHours /\ t % Hour = 0 /\ due \in t..(t + 24)
    /\ t = now => sweep.at = now /\ sweep.step = "idle"

SweptOK == ~lapsed /\ StillOpen => \A t \in 0..now : Swept(t) => lastReminderAt >= t - 19

\* Only a bill past its grace is found by the removal, and none that was paid.
PruningOK == pruning => PastGrace \/ reopened

ClockInv ==
    /\ ClockTypeOK /\ NudgesAreSpaced /\ SweepOK /\ SweptOK /\ PruningOK
    /\ now % Hour = 0
    /\ \A n \in nudges : due \in (n - 72)..(n + 24)

\* The clock stands on the hours that Hour counts.
LEMMA Grain ==
    /\ Hour \in {1, 2, 3, 4, 6, 8, 12, 24}
    /\ \A a \in Nat : a % Hour = 0 => (a + Hour) % Hour = 0
    /\ \A a, b \in Nat : a % Hour = 0 /\ b % Hour = 0 /\ a < b /\ b <= a + Hour => b = a + Hour
    /\ \A a, h \in Nat : h % Hour = 0 => (24 * a + h) % Hour = 0
<1>1. Hour \in {1, 2, 3, 4, 6, 8, 12, 24}
  <2>1. /\ Hour \in 1..24 /\ 24 % Hour = 0
        /\ \A h \in {5, 7, 9, 10, 11, 13, 14, 15, 16, 17, 18, 19, 20, 21, 22, 23} : 24 % h # 0
    BY HourAssumption
  <2> QED
    BY <2>1
<1>2. CASE Hour = 1
  BY <1>2
<1>3. CASE Hour = 2
  BY <1>3
<1>4. CASE Hour = 3
  BY <1>4
<1>5. CASE Hour = 4
  BY <1>5
<1>6. CASE Hour = 6
  BY <1>6
<1>7. CASE Hour = 8
  BY <1>7
<1>8. CASE Hour = 12
  BY <1>8
<1>9. CASE Hour = 24
  BY <1>9
<1> QED
  BY <1>1, <1>2, <1>3, <1>4, <1>5, <1>6, <1>7, <1>8, <1>9

\* The shape of the state, one fact at a time.
LEMMA ClockShape ==
    ClockTypeOK =>
      /\ now \in Nat /\ now <= LastHour /\ due \in Nat /\ due \in Dues
      /\ lastReminderAt \in Int /\ (lastReminderAt = Never \/ lastReminderAt >= 0) /\ lastReminderAt <= now
      /\ cancelledAt \in Int /\ (cancelledAt = Never \/ cancelledAt >= 0) /\ cancelledAt <= now
      /\ reminderSentCount \in Nat /\ reminderSentCount <= sent /\ sent \in Nat
      /\ sweep = [step |-> sweep.step, at |-> sweep.at, count |-> sweep.count]
      /\ sweep.step \in {"idle", "notify", "write"} /\ sweep.at \in (0..now) \cup {Never}
      /\ sweep.count \in Nat /\ sweep.count <= sent
      /\ nudges \subseteq 0..now /\ clockEvents \in 0..MaxClockEvents
BY HourAssumption DEF ClockTypeOK, Never

\* The sweep: it reads the bill, reminds, and writes.
LEMMA ClockSweeps ==
    ASSUME ClockInv, FindDue \/ Notify \/ WriteReminded \/ SweepDies
    PROVE  ClockInv'
<1> USE DEF Never
<1>1. ClockTypeOK /\ NudgesAreSpaced /\ SweepOK /\ SweptOK /\ PruningOK /\ now % Hour = 0
      /\ \A n \in nudges : due \in (n - 72)..(n + 24)
  BY DEF ClockInv
<1>2. UNCHANGED <<now, due, state, cancelledAt, hidden, pruning, reopened>>
  BY DEF FindDue, Notify, WriteReminded, SweepDies, bill
<1>3. PruningOK'
  BY <1>1, <1>2 DEF PruningOK, PastGrace
<1>4. /\ now \in Nat /\ now <= LastHour /\ due \in Nat /\ due \in Dues
      /\ lastReminderAt \in Int /\ (lastReminderAt = Never \/ lastReminderAt >= 0) /\ lastReminderAt <= now
      /\ reminderSentCount \in Nat /\ reminderSentCount <= sent /\ sent \in Nat
      /\ sweep.step \in {"idle", "notify", "write"} /\ sweep.at \in (0..now) \cup {Never}
      /\ sweep.count \in Nat /\ sweep.count <= sent
      /\ nudges \subseteq 0..now
  BY <1>1, ClockShape
<1>5. sweep \in [step : {"idle", "notify", "write"}, at : (0..now) \cup {Never}, count : 0..sent]
  BY <1>1 DEF ClockTypeOK
<1>6. CASE FindDue
  <2>1. /\ now % 24 \in SweepHours /\ sweep.step = "idle" /\ sweep.at # now
        /\ UNCHANGED <<now, bill, pruning, nudges, sent, lapsed, reopened, clockEvents>>
    BY <1>6 DEF FindDue
  <2>2. CASE /\ ~hidden /\ state \in Open /\ DueWindow(now) /\ ~RemindedRecently(now)
             /\ sweep' = [step |-> "notify", at |-> now, count |-> reminderSentCount]
    <3>1. sweep'.step = "notify" /\ sweep'.at = now /\ sweep'.count = reminderSentCount
      BY <2>2
    <3>2. due \in (now - 72)..(now + 24) /\ lastReminderAt <= now - 20
      BY <1>4, <2>2 DEF DueWindow, RemindedRecently
    <3>3. ClockTypeOK'
      BY <1>1, <1>4, <2>1, <2>2 DEF ClockTypeOK, bill
    <3>4. SweepOK'
      BY <1>1, <2>1, <3>1, <3>2, <1>4 DEF SweepOK, bill
    <3>5. SweptOK'
      BY <1>1, <2>1, <3>1 DEF SweptOK, Swept, StillOpen, bill
    <3> QED
      BY <1>1, <1>3, <2>1, <3>3, <3>4, <3>5 DEF ClockInv, NudgesAreSpaced, bill
  <2>3. CASE /\ ~(~hidden /\ state \in Open /\ DueWindow(now) /\ ~RemindedRecently(now))
             /\ sweep' = [NoSweep EXCEPT !.at = now]
    <3>1. sweep'.step = "idle" /\ sweep'.at = now /\ sweep'.count = 0
          /\ sweep' = [step |-> "idle", at |-> now, count |-> 0]
      BY <2>3 DEF NoSweep
    <3>2. ClockTypeOK'
      BY <1>1, <1>4, <2>1, <3>1 DEF ClockTypeOK, bill
    <3>3. SweepOK'
      BY <1>1, <2>1, <3>1, <1>4 DEF SweepOK, bill
    <3>4. SweptOK'
      <4>1. ASSUME ~lapsed, StillOpen, NEW t \in 0..now, Swept(t)' PROVE lastReminderAt >= t - 19
        <5>1. CASE t = now
          <6>1. due \in now..(now + 24)
            BY <4>1, <5>1, <2>1 DEF Swept, bill
          <6>2. RemindedRecently(now)
            BY <2>3, <4>1, <6>1, <1>4 DEF StillOpen, DueWindow
          <6> QED
            BY <6>2, <5>1, <1>4 DEF RemindedRecently
        <5>2. CASE t # now
          BY <1>1, <4>1, <5>2, <2>1 DEF SweptOK, Swept, bill
        <5> QED
          BY <5>1, <5>2
      <4> QED
        BY <4>1, <2>1 DEF SweptOK, StillOpen, bill
    <3> QED
      BY <1>1, <1>3, <2>1, <3>2, <3>3, <3>4 DEF ClockInv, NudgesAreSpaced, bill
  <2> QED
    BY <1>6, <2>2, <2>3 DEF FindDue
<1>7. CASE Notify
  <2>1. /\ sweep.step = "notify" /\ sweep' = [sweep EXCEPT !.step = "write"]
        /\ nudges' = nudges \cup {sweep.at} /\ sent' = sent + 1
        /\ UNCHANGED <<now, bill, pruning, lapsed, reopened, clockEvents>>
    BY <1>7 DEF Notify
  <2>2. sweep.at = now /\ due \in (now - 72)..(now + 24)
    BY <1>1, <2>1 DEF SweepOK
  <2>3. /\ sweep' = [step |-> "write", at |-> now, count |-> sweep.count]
        /\ sweep'.step = "write" /\ sweep'.at = now /\ sweep'.count = sweep.count
    BY <1>5, <2>1, <2>2
  <2>4. ~lapsed => /\ reminderSentCount = sent /\ sweep.count = sent /\ lastReminderAt <= now - 20
                   /\ \A n \in nudges : n <= lastReminderAt
    BY <1>1, <2>1 DEF SweepOK
  <2>5. nudges' = nudges \cup {now} /\ nudges' \subseteq 0..now
    BY <1>4, <2>1, <2>2
  <2>6. ClockTypeOK'
    <3>1. sweep' \in [step : {"idle", "notify", "write"}, at : (0..now) \cup {Never}, count : 0..(sent + 1)]
      BY <1>4, <2>3
    <3> QED
      BY <1>1, <1>4, <2>1, <2>5, <3>1 DEF ClockTypeOK, bill
  <2>7. SweepOK'
    <3>1. ~lapsed => \A n \in nudges' : n = now \/ n <= now - 20
      BY <1>4, <2>4, <2>5
    <3> QED
      BY <1>4, <2>1, <2>2, <2>3, <2>4, <3>1 DEF SweepOK, bill
  <2>8. SweptOK'
    BY <1>1, <2>1, <2>3 DEF SweptOK, Swept, StillOpen, bill
  <2>9. NudgesAreSpaced'
    <3>1. ASSUME ~lapsed, NEW s \in nudges', NEW t \in nudges', s < t PROVE t - s >= 20
      <4>1. s \in 0..now /\ t \in 0..now
        BY <2>5
      <4>2. CASE s \in nudges /\ t \in nudges
        BY <1>1, <3>1, <4>2 DEF NudgesAreSpaced
      <4>3. CASE s = now
        BY <3>1, <4>1, <4>3
      <4>4. CASE s \in nudges /\ t = now
        BY <2>4, <3>1, <4>1, <4>4, <1>4
      <4> QED
        BY <2>5, <4>2, <4>3, <4>4
    <3> QED
      BY <2>1, <3>1 DEF NudgesAreSpaced
  <2>10. \A n \in nudges' : due \in (n - 72)..(n + 24)
    BY <1>1, <2>2, <2>5
  <2> QED
    BY <1>1, <1>3, <2>1, <2>6, <2>7, <2>8, <2>9, <2>10 DEF ClockInv, bill
<1>8. CASE WriteReminded
  <2>1. /\ sweep.step = "write"
        /\ lastReminderAt' = sweep.at /\ reminderSentCount' = sweep.count + 1
        /\ sweep' = [NoSweep EXCEPT !.at = sweep.at]
        /\ UNCHANGED <<now, due, state, cancelledAt, hidden, pruning, nudges, sent, lapsed, reopened, clockEvents>>
    BY <1>8 DEF WriteReminded
  <2>2. sweep.at = now /\ sweep.count + 1 <= sent
        /\ (~lapsed => sweep.count + 1 = sent /\ \A n \in nudges : n = now \/ n <= now - 20)
    BY <1>1, <2>1 DEF SweepOK
  <2>3. sweep' = [step |-> "idle", at |-> now, count |-> 0] /\ sweep'.step = "idle"
        /\ sweep'.at = now /\ lastReminderAt' = now
    BY <2>1, <2>2 DEF NoSweep
  <2>4. ClockTypeOK'
    <3>1. lastReminderAt' \in (0..now) \cup {Never} /\ reminderSentCount' \in 0..sent
          /\ now \in 0..now /\ 0 \in 0..sent
      BY <1>4, <2>1, <2>2, <2>3
    <3>2. sweep' \in [step : {"idle", "notify", "write"}, at : (0..now) \cup {Never}, count : 0..sent]
      BY <2>3, <3>1
    <3>3. state' = "cancelled" => cancelledAt' # Never
      BY <1>1, <2>1 DEF ClockTypeOK
    <3> QED
      BY <1>1, <2>1, <3>1, <3>2, <3>3 DEF ClockTypeOK
  <2>5. SweepOK'
    <3>1. ~lapsed => \A n \in nudges : n <= now
      BY <1>4
    <3> QED
      BY <1>4, <2>1, <2>2, <2>3, <3>1 DEF SweepOK
  <2>6. SweptOK'
    BY <1>4, <2>1, <2>3 DEF SweptOK
  <2> QED
    BY <1>1, <1>3, <2>1, <2>4, <2>5, <2>6 DEF ClockInv, NudgesAreSpaced
<1>9. CASE SweepDies
  <2>1. /\ sweep.step = "write" /\ Event /\ sweep' = [NoSweep EXCEPT !.at = sweep.at] /\ lapsed' = TRUE
        /\ UNCHANGED <<now, bill, pruning, nudges, sent, reopened>>
    BY <1>9 DEF SweepDies
  <2>2. sweep' = [step |-> "idle", at |-> sweep.at, count |-> 0] /\ sweep'.step = "idle"
    BY <2>1 DEF NoSweep
  <2>3. lapsed' \in BOOLEAN /\ lapsed'
    BY <2>1, Zenon
  <2>4. clockEvents' \in 0..MaxClockEvents
    BY <1>1, <2>1, SweepAssumption DEF ClockTypeOK, Event
  <2>5. ClockTypeOK'
    <3>1. sweep' \in [step : {"idle", "notify", "write"}, at : (0..now) \cup {Never}, count : 0..sent]
      BY <1>4, <2>2
    <3>2. hidden' \in BOOLEAN /\ pruning' \in BOOLEAN /\ lapsed' \in BOOLEAN /\ reopened' \in BOOLEAN
      <4>1. hidden \in BOOLEAN /\ pruning \in BOOLEAN /\ lapsed \in BOOLEAN /\ reopened \in BOOLEAN
        BY <1>1 DEF ClockTypeOK
      <4>2. hidden' = hidden /\ pruning' = pruning /\ reopened' = reopened
        BY <2>1 DEF bill
      <4> QED
        BY <4>1, <4>2, <2>3, Zenon
    <3> QED
      BY <1>1, <2>1, <2>4, <3>1, <3>2 DEF ClockTypeOK, bill
  <2> QED
    BY <1>1, <1>3, <2>1, <2>2, <2>3, <2>5 DEF ClockInv, NudgesAreSpaced, SweepOK, SweptOK, bill
<1> QED
  BY <1>6, <1>7, <1>8, <1>9

\* A reminder by hand, and what else happens to the bill.
LEMMA ClockEventsKeep ==
    ASSUME ClockInv, sendReminders \/ PayOff \/ CancelIt \/ ReopenByCard
    PROVE  ClockInv'
<1> USE DEF Never
<1>1. ClockTypeOK /\ NudgesAreSpaced /\ SweepOK /\ SweptOK /\ PruningOK /\ now % Hour = 0
      /\ \A n \in nudges : due \in (n - 72)..(n + 24)
  BY DEF ClockInv
<1>2. Event /\ UNCHANGED <<now, due, hidden, sweep, pruning, nudges>>
  BY DEF sendReminders, PayOff, CancelIt, ReopenByCard
<1>3. clockEvents' \in 0..MaxClockEvents
  BY <1>1, <1>2, SweepAssumption DEF ClockTypeOK, Event
<1>4. /\ now \in Nat /\ lastReminderAt \in Int /\ lastReminderAt <= now
      /\ (lastReminderAt = Never \/ lastReminderAt >= 0)
      /\ cancelledAt \in Int /\ cancelledAt <= now /\ (cancelledAt = Never \/ cancelledAt >= 0)
      /\ reminderSentCount \in Nat /\ reminderSentCount <= sent /\ sent \in Nat
      /\ sweep.step \in {"idle", "notify", "write"} /\ sweep.count \in Nat /\ sweep.count <= sent
      /\ nudges \subseteq 0..now
  BY <1>1, ClockShape
<1>5. CASE sendReminders
  <2>1. /\ lastReminderAt' = now /\ reminderSentCount' = reminderSentCount + 1 /\ sent' = sent + 1
        /\ UNCHANGED <<now, due, state, cancelledAt, hidden, sweep, pruning, nudges, reopened>>
    BY <1>5 DEF sendReminders
  <2>2. lapsed' \in BOOLEAN
    BY <1>5, Zenon DEF sendReminders
  <2>3. ~lapsed' => ~lapsed /\ sweep.step = "idle"
    BY <1>5, Zenon DEF sendReminders
  <2>4. ClockTypeOK'
    <3>1. sweep \in [step : {"idle", "notify", "write"}, at : (0..now) \cup {Never}, count : 0..(sent + 1)]
      BY <1>1, <1>4 DEF ClockTypeOK
    <3>2. hidden' \in BOOLEAN /\ pruning' \in BOOLEAN /\ lapsed' \in BOOLEAN /\ reopened' \in BOOLEAN
      <4>1. hidden \in BOOLEAN /\ pruning \in BOOLEAN /\ lapsed \in BOOLEAN /\ reopened \in BOOLEAN
        BY <1>1 DEF ClockTypeOK
      <4>2. hidden' = hidden /\ pruning' = pruning /\ reopened' = reopened
        BY <2>1
      <4> QED
        BY <4>1, <4>2, <2>2, Zenon
    <3>3. /\ lastReminderAt' \in (0..now) \cup {Never} /\ reminderSentCount' \in 0..(sent + 1)
          /\ sent + 1 \in Nat
      BY <1>4, <2>1
    <3> QED
      BY <1>1, <1>3, <2>1, <3>1, <3>2, <3>3 DEF ClockTypeOK
  <2>5. SweepOK'
    <3>1. \A n \in nudges : n <= now
      BY <1>4
    <3> QED
      BY <1>1, <1>4, <2>1, <2>3, <3>1 DEF SweepOK
  <2>6. SweptOK'
    BY <1>4, <2>1 DEF SweptOK
  <2>7. NudgesAreSpaced'
    BY <1>1, <2>1, <2>3 DEF NudgesAreSpaced
  <2>8. PruningOK'
    BY <1>1, <2>1 DEF PruningOK, PastGrace
  <2> QED
    BY <1>1, <2>1, <2>4, <2>5, <2>6, <2>7, <2>8 DEF ClockInv
<1>6. CASE PayOff \/ CancelIt \/ ReopenByCard
  <2>1. UNCHANGED <<now, due, lastReminderAt, reminderSentCount, hidden, sweep, pruning, nudges, sent, lapsed>>
    BY <1>6 DEF PayOff, CancelIt, ReopenByCard
  <2>2. reopened' = reopened \/ reopened' = TRUE
    BY <1>6, Zenon DEF PayOff, CancelIt, ReopenByCard
  <2>3. /\ state' \in Open \cup {"funded", "cancelled"} /\ cancelledAt' \in (0..now) \cup {Never}
        /\ state' = "cancelled" => cancelledAt' # Never
    BY <1>1, <1>4, <1>6 DEF PayOff, CancelIt, ReopenByCard, ClockTypeOK, Open
  <2>4. ClockTypeOK'
    <3>1. hidden' \in BOOLEAN /\ pruning' \in BOOLEAN /\ lapsed' \in BOOLEAN /\ reopened' \in BOOLEAN
      <4>1. hidden \in BOOLEAN /\ pruning \in BOOLEAN /\ lapsed \in BOOLEAN /\ reopened \in BOOLEAN
        BY <1>1 DEF ClockTypeOK
      <4>2. hidden' = hidden /\ pruning' = pruning /\ lapsed' = lapsed
        BY <2>1
      <4> QED
        BY <4>1, <4>2, <2>2, Zenon
    <3> QED
      BY <1>1, <1>3, <2>1, <2>3, <3>1 DEF ClockTypeOK
  <2>5. SweptOK'
    <3>1. ~StillOpen'
      BY <1>1, <1>4, <1>6 DEF PayOff, CancelIt, ReopenByCard, StillOpen, Open, ClockTypeOK
    <3> QED
      BY <3>1 DEF SweptOK
  <2>6. PruningOK'
    <3>1. CASE PayOff
      BY <1>1, <2>1, <3>1 DEF PayOff, PruningOK, PastGrace, Open
    <3>2. CASE CancelIt
      BY <1>1, <2>1, <3>2 DEF CancelIt, PruningOK, PastGrace
    <3>3. CASE ReopenByCard
      BY <3>3 DEF ReopenByCard, PruningOK
    <3> QED
      BY <1>6, <3>1, <3>2, <3>3
  <2> QED
    BY <1>1, <2>1, <2>4, <2>5, <2>6 DEF ClockInv, NudgesAreSpaced, SweepOK
<1> QED
  BY <1>5, <1>6

\* The removal, and the clock.
LEMMA ClockTicks ==
    ASSUME ClockInv, FindCancelled \/ SoftDeleteCancelled \/ Elapse
    PROVE  ClockInv'
<1> USE DEF Never
<1>1. ClockTypeOK /\ NudgesAreSpaced /\ SweepOK /\ SweptOK /\ PruningOK /\ now % Hour = 0
      /\ \A n \in nudges : due \in (n - 72)..(n + 24)
  BY DEF ClockInv
<1>2. CASE FindCancelled
  <2>1. /\ PastGrace /\ pruning' = TRUE /\ reopened' = FALSE
        /\ UNCHANGED <<now, bill, sweep, nudges, sent, lapsed, clockEvents>>
    BY <1>2 DEF FindCancelled
  <2>2. hidden' \in BOOLEAN /\ pruning' \in BOOLEAN /\ lapsed' \in BOOLEAN /\ reopened' \in BOOLEAN
    <3>1. hidden \in BOOLEAN /\ pruning \in BOOLEAN /\ lapsed \in BOOLEAN /\ reopened \in BOOLEAN
      BY <1>1 DEF ClockTypeOK
    <3>2. hidden' = hidden /\ lapsed' = lapsed /\ pruning' = TRUE /\ reopened' = FALSE
      BY <2>1 DEF bill
    <3> QED
      BY <3>1, <3>2, Zenon
  <2>3. ClockTypeOK'
    BY <1>1, <2>1, <2>2 DEF ClockTypeOK, bill
  <2>4. PruningOK'
    BY <2>1 DEF PruningOK, PastGrace, bill
  <2> QED
    BY <1>1, <2>1, <2>3, <2>4 DEF ClockInv, NudgesAreSpaced, SweepOK, SweptOK, Swept, StillOpen, bill
<1>3. CASE SoftDeleteCancelled
  <2>1. /\ pruning' = FALSE /\ hidden' = TRUE
        /\ UNCHANGED <<now, due, state, lastReminderAt, reminderSentCount, cancelledAt, sweep, nudges, sent,
                       lapsed, reopened, clockEvents>>
    BY <1>3 DEF SoftDeleteCancelled
  <2>2. hidden' \in BOOLEAN /\ pruning' \in BOOLEAN /\ lapsed' \in BOOLEAN /\ reopened' \in BOOLEAN
    <3>1. hidden \in BOOLEAN /\ pruning \in BOOLEAN /\ lapsed \in BOOLEAN /\ reopened \in BOOLEAN
      BY <1>1 DEF ClockTypeOK
    <3>2. hidden' = TRUE /\ lapsed' = lapsed /\ pruning' = FALSE /\ reopened' = reopened
      BY <2>1
    <3> QED
      BY <3>1, <3>2, Zenon
  <2>3. ClockTypeOK'
    BY <1>1, <2>1, <2>2 DEF ClockTypeOK
  <2>4. PruningOK' /\ SweptOK'
    BY <2>1 DEF PruningOK, SweptOK, StillOpen
  <2> QED
    BY <1>1, <2>1, <2>3, <2>4 DEF ClockInv, NudgesAreSpaced, SweepOK
<1>4. CASE Elapse
  <2>1. /\ now + Hour <= LastHour /\ now' = now + Hour
        /\ sweep.step = "idle" /\ (now % 24 \in SweepHours => sweep.at = now) /\ ~pruning
        /\ UNCHANGED <<bill, sweep, pruning, nudges, sent, lapsed, reopened, clockEvents>>
    BY <1>4 DEF Elapse
  <2>2. now \in Nat /\ LastHour \in Nat /\ Hour \in Nat /\ Hour > 0 /\ now' \in Nat /\ now < now'
        /\ sweep.at \in (0..now) \cup {Never} /\ nudges \subseteq 0..now
    BY <1>1, <2>1, ClockShape, HourAssumption
  <2>3. now' % Hour = 0
    BY <1>1, <2>1, <2>2, Grain
  <2>4. ClockTypeOK'
    <3>1. 0..now \subseteq 0..now' /\ now' \in 0..LastHour
      BY <2>1, <2>2
    <3>2. sweep \in [step : {"idle", "notify", "write"}, at : (0..now') \cup {Never}, count : 0..sent]
      BY <1>1, <3>1 DEF ClockTypeOK
    <3>3. {lastReminderAt, cancelledAt} \subseteq (0..now') \cup {Never} /\ nudges \subseteq 0..now'
      BY <1>1, <3>1 DEF ClockTypeOK
    <3> QED
      BY <1>1, <2>1, <3>1, <3>2, <3>3 DEF ClockTypeOK, bill
  <2>5. SweepOK'
    BY <1>1, <2>1 DEF SweepOK, bill
  <2>6. SweptOK'
    <3>1. ASSUME ~lapsed, StillOpen, NEW t \in 0..now', Swept(t)' PROVE lastReminderAt >= t - 19
      <4>1. t % 24 \in SweepHours /\ t % Hour = 0 /\ due \in t..(t + 24) /\ (t = now' => sweep.at = now')
        BY <2>1, <3>1 DEF Swept, bill
      <4>2. t # now'
        BY <2>2, <4>1
      <4>3. t \in 0..now
        BY <1>1, <2>1, <2>2, <4>1, <4>2, Grain
      <4>4. Swept(t)
        BY <2>1, <4>1 DEF Swept
      <4> QED
        BY <1>1, <3>1, <4>3, <4>4 DEF SweptOK
    <3> QED
      BY <2>1, <3>1 DEF SweptOK, StillOpen, bill
  <2>7. PruningOK'
    BY <2>1 DEF PruningOK
  <2> QED
    BY <1>1, <2>1, <2>3, <2>4, <2>5, <2>6, <2>7 DEF ClockInv, NudgesAreSpaced, bill
<1> QED
  BY <1>2, <1>3, <1>4

\* No hour has passed and nothing was sent in the beginning.
LEMMA ClockInits == ClockInit => ClockInv
<1> SUFFICES ASSUME ClockInit PROVE ClockInv
  OBVIOUS
<1> USE DEF Never
<1>1. /\ now = 0 /\ due \in Dues /\ state \in {"active", "overdue"}
      /\ lastReminderAt = Never /\ reminderSentCount = 0 /\ cancelledAt = Never /\ nudges = {} /\ sent = 0
      /\ clockEvents = 0 /\ sweep = [step |-> "idle", at |-> Never, count |-> 0]
  BY DEF ClockInit, NoSweep
<1>2. hidden \in BOOLEAN /\ pruning \in BOOLEAN /\ lapsed \in BOOLEAN /\ reopened \in BOOLEAN
  BY Zenon DEF ClockInit
<1>3. ~hidden /\ ~pruning /\ ~lapsed
  BY DEF ClockInit
<1>4. ClockTypeOK
  BY <1>1, <1>2, HourAssumption, SweepAssumption DEF ClockTypeOK, Open
<1>5. SweptOK
  BY <1>1 DEF SweptOK, Swept
<1>6. now % Hour = 0
  BY <1>1, Grain
<1> QED
  BY <1>1, <1>3, <1>4, <1>5, <1>6 DEF ClockInv, NudgesAreSpaced, SweepOK, PruningOK

\* A step of the clock, which also hides a bill past its grace only.
LEMMA StepClock ==
    ClockInv /\ [ClockNext]_clockVars =>
      /\ ClockInv'
      /\ hidden' # hidden => (state = "cancelled" /\ cancelledAt < now - 6) \/ reopened
<1> SUFFICES ASSUME ClockInv, [ClockNext]_clockVars
             PROVE  /\ ClockInv'
                    /\ hidden' # hidden => (state = "cancelled" /\ cancelledAt < now - 6) \/ reopened
  OBVIOUS
<1>1. CASE UNCHANGED clockVars
  BY <1>1 DEF clockVars, ClockInv, ClockTypeOK, NudgesAreSpaced, SweepOK, SweptOK, Swept, StillOpen,
              PruningOK, PastGrace
<1>2. CASE FindDue \/ Notify \/ WriteReminded \/ SweepDies
  <2>1. hidden' = hidden
    BY <1>2 DEF FindDue, Notify, WriteReminded, SweepDies, bill
  <2> QED
    BY <1>2, <2>1, ClockSweeps
<1>3. CASE sendReminders \/ PayOff \/ CancelIt \/ ReopenByCard
  <2>1. hidden' = hidden
    BY <1>3 DEF sendReminders, PayOff, CancelIt, ReopenByCard
  <2> QED
    BY <1>3, <2>1, ClockEventsKeep
<1>4. CASE FindCancelled \/ SoftDeleteCancelled \/ Elapse
  <2>1. hidden' # hidden => PastGrace \/ reopened
    BY <1>4 DEF FindCancelled, SoftDeleteCancelled, Elapse, bill, ClockInv, PruningOK
  <2> QED
    BY <1>4, <2>1, ClockTicks DEF PastGrace
<1> QED
  BY <1>1, <1>2, <1>3, <1>4 DEF ClockNext

\* Different things in five places are at most five.
LEMMA PigeonFive ==
    ASSUME NEW S, IsFiniteSet(S), NEW g \in [S -> 0..4], \A x, y \in S : x # y => g[x] # g[y]
    PROVE  Cardinality(S) <= 5
<1>1. \A a, b \in Int : a <= b => IsFiniteSet(a..b) /\ Cardinality(a..b) = b - a + 1
  BY FS_Interval
<1>2. 0 \in Int /\ 4 \in Int /\ 0 <= 4 /\ 4 - 0 + 1 = 5
  OBVIOUS
<1>3. IsFiniteSet(0..4) /\ Cardinality(0..4) = 4 - 0 + 1
  BY <1>1, <1>2, Zenon
<1>4. Cardinality(S) \in Nat
  BY FS_CardinalityType
<1>5. ASSUME Cardinality(0..4) < Cardinality(S) PROVE FALSE
  <2>1. \E x, y \in S : x # y /\ g[x] = g[y]
    BY <1>3, <1>5, FS_PigeonHole
  <2> QED
    BY <2>1
<1> QED
  BY <1>2, <1>3, <1>4, <1>5

\* 96 hours, cut in pieces of 20.
LEMMA Fifths ==
    /\ \A a \in 0..96 : a \div 20 \in 0..4
    /\ \A a, b \in 0..96 : b - a >= 20 => a \div 20 # b \div 20
OBVIOUS

\* Reminders 20 hours apart in a window of 96 hours: each has a fifth of it to itself.
LEMMA FiveAtMost == ClockInv => FiveNudgesAtMost
<1> SUFFICES ASSUME ClockInv, ~lapsed PROVE Cardinality(nudges) <= 5
  BY DEF FiveNudgesAtMost
<1>1. /\ now \in Nat /\ due \in Nat /\ nudges \subseteq 0..now
      /\ \A n \in nudges : due \in (n - 72)..(n + 24)
      /\ \A s, t \in nudges : s < t => t - s >= 20
  BY ClockShape DEF ClockInv, NudgesAreSpaced
<1> DEFINE w(n) == n - (due - 24)
           f == [n \in nudges |-> w(n) \div 20]
<1>2. \A n \in nudges : n \in Nat /\ w(n) \in 0..96
  BY <1>1
<1>3. ASSUME NEW n \in nudges PROVE w(n) \div 20 \in 0..4
  <2> HIDE DEF w
  <2> QED
    BY <1>2, Fifths
<1>4. ASSUME NEW s \in nudges, NEW t \in nudges, s < t PROVE f[s] # f[t]
  <2>1. t - s >= 20 /\ s \in Nat /\ t \in Nat
    BY <1>1, <1>2, <1>4
  <2>2. w(t) - w(s) >= 20
    BY <1>1, <2>1
  <2>3. w(s) \div 20 # w(t) \div 20
    <3> HIDE DEF w
    <3> QED
      BY <1>2, <2>2, Fifths
  <2> QED
    BY <2>3
<1>5. f \in [nudges -> 0..4]
  BY <1>3
<1>6. IsFiniteSet(nudges) /\ Cardinality(nudges) \in Nat
  <2>1. IsFiniteSet(0..now)
    BY <1>1, FS_Interval
  <2> QED
    BY <1>1, <2>1, FS_Subset, FS_CardinalityType
<1>7. \A s, t \in nudges : s # t => f[s] # f[t]
  <2>1. \A s, t \in nudges : s # t => s < t \/ t < s
    BY <1>2
  <2> HIDE DEF f
  <2> QED
    BY <1>4, <2>1
<1> HIDE DEF f
<1> QED
  BY <1>5, <1>6, <1>7, PigeonFive

\* Days and hours.
LEMMA DaysHours ==
    /\ \A a \in Nat : a \div 24 \in Nat /\ 24 * (a \div 24) <= a /\ a < 24 * (a \div 24) + 24
    /\ \A d \in Nat, h \in 0..23 : (24 * d + h) % 24 = h
OBVIOUS

\* The last sweep before the due date has reminded, or found a reminder.
LEMMA WarnedInTime == ClockInv => WarnedBeforeDue
<1> SUFFICES ASSUME ClockInv, now > due, due >= 24, state \in Open, cancelledAt = Never, ~hidden, ~lapsed
             PROVE  lastReminderAt >= due - 44
  BY DEF WarnedBeforeDue
<1>1. now \in Nat /\ due \in Nat /\ lastReminderAt \in Int
  BY ClockShape DEF ClockInv
<1>2. PICK h \in SweepHours : h \in 0..23 /\ h % Hour = 0
  BY SweepAssumption
<1> DEFINE days == (due - h) \div 24
           t == 24 * days + h
<1>3. days \in Nat /\ t <= due /\ due < t + 24 /\ t % 24 = h
  <2>1. due - h \in Nat
    BY <1>1, <1>2
  <2>2. days \in Nat /\ 24 * days <= due - h /\ due - h < 24 * days + 24
    BY <2>1, DaysHours
  <2>3. t % 24 = h
    <3> HIDE DEF days
    <3> QED
      BY <1>2, <2>2, DaysHours
  <2> HIDE DEF days
  <2> QED
    BY <1>1, <1>2, <2>2, <2>3
<1>4. t % Hour = 0 /\ t \in Nat
  <2> HIDE DEF days
  <2>1. h \in Nat /\ t \in Nat
    BY <1>2, <1>3
  <2> QED
    BY <1>2, <1>3, <2>1, Grain
<1> HIDE DEF t
<1>5. t \in 0..now /\ t # now
  BY <1>1, <1>3, <1>4
<1>6. Swept(t)
  BY <1>1, <1>2, <1>3, <1>4, <1>5 DEF Swept
<1>7. lastReminderAt >= t - 19
  BY <1>5, <1>6 DEF ClockInv, SweptOK, StillOpen
<1> QED
  BY <1>1, <1>3, <1>4, <1>7

\* What the run checks of the clock.
LEMMA ClockMeans ==
    ClockInv => NudgesAreSpaced /\ WarnedBeforeDue /\ ReminderCountIsTrue /\ FiveNudgesAtMost
<1>1. ClockInv => NudgesAreSpaced /\ ReminderCountIsTrue
  BY DEF ClockInv, SweepOK, ReminderCountIsTrue
<1> QED
  BY <1>1, FiveAtMost, WarnedInTime

-----------------------------------------------------------------------------
(* The shares *)

\* The sums of the model are those of SumTheorems.
LEMMA Totals_ == \A f : TotalOf(f) = SumOf(f)
BY DEF TotalOf, SumOf

Figured == [state : {"none", "live", "removed"}, owed : Nat, paid : Nat,
            remaining : Nat, pct : 0..100, status : SharesStatus]

\* The people of a bill are finitely many.
LEMMA LiveFinite ==
    ASSUME NEW rs
    PROVE  /\ Live(rs) \in SUBSET People /\ IsFiniteSet(Live(rs))
           /\ Cardinality(Live(rs)) \in Nat
           /\ Cardinality(Live(rs)) = 0 <=> Live(rs) = {}
<1>1. Live(rs) \in SUBSET People
  BY DEF Live
<1>2. IsFiniteSet(Live(rs))
  BY <1>1, FS_Subset, PeopleAssumption
<1> HIDE DEF Live
<1> QED
  BY <1>1, <1>2, FS_CardinalityType, FS_EmptySet

\* An order of a set goes through all of it, each element once.
LEMMA OrderOf ==
    ASSUME NEW S, IsFiniteSet(S), NEW ask \in Orders(S)
    PROVE  /\ ask \in [1..Cardinality(S) -> S] /\ Cardinality(S) \in Nat
           /\ ask \in Seq(S) /\ Len(ask) = Cardinality(S)
           /\ OneToOne(ask, 1..Cardinality(S)) /\ IsInjective(ask)
           /\ \A p \in S : \E i \in 1..Cardinality(S) : ask[i] = p
           /\ ToSet(ask) = S
<1> DEFINE n == Cardinality(S)
<1>1. n \in Nat /\ IsFiniteSet(1..n) /\ Cardinality(1..n) = n
  BY FS_CardinalityType, FS_Interval
<1>2. ask \in [1..n -> S] /\ (\A i, j \in 1..n : i # j => ask[i] # ask[j])
  BY DEF Orders, SetToSeqs
<1>3. IsInjective(ask) /\ OneToOne(ask, 1..n)
  BY <1>2 DEF IsInjective, OneToOne
<1>4. ask \in Injection(1..n, S)
  BY <1>2, <1>3 DEF Injection
<1>5. ask \in Surjection(1..n, S)
  <2> HIDE DEF n
  <2>1. Cardinality(1..n) = Cardinality(S) <=> ask \in Surjection(1..n, S)
    BY <1>4, FS_Injection
  <2> QED
    BY <1>1, <2>1 DEF n
<1>6. \A p \in S : \E i \in 1..n : ask[i] = p
  BY <1>5 DEF Surjection
<1>7. ask \in Seq(S) /\ Len(ask) = n
  BY <1>1, <1>2
<1>8. ToSet(ask) = S
  BY <1>2, <1>6 DEF ToSet
<1> HIDE DEF n
<1>9. n = Cardinality(S)
  BY DEF n
<1> QED
  BY <1>1, <1>2, <1>3, <1>6, <1>7, <1>8, <1>9

\* The sequence a query that is not sorted returns is one of the orders.
LEMMA SomeOrder ==
    ASSUME NEW S, IsFiniteSet(S)
    PROVE  SetToSeq(S) \in Orders(S)
<1> DEFINE D == 1..Cardinality(S)
<1>1. \E f \in [D -> S] : IsInjective(f)
  <2>1. ExistsBijection(D, S)
    BY FS_CardinalityType
  <2> QED
    BY <2>1 DEF ExistsBijection, Bijection, Injection
<1>2. SetToSeq(S) \in [D -> S] /\ IsInjective(SetToSeq(S))
  BY <1>1 DEF SetToSeq
<1> QED
  BY <1>2 DEF Orders, SetToSeqs, IsInjective

-----------------------------------------------------------------------------
(* The places *)

\* The rows as (createdAt, id) sorts them: everybody who has a row, once.
Sorted(rs, ord) ==
    /\ ord \in Seq(People) /\ IsInjective(ord)
    /\ \A p \in People : p \in ToSet(ord) <=> rs[p].state # "none"

Placing(rs, ord) == [p \in Live(rs) |-> Place(rs, ord, p)]

\* The places of the n live rows are 1 to n.
LEMMA Places ==
    ASSUME NEW rs, NEW ord, Sorted(rs, ord)
    PROVE  /\ Placing(rs, ord) \in [Live(rs) -> 1..Cardinality(Live(rs))]
           /\ OneToOne(Placing(rs, ord), Live(rs))
           /\ \A i \in 1..Cardinality(Live(rs)) : \E p \in Live(rs) : Placing(rs, ord)[p] = i
<1> DEFINE L == Live(rs)
           n == Cardinality(L)
           b == Placing(rs, ord)
           pos(p) == Position(ord, p)
           upto(p) == {q \in L : pos(q) <= pos(p)}
<1>1. L \in SUBSET People /\ IsFiniteSet(L) /\ n \in Nat
  BY LiveFinite
<1>2. ASSUME NEW p \in L PROVE pos(p) \in Nat /\ ord[pos(p)] = p
  <2>1. p \in ToSet(ord)
    BY <1>1 DEF Sorted, Live
  <2>2. \E i \in DOMAIN ord : ord[i] = p
    BY <2>1 DEF ToSet
  <2>3. pos(p) \in DOMAIN ord /\ ord[pos(p)] = p
    BY <2>2 DEF Position
  <2>4. DOMAIN ord = 1..Len(ord) /\ Len(ord) \in Nat
    BY DEF Sorted
  <2> QED
    BY <2>3, <2>4
<1>3. \A p, q \in L : pos(p) = pos(q) => p = q
  BY <1>2
<1>4. DOMAIN b = L /\ b = [p \in L |-> b[p]] /\ \A p \in L : b[p] = Cardinality(upto(p))
  BY DEF Place, Placing
<1>41. n = Cardinality(L)
  OBVIOUS
<1> HIDE DEF L, pos, n, b
<1>5. ASSUME NEW p \in L PROVE upto(p) \in SUBSET L /\ IsFiniteSet(upto(p)) /\ p \in upto(p)
  <2>1. upto(p) \in SUBSET L /\ p \in upto(p)
    BY <1>2
  <2> QED
    BY <1>1, <2>1, FS_Subset
<1>6. ASSUME NEW p \in L PROVE Cardinality(upto(p)) \in 1..n
  <2>1. IsFiniteSet(upto(p)) /\ upto(p) # {} /\ upto(p) \in SUBSET L
    BY <1>5
  <2> HIDE DEF upto
  <2>2. Cardinality(upto(p)) \in Nat /\ Cardinality(upto(p)) # 0
    BY <2>1, FS_CardinalityType, FS_EmptySet
  <2>3. Cardinality(upto(p)) <= Cardinality(L)
    BY <1>1, <2>1, FS_Subset
  <2> QED
    BY <1>1, <1>41, <2>2, <2>3
<1>7. ASSUME NEW p \in L, NEW q \in L, pos(p) < pos(q)
      PROVE  Cardinality(upto(p)) # Cardinality(upto(q))
  <2>1. upto(p) \in SUBSET upto(q) /\ q \in upto(q) /\ q \notin upto(p)
    BY <1>2, <1>7
  <2>2. IsFiniteSet(upto(q))
    BY <1>5
  <2> HIDE DEF upto
  <2>3. Cardinality(upto(q)) = Cardinality(upto(p)) => upto(q) = upto(p)
    BY <2>1, <2>2, FS_Subset
  <2> QED
    BY <2>1, <2>3
<1>8. OneToOne(b, L)
  <2> SUFFICES ASSUME NEW p \in L, NEW q \in L, b[p] = b[q] PROVE p = q
    BY DEF OneToOne
  <2>1. ~(pos(p) < pos(q)) /\ ~(pos(q) < pos(p))
    <3>1. Cardinality(upto(p)) = Cardinality(upto(q))
      BY <1>4
    <3> HIDE DEF upto
    <3> QED
      BY <1>7, <3>1
  <2>2. pos(p) \in Nat /\ pos(q) \in Nat
    BY <1>2
  <2>3. pos(p) = pos(q)
    BY <2>1, <2>2
  <2> QED
    BY <1>3, <2>3
<1>9. b \in [L -> 1..n]
  <2>1. DOMAIN b = L /\ b = [p \in L |-> b[p]]
    BY <1>4
  <2>2. \A p \in L : b[p] \in 1..n
    BY <1>4, <1>6
  <2> QED
    BY <2>1, <2>2
<1>10. b \in Surjection(L, 1..n)
  <2>1. b \in Injection(L, 1..n)
    BY <1>8, <1>9 DEF Injection, IsInjective, OneToOne
  <2>2. IsFiniteSet(1..n) /\ Cardinality(1..n) = n
    BY <1>1, FS_Interval
  <2>3. Cardinality(L) = Cardinality(1..n) <=> b \in Surjection(L, 1..n)
    BY <2>1, <2>2, FS_Injection
  <2> QED
    BY <1>41, <2>2, <2>3
<1> QED
  BY <1>8, <1>9, <1>10 DEF Surjection, L, n, b

-----------------------------------------------------------------------------
(* The shares *)

\* Shares of n people that add up to the amount, unless there is nobody.
Divides(shares, n, amount) ==
    /\ shares \in [1..n -> Nat]
    /\ n # 0 => SumOf(shares) = amount

\* Even shares.
LEMMA EvenAddUp ==
    ASSUME NEW amount \in Nat, NEW n \in Nat
    PROVE  /\ n # 0 => Divides(EvenShares(amount, n), n, amount)
           /\ n = 0 => EvenShares(amount, n) \in [1..n -> Nat]
           /\ n # 0 => \A i, j \in 1..n : EvenShares(amount, n)[i] - EvenShares(amount, n)[j] <= 1
<1> DEFINE shares == EvenShares(amount, n)
<1>1. CASE n = 0
  <2>1. 1..n = {}
    BY <1>1
  <2> QED
    BY <1>1, <2>1 DEF EvenShares
<1>2. CASE n # 0
  <2> DEFINE D == 1..n
             q == amount \div n
             r == amount % n
             R == 1..r
             one == [i \in D |-> 1]
             all == [i \in D |-> q * one[i]]
             rest == [i \in D |-> IF i \in R THEN 1 ELSE 0]
  <2>1. q \in Nat /\ r \in 0..(n - 1) /\ amount = q * n + r
    <3>1. amount \div n \in Int /\ amount % n \in 0..(n - 1)
          /\ amount = n * (amount \div n) + (amount % n)
      BY <1>2
    <3>2. amount \div n >= 0
      BY <1>2
    <3>3. n * q = q * n
      BY <3>1
    <3> QED
      BY <3>1, <3>2, <3>3
  <2>2. \A i \in D : shares[i] = q + (IF i \in R THEN 1 ELSE 0)
    <3> SUFFICES ASSUME NEW i \in D PROVE shares[i] = q + (IF i \in R THEN 1 ELSE 0)
      OBVIOUS
    <3>1. shares[i] = q + (IF i <= r THEN 1 ELSE 0)
      BY DEF EvenShares
    <3>2. i \in R <=> i <= r
      BY <2>1
    <3> HIDE DEF q, r
    <3> QED
      BY <3>1, <3>2
  <2>3. DOMAIN shares = D /\ shares = [i \in D |-> shares[i]]
    BY DEF EvenShares
  <2>6. IsFiniteSet(D) /\ Cardinality(D) = n /\ R \in SUBSET D /\ Cardinality(R) = r
    <3>1. IsFiniteSet(D) /\ Cardinality(D) = n
      BY FS_Interval
    <3>2. r \in Int /\ Cardinality(1..r) = IF 1 > r THEN 0 ELSE r - 1 + 1
      BY <2>1, FS_Interval
    <3> QED
      BY <2>1, <3>1, <3>2
  <2> HIDE DEF q, r, shares, D, R
  <2>4. \A i \in D : shares[i] \in Nat
    BY <2>1, <2>2
  <2>5. shares \in [D -> Nat] /\ shares \in [D -> Int]
    BY <2>3, <2>4
  <2>7. SumOf(one) = n
    <3>1. one \in [D -> Int] /\ \A i \in D : one[i] = IF i \in D THEN 1 ELSE 0
      OBVIOUS
    <3> HIDE DEF one
    <3>2. D \in SUBSET D
      OBVIOUS
    <3> QED
      BY <2>6, <3>1, <3>2, SumCount
  <2>8. one \in [D -> Int] /\ all \in [D -> Int] /\ \A i \in D : all[i] = q * one[i] /\ all[i] = q
    BY <2>1
  <2>9. rest \in [D -> Int] /\ \A i \in D : rest[i] = IF i \in R THEN 1 ELSE 0
    OBVIOUS
  <2> HIDE DEF one, all, rest
  <2>10. SumOf(all) = q * n
    <3>1. q \in Int /\ SumOf(all) = q * SumOf(one)
      BY <2>1, <2>6, <2>8, SumScale
    <3> QED
      BY <2>7, <3>1
  <2>11. SumOf(rest) = r
    BY <2>6, <2>9, SumCount
  <2>12. ASSUME NEW i \in D PROVE shares[i] = all[i] + rest[i]
    <3>1. all[i] = q /\ rest[i] = (IF i \in R THEN 1 ELSE 0)
      BY <2>8, <2>9
    <3> QED
      BY <2>2, <3>1
  <2>13. SumOf(shares) = SumOf(all) + SumOf(rest)
    <3>1. IsFiniteSet(D) /\ shares \in [D -> Int] /\ all \in [D -> Int] /\ rest \in [D -> Int]
      BY <2>5, <2>6, <2>8, <2>9
    <3>2. \A i \in D : shares[i] = all[i] + rest[i]
      BY <2>12
    <3> QED
      BY <3>1, <3>2, SumPlus
  <2>14. \A i, j \in D : shares[i] - shares[j] <= 1
    <3> SUFFICES ASSUME NEW i \in D, NEW j \in D PROVE shares[i] - shares[j] <= 1
      OBVIOUS
    <3>1. shares[i] \in {q, q + 1} /\ shares[j] \in {q, q + 1}
      BY <2>1, <2>2
    <3> QED
      BY <2>1, <3>1
  <2>15. SumOf(shares) = amount
    BY <2>1, <2>10, <2>11, <2>13
  <2> QED
    BY <1>2, <2>5, <2>14, <2>15 DEF Divides, shares, D
<1> QED
  BY <1>1, <1>2

\* Percentages of n people that make a whole.
Whole(pcts, n) == pcts \in [1..n -> 0..100] /\ SumOf(pcts) = 100

\* Shares by percentages that add up to 100.
LEMMA PercentagesAddUp ==
    ASSUME NEW amount \in Nat, NEW n \in Nat, NEW pcts, Whole(pcts, n)
    PROVE  Divides(PercentageShares(amount, pcts), n, amount)
<1> DEFINE D == 1..n
           down == [i \in D |-> (amount * pcts[i]) \div 100]
           left == amount - SumOf(down)
           shares == [down EXCEPT ![1] = @ + left]
           wide == [i \in D |-> amount * pcts[i]]
           rounded == [i \in D |-> 100 * down[i]]
<1>1. PercentageShares(amount, pcts) = shares
  <2>1. DOMAIN pcts = D
    BY DEF Whole
  <2> QED
    BY <2>1, Totals_ DEF PercentageShares
<1>2. IsFiniteSet(D)
  BY FS_Interval
<1>3. n # 0
  <2> SUFFICES ASSUME n = 0 PROVE FALSE
    OBVIOUS
  <2> DEFINE zero == [i \in {} |-> 0]
  <2>1. pcts = zero
    <3>1. D = {}
      OBVIOUS
    <3> QED
      BY <3>1 DEF Whole
  <2>2. SumOf(zero) = 0
    BY FS_EmptySet, SumZero
  <2> QED
    BY <2>1, <2>2 DEF Whole
<1>31. 1 \in D
  BY <1>3
<1>32. ASSUME NEW i \in D PROVE pcts[i] \in Nat /\ pcts[i] \in Int
  <2>1. pcts[i] \in 0..100
    BY DEF Whole
  <2>2. \A x \in 0..100 : x \in Nat /\ x \in Int
    OBVIOUS
  <2> HIDE DEF D
  <2> QED
    BY <2>1, <2>2
<1>33. pcts \in [D -> Int]
  <2>1. pcts = [i \in D |-> pcts[i]]
    BY DEF Whole
  <2> QED
    BY <1>32, <2>1
<1> HIDE DEF D
<1>4. ASSUME NEW i \in D
      PROVE  amount * pcts[i] \in Nat /\ down[i] \in Nat /\ 100 * down[i] <= amount * pcts[i]
  <2> DEFINE x == amount * pcts[i]
  <2>1. x \in Nat
    <3>1. pcts[i] \in Nat
      BY <1>32
    <3> QED
      BY <3>1
  <2>2. down[i] = x \div 100
    OBVIOUS
  <2> HIDE DEF x, down
  <2>3. x \div 100 \in Nat /\ 100 * (x \div 100) <= x
    BY <2>1
  <2> QED
    BY <2>1, <2>2, <2>3 DEF x
<1>5. /\ down \in [D -> Nat] /\ down \in [D -> Int]
      /\ wide \in [D -> Int] /\ rounded \in [D -> Int]
      /\ \A i \in D : wide[i] = amount * pcts[i] /\ rounded[i] = 100 * down[i]
  <2>1. DOMAIN down = D /\ down = [i \in D |-> down[i]]
    BY DEF down
  <2> HIDE DEF down
  <2> QED
    BY <1>4, <2>1
<1> HIDE DEF down, wide, rounded
<1>6. SumOf(wide) = amount * 100
  <2>1. amount \in Int /\ wide \in [D -> Int] /\ pcts \in [D -> Int] /\ \A i \in D : wide[i] = amount * pcts[i]
    BY <1>5, <1>33
  <2>2. SumOf(wide) = amount * SumOf(pcts)
    BY <1>2, <2>1, SumScale
  <2> QED
    BY <2>2 DEF Whole
<1>7. SumOf(rounded) = 100 * SumOf(down)
  <2> DEFINE c == 100
  <2>1. c \in Int /\ rounded \in [D -> Int] /\ down \in [D -> Int] /\ \A i \in D : rounded[i] = c * down[i]
    BY <1>5
  <2> HIDE DEF c
  <2>2. SumOf(rounded) = c * SumOf(down)
    BY <1>2, <2>1, SumScale
  <2> QED
    BY <2>2 DEF c
<1>8. SumOf(rounded) <= SumOf(wide)
  <2>1. \A i \in D : rounded[i] <= wide[i]
    BY <1>4, <1>5
  <2> QED
    BY <1>2, <1>5, <2>1, SumMonotone
<1>9. SumOf(down) \in Nat /\ left \in Nat
  <2>1. SumOf(down) \in Nat
    BY <1>2, <1>5, SumNat
  <2> QED
    BY <1>6, <1>7, <1>8, <2>1
<1>10. 1 \in D /\ down[1] \in Nat
  BY <1>31, <1>5
<1>11. shares \in [D -> Nat] /\ shares[1] = down[1] + left /\ SameBut(down, shares, D, 1)
  <2> HIDE DEF left
  <2> QED
    BY <1>5, <1>9, <1>10 DEF SameBut
<1> HIDE DEF shares
<1>12. shares \in [D -> Int]
  BY <1>11
<1>13. SumOf(shares) = SumOf(down) - down[1] + shares[1]
  <2>1. down \in [D -> Int] /\ 1 \in D /\ SameBut(down, shares, D, 1)
    BY <1>5, <1>10, <1>11
  <2> QED
    BY <1>2, <1>12, <2>1, SumUpdate
<1>14. SumOf(shares) = amount
  BY <1>9, <1>10, <1>11, <1>13
<1> QED
  BY <1>1, <1>11, <1>14 DEF Divides, D

\* What a request may say of the people of S.
Says(m, f, S) ==
    /\ m = "PERCENTAGE" => \A p \in S : f[p] \in 0..100
    /\ m = "MANUAL" => \A p \in S : f[p] \in Nat

\* Whatever the method, the shares add up.
LEMMA SharesAddUp ==
    ASSUME NEW S, IsFiniteSet(S), NEW m \in Methods, NEW amount \in Nat, NEW ask \in Orders(S), NEW f,
           Says(m, f, S), SharesValid(m, amount, ask, f),
           NEW n, n = Cardinality(S), NEW shares, shares = SharesOf(m, amount, ask, f)
    PROVE  /\ Divides(shares, n, amount)
           /\ m = "EVEN" => \A i, j \in 1..n : shares[i] - shares[j] <= 1
<1>1. ask \in [1..n -> S] /\ n \in Nat /\ Len(ask) = n /\ DOMAIN ask = 1..n
  BY OrderOf
<1>2. \A i \in 1..n : ask[i] \in S
  BY <1>1
<1>3. CASE m = "EVEN"
  <2>1. shares = EvenShares(amount, n)
    BY <1>1, <1>3 DEF SharesOf
  <2>2. /\ n # 0 => Divides(EvenShares(amount, n), n, amount)
        /\ n = 0 => EvenShares(amount, n) \in [1..n -> Nat]
        /\ n # 0 => \A i, j \in 1..n : EvenShares(amount, n)[i] - EvenShares(amount, n)[j] <= 1
    BY <1>1, EvenAddUp
  <2>3. CASE n = 0
    BY <2>1, <2>2, <2>3 DEF Divides
  <2>4. CASE n # 0
    BY <2>1, <2>2, <2>4
  <2> QED
    BY <2>3, <2>4
<1>4. CASE m = "PERCENTAGE"
  <2> DEFINE pcts == Asked(ask, f)
  <2>1. shares = PercentageShares(amount, pcts)
    BY <1>4 DEF SharesOf
  <2>2. pcts \in [1..n -> 0..100]
    BY <1>1, <1>2, <1>4 DEF Asked, Says
  <2>3. SumOf(pcts) = 100
    BY <1>4, Totals_ DEF SharesValid
  <2> HIDE DEF pcts
  <2> QED
    BY <1>1, <1>4, <2>1, <2>2, <2>3, PercentagesAddUp DEF Whole
<1>5. CASE m = "MANUAL"
  <2> DEFINE amounts == Asked(ask, f)
  <2>1. shares = amounts
    BY <1>5 DEF SharesOf
  <2>2. amounts \in [1..n -> Nat]
    BY <1>1, <1>2, <1>5 DEF Asked, Says
  <2>3. SumOf(amounts) = amount
    BY <1>5, Totals_ DEF SharesValid
  <2> QED
    BY <1>5, <2>1, <2>2, <2>3 DEF Divides
<1> QED
  BY <1>3, <1>4, <1>5, MethodsAssumption

-----------------------------------------------------------------------------
(* The rows *)

OwedBy(rs) == SumOf([p \in Live(rs) |-> rs[p].owed])
PaidBy(rs) == SumOf([p \in Live(rs) |-> rs[p].paid])
Remains(rs) == \A p \in Live(rs) : rs[p].remaining = OrZero(rs[p].owed - rs[p].paid)
Fair(rs) == \A p, q \in Live(rs) : rs[p].owed - rs[q].owed <= 1

\* Other shares, but the same people with the same payments.
Recounted(rs, new) ==
    /\ new \in [People -> Figured] /\ Live(new) = Live(rs)
    /\ \A p \in People : new[p].state = rs[p].state /\ new[p].paid = rs[p].paid /\ new[p].pct = rs[p].pct

\* What remains is a number.
LEMMA OrZeroNat == \A k \in Int : OrZero(k) \in Nat
BY DEF OrZero

\* A row is given its share.
GivenShare(row, owed) ==
    [row EXCEPT !.owed = owed, !.remaining = OrZero(owed - row.paid), !.status = NewStatus(row, owed)]

\* It keeps the rest of the row.
LEMMA RowPaired ==
    ASSUME NEW row \in Figured, NEW owed \in Nat, NEW new, new = GivenShare(row, owed)
    PROVE  /\ new \in Figured /\ new.state = row.state /\ new.paid = row.paid /\ new.pct = row.pct
           /\ new.owed = owed /\ new.remaining = OrZero(owed - row.paid)
<1> DEFINE left == OrZero(owed - row.paid)
           status == NewStatus(row, owed)
<1>1. left \in Nat
  <2>1. owed - row.paid \in Int
    BY DEF Figured
  <2> QED
    BY <2>1, OrZeroNat
<1>2. status \in SharesStatus
  <2>1. row.status \in SharesStatus
    BY DEF Figured
  <2> QED
    BY <2>1 DEF NewStatus, SharesStatus
<1>3. new = [row EXCEPT !.owed = owed, !.remaining = left, !.status = status]
  BY DEF GivenShare
<1> HIDE DEF left, status
<1> QED
  BY <1>1, <1>2, <1>3 DEF Figured, left

\* The shares go to the rows.
LEMMA Paired ==
    ASSUME NEW rs \in [People -> Figured], NEW ord, Sorted(rs, ord),
           NEW n, n = Cardinality(Live(rs)), NEW amount \in Nat,
           NEW shares, Divides(shares, n, amount), NEW new, new = Pair(rs, ord, shares)
    PROVE  /\ Recounted(rs, new) /\ Remains(new)
           /\ \A p \in Live(rs) : \E i \in 1..n : new[p].owed = shares[i]
           /\ Live(rs) # {} => OwedBy(new) = amount
<1> DEFINE L == Live(rs)
           b == Placing(rs, ord)
           D == 1..n
           owed == [p \in L |-> new[p].owed]
<1>1. L \in SUBSET People /\ IsFiniteSet(L) /\ n \in Nat /\ (n = 0 <=> L = {})
  BY LiveFinite
<1>2. b \in [L -> D] /\ OneToOne(b, L) /\ (\A i \in D : \E p \in L : b[p] = i)
  BY Places
<1>3. shares \in [D -> Nat] /\ (n # 0 => SumOf(shares) = amount)
  BY DEF Divides
<1>4. IsFiniteSet(D)
  BY <1>1, FS_Interval
<1>5. \A p \in L : b[p] = Place(rs, ord, p)
  BY DEF Placing
<1> HIDE DEF b, D
<1>6. \A p \in L : b[p] \in D /\ shares[b[p]] \in Nat
  BY <1>2, <1>3
<1>7. /\ DOMAIN new = People
      /\ \A p \in People \ L : new[p] = rs[p]
      /\ \A p \in L : new[p] = GivenShare(rs[p], shares[b[p]])
  BY <1>1, <1>5 DEF Pair, GivenShare
<1> HIDE DEF L
<1>8. ASSUME NEW p \in L
      PROVE  /\ new[p] \in Figured /\ new[p].state = rs[p].state /\ new[p].paid = rs[p].paid
             /\ new[p].pct = rs[p].pct /\ new[p].owed = shares[b[p]]
             /\ new[p].remaining = OrZero(new[p].owed - new[p].paid)
  <2> DEFINE row == rs[p]
             o == shares[b[p]]
  <2>1. row \in Figured /\ o \in Nat
    BY <1>1, <1>6
  <2>2. new[p] = GivenShare(row, o)
    BY <1>7
  <2> HIDE DEF row, o
  <2>3. /\ new[p] \in Figured /\ new[p].state = row.state /\ new[p].paid = row.paid
        /\ new[p].pct = row.pct /\ new[p].owed = o /\ new[p].remaining = OrZero(o - row.paid)
    BY <2>1, <2>2, RowPaired
  <2> QED
    BY <2>3 DEF row, o
<1>9. /\ new = [p \in People |-> new[p]]
      /\ \A p \in People : new[p] \in Figured /\ new[p].state = rs[p].state
                           /\ new[p].paid = rs[p].paid /\ new[p].pct = rs[p].pct
  <2>1. new = [p \in People |-> new[p]]
    BY <1>7 DEF Pair
  <2>2. ASSUME NEW p \in People \ L
        PROVE  new[p] \in Figured /\ new[p].state = rs[p].state
               /\ new[p].paid = rs[p].paid /\ new[p].pct = rs[p].pct
    BY <1>7, <2>2
  <2> QED
    BY <1>8, <2>1, <2>2
<1>10. Live(new) = L
  BY <1>9 DEF Live, L
<1>11. Recounted(rs, new)
  BY <1>9, <1>10 DEF Recounted, L
<1>12. Remains(new)
  BY <1>8, <1>10 DEF Remains
<1>13. \A p \in L : \E i \in D : new[p].owed = shares[i]
  BY <1>6, <1>8
<1>14. SumOf(owed) = SumOf(shares)
  <2>1. \A p \in L : owed[p] = shares[b[p]] /\ owed[p] \in Int
    BY <1>6, <1>8
  <2>2. owed \in [L -> Int] /\ shares \in [D -> Int]
    BY <1>3, <2>1
  <2> HIDE DEF owed
  <2>3. \A p \in L : owed[p] = shares[b[p]]
    BY <2>1
  <2> QED
    BY <1>1, <1>2, <1>4, <2>2, <2>3, SumBijection
<1>15. OwedBy(new) = SumOf(owed)
  BY <1>10 DEF OwedBy
<1> QED
  BY <1>1, <1>3, <1>11, <1>12, <1>13, <1>14, <1>15 DEF L, D

\* What the rows of a bill keep.
RowsInv(m, t, c, sk, rs, ord, n) ==
    /\ rs \in [People -> Figured] /\ Sorted(rs, ord)
    /\ (m # "none" /\ ~sk /\ Live(rs) # {}) => OwedBy(rs) = t
    /\ m = "EVEN" => Fair(rs)
    /\ Remains(rs)
    /\ c = PaidBy(rs)
    /\ Cardinality(Live(rs)) <= n
    /\ (m = "MANUAL" /\ Live(rs) = {}) => sk
    /\ m = "none" => rs = [p \in People |-> Absent] /\ c = 0

\* A change that computes the shares keeps it.
LEMMA RowsComputed ==
    ASSUME NEW rs \in [People -> Figured], NEW ord, Sorted(rs, ord),
           NEW m \in Methods, NEW amount \in Nat, NEW ask \in Orders(Live(rs)), NEW f, Says(m, f, Live(rs)),
           computeAndSaveShares(rs, ord, m, amount, ask, f),
           NEW n, Cardinality(Live(rs)) <= n, m = "MANUAL" => Live(rs) # {}
    PROVE  RowsInv(m, amount, PaidBy(rs), skewed', rows', ord, n) /\ skewed' = FALSE
<1> DEFINE k == Cardinality(Live(rs))
           shares == SharesOf(m, amount, ask, f)
<1>1. rows' = Pair(rs, ord, shares) /\ skewed' = FALSE /\ SharesValid(m, amount, ask, f)
  BY DEF computeAndSaveShares
<1>2. IsFiniteSet(Live(rs)) /\ k = Cardinality(Live(rs)) /\ shares = SharesOf(m, amount, ask, f)
  BY LiveFinite
<1> HIDE DEF k, shares
<1>3. Divides(shares, k, amount) /\ (m = "EVEN" => \A i, j \in 1..k : shares[i] - shares[j] <= 1)
  BY <1>1, <1>2, SharesAddUp
<1>4. /\ Recounted(rs, rows') /\ Remains(rows')
      /\ \A p \in Live(rs) : \E i \in 1..k : rows'[p].owed = shares[i]
      /\ Live(rs) # {} => OwedBy(rows') = amount
  BY <1>1, <1>2, <1>3, Paired
<1>5. m = "EVEN" => Fair(rows')
  <2>1. Live(rows') = Live(rs)
    BY <1>4 DEF Recounted
  <2> QED
    BY <1>3, <1>4, <2>1 DEF Fair
<1>6. Sorted(rows', ord)
  BY <1>4 DEF Recounted, Sorted
<1>7. PaidBy(rows') = PaidBy(rs)
  <2>1. [p \in Live(rows') |-> rows'[p].paid] = [p \in Live(rs) |-> rs[p].paid]
    <3>1. Live(rs) \in SUBSET People
      BY LiveFinite
    <3> QED
      BY <1>4, <3>1 DEF Recounted
  <2> QED
    BY <2>1 DEF PaidBy
<1>8. m # "none"
  BY MethodsAssumption
<1> QED
  BY <1>1, <1>2, <1>4, <1>5, <1>6, <1>7, <1>8 DEF RowsInv, Recounted

-----------------------------------------------------------------------------
(* The steps of the shares *)

BillTyped ==
    /\ method \in Methods \cup {"none"} /\ total \in Nat /\ collected \in Nat
    /\ billStatus \in {"active", "partially_paid", "funded"}
    /\ headcount \in Nat /\ skewed \in BOOLEAN /\ swapped \in BOOLEAN
    /\ edits \in 0..MaxEdits /\ moves \in 0..MaxMoves

SharesInv == BillTyped /\ RowsInv(method, total, collected, skewed, rows, order, headcount)

\* Nobody owes, nobody has paid.
LEMMA AbsentIs ==
    /\ Absent \in Figured /\ Absent.state = "none" /\ Absent.paid = 0
    /\ \A p \in People, pct \in 0..100 :
          /\ NewRow(p, pct) \in Figured /\ NewRow(p, pct).state = "live" /\ NewRow(p, pct).paid = 0
          /\ [NewRow(p, pct) EXCEPT !.status = "invited"] \in Figured
          /\ [NewRow(p, pct) EXCEPT !.status = "invited"].state = "live"
          /\ [NewRow(p, pct) EXCEPT !.status = "invited"].paid = 0
<1>1. Absent \in Figured /\ Absent.state = "none" /\ Absent.paid = 0
  BY DEF Absent, Figured, SharesStatus
<1>2. ASSUME NEW p \in People, NEW pct \in 0..100
      PROVE  /\ NewRow(p, pct) \in Figured /\ NewRow(p, pct).state = "live" /\ NewRow(p, pct).paid = 0
             /\ [NewRow(p, pct) EXCEPT !.status = "invited"] \in Figured
             /\ [NewRow(p, pct) EXCEPT !.status = "invited"].state = "live"
             /\ [NewRow(p, pct) EXCEPT !.status = "invited"].paid = 0
  BY DEF NewRow, Absent, Figured, SharesStatus
<1> QED
  BY <1>1, <1>2

\* Payments that are all zero.
LEMMA NonePaid ==
    ASSUME NEW rs, \A p \in Live(rs) : rs[p].paid = 0
    PROVE  PaidBy(rs) = 0
<1>1. [p \in Live(rs) |-> rs[p].paid] = [p \in Live(rs) |-> 0]
  OBVIOUS
<1>2. SumOf([p \in Live(rs) |-> 0]) = 0
  BY LiveFinite, SumZero
<1> QED
  BY <1>1, <1>2 DEF PaidBy

\* A bill that is not created yet.
LEMMA SharesInits == SharesInit => SharesInv
<1> SUFFICES ASSUME SharesInit PROVE SharesInv
  OBVIOUS
<1>1. BillTyped
  <2>1. /\ method = "none" /\ total = 0 /\ collected = 0 /\ billStatus = "active" /\ headcount = 0
        /\ skewed = FALSE /\ swapped = FALSE /\ edits = 0 /\ moves = 0
    BY DEF SharesInit
  <2>2. skewed \in BOOLEAN /\ swapped \in BOOLEAN
    BY <2>1
  <2>3. edits \in 0..MaxEdits /\ moves \in 0..MaxMoves
    BY <2>1, BoundsAssumption
  <2>4. method \in Methods \cup {"none"} /\ total \in Nat /\ collected \in Nat /\ headcount \in Nat
        /\ billStatus \in {"active", "partially_paid", "funded"}
    BY <2>1
  <2> QED
    BY <2>2, <2>3, <2>4 DEF BillTyped
<1>2. /\ rows = [p \in People |-> Absent] /\ order = << >> /\ method = "none"
      /\ collected = 0 /\ headcount = 0
  BY DEF SharesInit
<1>3. rows \in [People -> Figured] /\ Live(rows) = {}
  BY <1>2, AbsentIs DEF Live
<1>4. Sorted(rows, order)
  <2>1. order \in Seq(People) /\ IsInjective(order) /\ ToSet(order) = {}
    BY <1>2 DEF IsInjective, ToSet
  <2> QED
    BY <1>2, <2>1, AbsentIs DEF Sorted
<1>5. PaidBy(rows) = 0
  BY <1>3, NonePaid
<1>6. Cardinality(Live(rows)) = 0
  BY <1>3, FS_EmptySet
<1> QED
  BY <1>1, <1>2, <1>3, <1>4, <1>5, <1>6 DEF SharesInv, RowsInv, Remains, Fair

\* What a request says is what may be said.
LEMMA RequestIs ==
    ASSUME NEW m \in Methods, NEW S, IsFiniteSet(S), NEW amount, NEW f \in ValidFigures(m, amount, S)
    PROVE  /\ Says(m, f, S) /\ \A p \in S : Pct(m, f, p) \in 0..100
           /\ Requested(m, S) \in SUBSET Orders(S)
           /\ SharesValid(m, amount, SetToSeq(S), f) /\ DOMAIN f = S
<1>1. f \in Figures(m, S) /\ SharesValid(m, amount, SetToSeq(S), f)
  BY DEF ValidFigures
<1>2. Requested(m, S) \in SUBSET Orders(S)
  BY SomeOrder DEF Requested
<1>3. CASE m = "EVEN"
  <2>1. f \in [S -> {0}]
    BY <1>1, <1>3 DEF Figures
  <2> QED
    BY <1>1, <1>2, <1>3, <2>1 DEF Says, Pct
<1>4. CASE m = "PERCENTAGE"
  <2>1. f \in [S -> Percentages]
    BY <1>1, <1>4 DEF Figures
  <2> QED
    BY <1>1, <1>2, <1>4, <2>1, AmountsAssumption DEF Says, Pct
<1>5. CASE m = "MANUAL"
  <2>1. f \in [S -> Shares]
    BY <1>1, <1>5 DEF Figures
  <2> QED
    <3>1. \A p \in S : f[p] \in Nat /\ Pct(m, f, p) = 0
      BY <1>5, <2>1, AmountsAssumption DEF Pct
    <3>2. \A p \in S : Pct(m, f, p) \in 0..100
      BY <3>1
    <3>3. Says(m, f, S) /\ DOMAIN f = S
      BY <1>5, <2>1, <3>1 DEF Says
    <3> QED
      BY <1>1, <1>2, <3>2, <3>3
<1> QED
  BY <1>3, <1>4, <1>5, MethodsAssumption

\* createBill.
LEMMA SharesCreate ==
    ASSUME SharesInv, createBill
    PROVE  SharesInv'
<1>1. PICK m \in Methods, amount \in Totals, S \in SUBSET People :
        /\ Owner \in S
        /\ \E ask \in Requested(m, S), ord \in Orders(S), f \in ValidFigures(m, amount, S) :
             /\ order' = ord
             /\ computeAndSaveShares([p \in People |-> IF p \in S THEN NewRow(p, Pct(m, f, p)) ELSE Absent],
                                     ord, m, amount, ask, f)
             /\ swapped' = (m = "MANUAL" /\ \E p \in S : rows'[p].owed # f[p])
        /\ method' = m /\ total' = amount /\ headcount' = Cardinality(S)
  BY DEF createBill
<1>2. PICK ask \in Requested(m, S), ord \in Orders(S), f \in ValidFigures(m, amount, S) :
        /\ order' = ord
        /\ computeAndSaveShares([p \in People |-> IF p \in S THEN NewRow(p, Pct(m, f, p)) ELSE Absent],
                                ord, m, amount, ask, f)
        /\ swapped' = (m = "MANUAL" /\ \E p \in S : rows'[p].owed # f[p])
  BY <1>1
<1> DEFINE rs == [p \in People |-> IF p \in S THEN NewRow(p, Pct(m, f, p)) ELSE Absent]
<1>3. /\ method = "none" /\ edits < MaxEdits /\ edits' = edits + 1
      /\ UNCHANGED <<moves, collected, billStatus>>
  BY DEF createBill, Edit
<1>4. IsFiniteSet(S) /\ Cardinality(S) \in Nat /\ amount \in Nat
  BY FS_Subset, FS_CardinalityType, PeopleAssumption, AmountsAssumption
<1>5. /\ Says(m, f, S) /\ (\A p \in S : Pct(m, f, p) \in 0..100) /\ ask \in Orders(S)
  BY <1>4, RequestIs
<1>6. rs \in [People -> Figured] /\ Live(rs) = S
      /\ \A p \in People : rs[p].paid = 0 /\ (p \in S <=> rs[p].state # "none")
  <2>1. \A p \in S : /\ NewRow(p, Pct(m, f, p)) \in Figured /\ NewRow(p, Pct(m, f, p)).state = "live"
                     /\ NewRow(p, Pct(m, f, p)).paid = 0
    BY <1>5, AbsentIs
  <2>2. \A p \in People : /\ rs[p] \in Figured /\ rs[p].paid = 0
                          /\ rs[p].state = IF p \in S THEN "live" ELSE "none"
    BY <2>1, AbsentIs
  <2>3. rs \in [People -> Figured]
    BY <2>2
  <2> HIDE DEF rs
  <2> QED
    BY <2>2, <2>3 DEF Live
<1>7. computeAndSaveShares(rs, ord, m, amount, ask, f)
  BY <1>2
<1> HIDE DEF rs
<1>8. Sorted(rs, ord)
  <2>1. ord \in Seq(S) /\ IsInjective(ord) /\ ToSet(ord) = S
    BY <1>4, OrderOf
  <2>2. ord \in Seq(People)
    BY <2>1
  <2> QED
    BY <1>6, <2>1, <2>2 DEF Sorted
<1>9. RowsInv(m, amount, PaidBy(rs), skewed', rows', ord, Cardinality(S)) /\ skewed' = FALSE
  <2>1. Cardinality(Live(rs)) <= Cardinality(S) /\ Live(rs) # {} /\ Says(m, f, Live(rs))
        /\ ask \in Orders(Live(rs))
    BY <1>1, <1>4, <1>5, <1>6
  <2> QED
    BY <1>4, <1>6, <1>7, <1>8, <2>1, RowsComputed
<1>10. PaidBy(rs) = 0 /\ collected = 0
  <2>1. PaidBy(rs) = 0
    BY <1>6, NonePaid DEF Live
  <2> QED
    BY <1>3, <2>1 DEF SharesInv, RowsInv
<1>11. BillTyped'
  <2>1. swapped' \in BOOLEAN
    BY <1>2
  <2>2. /\ method' \in Methods /\ total' \in Nat /\ headcount' \in Nat /\ skewed' \in BOOLEAN
    BY <1>1, <1>4, <1>9
  <2>3. collected' \in Nat /\ edits' \in 0..MaxEdits /\ moves' \in 0..MaxMoves
        /\ billStatus' \in {"active", "partially_paid", "funded"}
    BY <1>3, BoundsAssumption DEF SharesInv, BillTyped
  <2> QED
    BY <2>1, <2>2, <2>3 DEF BillTyped
<1> QED
  BY <1>1, <1>2, <1>3, <1>9, <1>10, <1>11 DEF SharesInv

\* An order and one of the others after it.
LEMMA OrderGrows ==
    ASSUME NEW ord \in Seq(People), IsInjective(ord), NEW S \in SUBSET People,
           NEW added \in Orders(S \ ToSet(ord)), NEW new, new = ord \o added
    PROVE  new \in Seq(People) /\ IsInjective(new) /\ ToSet(new) = ToSet(ord) \cup S
<1> DEFINE T == S \ ToSet(ord)
           k == Len(ord)
           l == Len(added)
<1>1. IsFiniteSet(T) /\ T \in SUBSET People
  BY FS_Subset, PeopleAssumption
<1>2. added \in Seq(T) /\ IsInjective(added) /\ ToSet(added) = T
  BY <1>1, OrderOf
<1>3. added \in Seq(People) /\ k \in Nat /\ l \in Nat /\ DOMAIN ord = 1..k /\ DOMAIN added = 1..l
  BY <1>1, <1>2
<1>4. /\ new \in Seq(People) /\ Len(new) = k + l /\ DOMAIN new = 1..(k + l)
      /\ \A i \in 1..(k + l) : new[i] = IF i <= k THEN ord[i] ELSE added[i - k]
  BY <1>3
<1>5. /\ \A i \in 1..k : ord[i] \in ToSet(ord)
      /\ \A i \in 1..l : added[i] \in T
      /\ \A q \in ToSet(ord) : \E i \in 1..k : ord[i] = q
      /\ \A q \in T : \E i \in 1..l : added[i] = q
  BY <1>2, <1>3 DEF ToSet
<1>6. /\ \A i, j \in 1..k : ord[i] = ord[j] => i = j
      /\ \A i, j \in 1..l : added[i] = added[j] => i = j
  BY <1>2, <1>3 DEF IsInjective
<1>7. T \cap ToSet(ord) = {} /\ T \cup ToSet(ord) = ToSet(ord) \cup S
  OBVIOUS
<1> HIDE DEF T, k, l
<1>8. IsInjective(new)
  <2> SUFFICES ASSUME NEW i \in 1..(k + l), NEW j \in 1..(k + l), new[i] = new[j] PROVE i = j
    BY <1>4 DEF IsInjective
  <2>1. CASE i <= k /\ j <= k
    <3>1. i \in 1..k /\ j \in 1..k
      BY <1>3, <2>1
    <3> QED
      BY <1>4, <1>6, <2>1, <3>1
  <2>2. CASE i <= k /\ ~(j <= k)
    <3>1. i \in 1..k /\ j - k \in 1..l
      BY <1>3, <2>2
    <3> QED
      BY <1>4, <1>5, <1>7, <2>2, <3>1
  <2>3. CASE ~(i <= k) /\ j <= k
    <3>1. j \in 1..k /\ i - k \in 1..l
      BY <1>3, <2>3
    <3> QED
      BY <1>4, <1>5, <1>7, <2>3, <3>1
  <2>4. CASE ~(i <= k) /\ ~(j <= k)
    <3>1. i - k \in 1..l /\ j - k \in 1..l
      BY <1>3, <2>4
    <3>2. i - k = j - k
      BY <1>4, <1>6, <2>4, <3>1
    <3> QED
      BY <1>3, <3>2
  <2> QED
    BY <2>1, <2>2, <2>3, <2>4
<1>9. ToSet(new) = ToSet(ord) \cup T
  <2>1. ASSUME NEW i \in 1..(k + l) PROVE new[i] \in ToSet(ord) \cup T
    <3>1. CASE i <= k
      <4>1. i \in 1..k
        BY <1>3, <3>1
      <4> QED
        BY <1>4, <1>5, <3>1, <4>1
    <3>2. CASE ~(i <= k)
      <4>1. i - k \in 1..l
        BY <1>3, <3>2
      <4> QED
        BY <1>4, <1>5, <3>2, <4>1
    <3> QED
      BY <3>1, <3>2
  <2>2. ASSUME NEW q \in ToSet(ord) PROVE q \in ToSet(new)
    <3>1. PICK i \in 1..k : ord[i] = q
      BY <1>5
    <3>2. i \in 1..(k + l) /\ new[i] = q
      BY <1>3, <1>4, <3>1
    <3> QED
      BY <1>4, <3>2 DEF ToSet
  <2>3. ASSUME NEW q \in T PROVE q \in ToSet(new)
    <3>1. PICK i \in 1..l : added[i] = q
      BY <1>5
    <3>2. i + k \in 1..(k + l) /\ ~(i + k <= k) /\ (i + k) - k = i
      BY <1>3, <3>1
    <3>3. new[i + k] = q
      BY <1>4, <3>1, <3>2
    <3> QED
      BY <1>4, <3>2, <3>3 DEF ToSet
  <2>4. ToSet(new) = {new[i] : i \in 1..(k + l)}
    BY <1>4 DEF ToSet
  <2> QED
    BY <2>1, <2>2, <2>3, <2>4
<1> QED
  BY <1>4, <1>7, <1>8, <1>9 DEF T

\* One more person at the end.
LEMMA OrderAppends ==
    ASSUME NEW ord \in Seq(People), IsInjective(ord), NEW p \in People, p \notin ToSet(ord),
           NEW new, new = Append(ord, p)
    PROVE  new \in Seq(People) /\ IsInjective(new) /\ ToSet(new) = ToSet(ord) \cup {p}
<1> DEFINE k == Len(ord)
<1>1. k \in Nat /\ DOMAIN ord = 1..k
  OBVIOUS
<1>2. /\ new \in Seq(People) /\ Len(new) = k + 1 /\ DOMAIN new = 1..(k + 1)
      /\ \A i \in 1..k : new[i] = ord[i]
      /\ new[k + 1] = p
  OBVIOUS
<1>3. /\ \A i \in 1..k : ord[i] \in ToSet(ord)
      /\ \A q \in ToSet(ord) : \E i \in 1..k : ord[i] = q
      /\ \A i, j \in 1..k : ord[i] = ord[j] => i = j
  BY <1>1 DEF ToSet, IsInjective
<1> HIDE DEF k
<1>4. \A i \in 1..(k + 1) : i \in 1..k \/ i = k + 1
  BY <1>1
<1>5. k + 1 \in 1..(k + 1) /\ \A i \in 1..k : i \in 1..(k + 1)
  BY <1>1
<1>6. IsInjective(new)
  <2> SUFFICES ASSUME NEW i \in 1..(k + 1), NEW j \in 1..(k + 1), new[i] = new[j] PROVE i = j
    BY <1>2 DEF IsInjective
  <2>1. i \in 1..k \/ i = k + 1
    BY <1>4
  <2>2. j \in 1..k \/ j = k + 1
    BY <1>4
  <2> QED
    BY <1>2, <1>3, <2>1, <2>2
<1>7. ToSet(new) = ToSet(ord) \cup {p}
  <2>1. ToSet(new) = {new[i] : i \in 1..(k + 1)}
    BY <1>2 DEF ToSet
  <2>2. ASSUME NEW i \in 1..(k + 1) PROVE new[i] \in ToSet(ord) \cup {p}
    <3>1. i \in 1..k \/ i = k + 1
      BY <1>4
    <3> QED
      BY <1>2, <1>3, <3>1
  <2>3. ASSUME NEW q \in ToSet(ord) PROVE \E i \in 1..(k + 1) : new[i] = q
    BY <1>2, <1>3, <1>5
  <2> QED
    BY <1>2, <1>5, <2>1, <2>2, <2>3
<1> QED
  BY <1>2, <1>6, <1>7

\* The payments of the people who stay, those of the others being zero.
LEMMA SamePaid ==
    ASSUME NEW rs \in [People -> Figured], NEW new \in [People -> Figured],
           \A p \in Live(rs) : rs[p].paid = IF p \in Live(new) THEN new[p].paid ELSE 0,
           \A p \in Live(new) : p \notin Live(rs) => new[p].paid = 0
    PROVE  PaidBy(new) = PaidBy(rs)
<1> DEFINE A == Live(rs)
           B == Live(new)
           f == [p \in A |-> rs[p].paid]
           g == [p \in B |-> new[p].paid]
<1>1. A \in SUBSET People /\ IsFiniteSet(A) /\ B \in SUBSET People /\ IsFiniteSet(B)
  BY LiveFinite
<1>2. \A p \in People : rs[p].paid \in Nat /\ new[p].paid \in Nat
  BY DEF Figured
<1>3. f \in [A -> Int] /\ g \in [B -> Int]
  BY <1>1, <1>2
<1>4. /\ \A p \in A : f[p] = IF p \in B THEN g[p] ELSE 0
      /\ \A p \in B : p \notin A => g[p] = 0
  OBVIOUS
<1>5. PaidBy(rs) = SumOf(f) /\ PaidBy(new) = SumOf(g)
  BY DEF PaidBy
<1> HIDE DEF A, B, f, g
<1>6. SumOf(f) = SumOf(g)
  BY <1>1, <1>3, <1>4, SumSupport
<1> QED
  BY <1>5, <1>6

\* updateBill, where nobody is named.
LEMMA AmountsUpdated ==
    ASSUME SharesInv, NEW m \in Methods, NEW amount \in Nat, UpdateAmounts(m, amount)
    PROVE  RowsInv(m, amount, collected, skewed', rows', order', headcount') /\ skewed' = FALSE
<1>1. PICK ask \in Requested(m, Live(rows)) :
        computeAndSaveShares(rows, order, m, amount, ask, [p \in People |-> rows[p].pct])
  BY DEF UpdateAmounts
<1> DEFINE f == [p \in People |-> rows[p].pct]
<1>2. m # "MANUAL" /\ order' = order /\ headcount' = headcount
  BY DEF UpdateAmounts
<1>3. /\ rows \in [People -> Figured] /\ Sorted(rows, order) /\ collected = PaidBy(rows)
      /\ Cardinality(Live(rows)) <= headcount
  BY DEF SharesInv, RowsInv
<1>4. Says(m, f, Live(rows))
  <2>1. \A p \in People : f[p] \in 0..100
    BY <1>3 DEF Figured
  <2>2. Live(rows) \in SUBSET People
    BY LiveFinite
  <2> HIDE DEF f
  <2> QED
    BY <1>2, <2>1, <2>2 DEF Says
<1>5. ask \in Orders(Live(rows))
  BY LiveFinite, SomeOrder DEF Requested
<1>6. computeAndSaveShares(rows, order, m, amount, ask, f)
  BY <1>1
<1> HIDE DEF f
<1>7. RowsInv(m, amount, PaidBy(rows), skewed', rows', order, headcount) /\ skewed' = FALSE
  BY <1>2, <1>3, <1>4, <1>5, <1>6, RowsComputed
<1> QED
  BY <1>2, <1>3, <1>7

\* updateBill with a list, where the shares are computed.
LEMMA ListUpdated ==
    ASSUME SharesInv, method # "none", NEW m \in Methods, m # "MANUAL", NEW amount \in Nat,
           NEW S \in SUBSET People, S # {}, PaidStay(S), \A p \in S : rows[p].state # "removed",
           NEW f \in ValidFigures(m, amount, S), NEW added \in Orders(S \ ToSet(order)),
           NEW ask \in Requested(m, S),
           computeAndSaveShares(Relist(S, m, f), order \o added, m, amount, ask, f)
    PROVE  RowsInv(m, amount, collected, skewed', rows', order \o added, Cardinality(S))
           /\ skewed' = FALSE
<1> DEFINE rs == Relist(S, m, f)
           ord == order \o added
<1>1. /\ rows \in [People -> Figured] /\ Sorted(rows, order) /\ collected = PaidBy(rows)
  BY DEF SharesInv, RowsInv
<1>2. IsFiniteSet(S) /\ Cardinality(S) \in Nat
  BY FS_Subset, FS_CardinalityType, PeopleAssumption
<1>3. Says(m, f, S) /\ (\A p \in S : Pct(m, f, p) \in 0..100) /\ ask \in Orders(S)
  BY <1>2, RequestIs
<1>4. ASSUME NEW p \in People
      PROVE  /\ rs[p] \in Figured
             /\ rs[p].state = IF p \in S THEN "live" ELSE IF p \in Live(rows) THEN "removed" ELSE rows[p].state
             /\ p \in S => rs[p].paid = IF p \in Live(rows) THEN rows[p].paid ELSE 0
  <2>1. rows[p] \in Figured /\ (p \in Live(rows) <=> rows[p].state = "live")
    BY <1>1 DEF Live
  <2>2. CASE p \in S /\ p \in Live(rows)
    <3>1. rs[p] = IF m = "PERCENTAGE" THEN [rows[p] EXCEPT !.pct = f[p]] ELSE rows[p]
      BY <2>2 DEF Relist
    <3>2. m = "PERCENTAGE" => f[p] \in 0..100
      BY <1>3, <2>2 DEF Says
    <3> QED
      BY <2>1, <2>2, <3>1, <3>2 DEF Figured
  <2>3. CASE p \in S /\ p \notin Live(rows)
    <3>1. rs[p] = [NewRow(p, Pct(m, f, p)) EXCEPT !.status = "invited"]
      BY <2>3 DEF Relist
    <3> DEFINE c == Pct(m, f, p)
               row == [NewRow(p, c) EXCEPT !.status = "invited"]
    <3>2. c \in 0..100
      BY <1>3, <2>3
    <3>3. rs[p] = row
      BY <3>1
    <3> HIDE DEF c
    <3>4. row \in Figured /\ row.state = "live" /\ row.paid = 0
      BY <3>2, AbsentIs
    <3> HIDE DEF row
    <3> QED
      BY <2>3, <3>3, <3>4
  <2>4. CASE p \notin S /\ p \in Live(rows)
    <3>1. rs[p] = [rows[p] EXCEPT !.state = "removed"]
      BY <2>4 DEF Relist
    <3> QED
      BY <2>1, <2>4, <3>1 DEF Figured
  <2>5. CASE p \notin S /\ p \notin Live(rows)
    <3>1. rs[p] = rows[p]
      BY <2>5 DEF Relist
    <3> QED
      BY <2>1, <2>5, <3>1
  <2> QED
    BY <2>2, <2>3, <2>4, <2>5
<1>5. rs \in [People -> Figured]
  <2>1. DOMAIN rs = People /\ rs = [p \in People |-> rs[p]]
    BY DEF Relist
  <2> HIDE DEF rs
  <2> QED
    BY <1>4, <2>1
<1>6. computeAndSaveShares(rs, ord, m, amount, ask, f)
  OBVIOUS
<1> HIDE DEF rs
<1>7. Live(rs) = S
  BY <1>4 DEF Live
<1>8. Sorted(rs, ord)
  <2>1. ord \in Seq(People) /\ IsInjective(ord) /\ ToSet(ord) = ToSet(order) \cup S
    BY <1>1, OrderGrows DEF Sorted
  <2> HIDE DEF ord
  <2> QED
    BY <1>1, <1>4, <2>1 DEF Sorted, Live
<1>9. PaidBy(rs) = PaidBy(rows)
  <2>1. \A p \in Live(rows) : rows[p].paid = IF p \in Live(rs) THEN rs[p].paid ELSE 0
    <3> SUFFICES ASSUME NEW p \in Live(rows) PROVE rows[p].paid = IF p \in Live(rs) THEN rs[p].paid ELSE 0
      OBVIOUS
    <3>1. p \in People /\ rows[p].paid \in Nat
      BY <1>1 DEF Live, Figured
    <3>2. p \notin S => rows[p].paid = 0
      BY <3>1 DEF PaidStay
    <3> QED
      BY <1>4, <1>7, <3>1, <3>2
  <2>2. \A p \in Live(rs) : p \notin Live(rows) => rs[p].paid = 0
    BY <1>4, <1>7
  <2> QED
    BY <1>1, <1>5, <2>1, <2>2, SamePaid
<1>10. RowsInv(m, amount, PaidBy(rs), skewed', rows', ord, Cardinality(S)) /\ skewed' = FALSE
  <2>1. Cardinality(Live(rs)) <= Cardinality(S) /\ Live(rs) # {} /\ Says(m, f, Live(rs))
        /\ ask \in Orders(Live(rs))
    BY <1>2, <1>3, <1>7
  <2> HIDE DEF ord
  <2> QED
    BY <1>2, <1>5, <1>6, <1>8, <2>1, RowsComputed
<1> QED
  BY <1>1, <1>9, <1>10

\* What the request gives the people of S adds up to the bill, however it lists them.
LEMMA FiguresAddUp ==
    ASSUME NEW S, IsFiniteSet(S), NEW amount, NEW f, \A p \in S : f[p] \in Int,
           SharesValid("MANUAL", amount, SetToSeq(S), f)
    PROVE  SumOf([p \in S |-> f[p]]) = amount
<1> DEFINE n == Cardinality(S)
           D == 1..n
           b == SetToSeq(S)
           g == [p \in S |-> f[p]]
           h == Asked(b, f)
<1>1. /\ n \in Nat /\ b \in [D -> S] /\ OneToOne(b, D)
      /\ \A p \in S : \E i \in D : b[i] = p
  BY SomeOrder, OrderOf
<1>2. IsFiniteSet(D)
  BY <1>1, FS_Interval
<1>3. SumOf(h) = amount
  BY Totals_ DEF SharesValid
<1> HIDE DEF D, b
<1>4. g \in [S -> Int] /\ h \in [D -> Int] /\ \A i \in D : h[i] = g[b[i]]
  <2>1. \A i \in D : b[i] \in S /\ h[i] = f[b[i]]
    BY <1>1 DEF Asked
  <2>2. h = [i \in D |-> f[b[i]]]
    BY <1>1 DEF Asked
  <2> QED
    BY <2>1, <2>2
<1> HIDE DEF g, h
<1>5. SumOf(h) = SumOf(g)
  BY <1>1, <1>2, <1>4, SumBijection
<1> QED
  BY <1>3, <1>5 DEF g

\* A row is upserted.
Upserted(row, owed, paid, left) ==
    [row EXCEPT !.owed = owed, !.paid = paid, !.remaining = left, !.pct = 0]
UpsertedIs(new, row, owed, paid, left) ==
    /\ new \in Figured /\ new.state = row.state /\ new.owed = owed
    /\ new.paid = paid /\ new.remaining = left
FreshRow(kept) == [Absent EXCEPT !.status = "invited", !.state = kept]

\* A row that is written with amounts.
LEMMA RowUpserted ==
    ASSUME NEW row \in Figured, NEW owed \in Nat, NEW paid \in Nat, NEW left \in Nat
    PROVE  UpsertedIs(Upserted(row, owed, paid, left), row, owed, paid, left)
<1>1. 0 \in 0..100
  OBVIOUS
<1> QED
  BY <1>1 DEF Figured, Upserted, UpsertedIs

\* The row of somebody who had none, or whose row is deleted.
LEMMA RowFresh ==
    ASSUME NEW kept, kept \in {"none", "live", "removed"}, NEW new, new = FreshRow(kept)
    PROVE  new \in Figured /\ new.state = kept
<1>1. new = [state |-> kept, owed |-> 0, paid |-> 0, remaining |-> 0, pct |-> 0, status |-> "invited"]
  BY DEF FreshRow, Absent
<1>2. 0 \in 0..100 /\ "invited" \in SharesStatus
  BY DEF SharesStatus
<1> QED
  BY <1>1, <1>2 DEF Figured

\* updateBill with a list of amounts.
LEMMA ManualUpdated ==
    ASSUME SharesInv, NEW amount \in Nat, "MANUAL" \in Methods,
           NEW S \in SUBSET People, S # {}, PaidStay(S),
           NEW f \in ValidFigures("MANUAL", amount, S), NEW added \in Orders(S \ ToSet(order)),
           NEW rs, rs = UpsertManual(S, f)
    PROVE  RowsInv("MANUAL", amount, collected, \E p \in S : rows[p].state = "removed",
                   rs, order \o added, Cardinality(S))
<1> DEFINE ord == order \o added
           sk == \E p \in S : rows[p].state = "removed"
<1>1. /\ rows \in [People -> Figured] /\ Sorted(rows, order) /\ collected = PaidBy(rows)
  BY DEF SharesInv, RowsInv
<1>2. IsFiniteSet(S) /\ Cardinality(S) \in Nat
  BY FS_Subset, FS_CardinalityType, PeopleAssumption
<1>3. (\A p \in S : f[p] \in Nat) /\ SharesValid("MANUAL", amount, SetToSeq(S), f)
  BY <1>2, RequestIs DEF Says
<1>4. ASSUME NEW p \in People
      PROVE  /\ rs[p] \in Figured
             /\ rs[p].state = IF p \in S THEN IF rows[p].state = "removed" THEN "removed" ELSE "live"
                              ELSE IF p \in Live(rows) THEN "removed" ELSE rows[p].state
             /\ p \in S => /\ rs[p].paid = IF p \in Live(rows) THEN rows[p].paid ELSE 0
                           /\ rs[p].owed = f[p] /\ rs[p].remaining = OrZero(rs[p].owed - rs[p].paid)
  <2>1. rows[p] \in Figured /\ (p \in Live(rows) <=> rows[p].state = "live")
    BY <1>1 DEF Live
  <2>2. CASE p \in S
    <3> DEFINE paid == IF p \in Live(rows) THEN rows[p].paid ELSE 0
               kept == IF rows[p].state = "removed" THEN "removed" ELSE "live"
               fresh == FreshRow(kept)
               o == f[p]
               row == IF p \in Live(rows) THEN rows[p] ELSE fresh
               left == OrZero(o - paid)
    <3>1. rs[p] = Upserted(row, o, paid, left)
      BY <2>2 DEF UpsertManual, Upserted, FreshRow
    <3>2. fresh \in Figured /\ fresh.state = kept
      <4>1. kept \in {"none", "live", "removed"}
        OBVIOUS
      <4> HIDE DEF kept
      <4> QED
        BY <4>1, RowFresh
    <3> HIDE DEF fresh
    <3>3. row \in Figured /\ row.state = kept
      BY <2>1, <3>2
    <3>4. paid \in Nat /\ o \in Nat
      BY <1>3, <2>1, <2>2 DEF Figured
    <3> HIDE DEF row, paid, o, kept
    <3>5. left \in Nat
      BY <3>4, OrZeroNat
    <3>6. left = OrZero(o - paid)
      OBVIOUS
    <3> HIDE DEF left
    <3>7. rs[p] \in Figured /\ rs[p].state = row.state /\ rs[p].owed = o /\ rs[p].paid = paid
          /\ rs[p].remaining = left
      <4>1. UpsertedIs(Upserted(row, o, paid, left), row, o, paid, left)
        BY <3>3, <3>4, <3>5, RowUpserted
      <4> QED
        BY <3>1, <4>1 DEF UpsertedIs
    <3> QED
      BY <2>2, <3>3, <3>6, <3>7 DEF paid, o, kept
  <2>3. CASE p \notin S /\ p \in Live(rows)
    <3>1. rs[p] = [rows[p] EXCEPT !.state = "removed"]
      BY <2>3 DEF UpsertManual
    <3> QED
      BY <2>1, <2>3, <3>1 DEF Figured
  <2>4. CASE p \notin S /\ p \notin Live(rows)
    <3>1. rs[p] = rows[p]
      BY <2>4 DEF UpsertManual
    <3> QED
      BY <2>1, <2>4, <3>1
  <2> QED
    BY <2>2, <2>3, <2>4
<1>5. rs \in [People -> Figured]
  <2>1. DOMAIN rs = People /\ rs = [p \in People |-> rs[p]]
    BY DEF UpsertManual
  <2> QED
    BY <1>4, <2>1
<1>6. Live(rs) = {p \in S : rows[p].state # "removed"}
  BY <1>4 DEF Live
<1>7. Sorted(rs, ord)
  <2>1. ord \in Seq(People) /\ IsInjective(ord) /\ ToSet(ord) = ToSet(order) \cup S
    BY <1>1, OrderGrows DEF Sorted
  <2> HIDE DEF ord
  <2> QED
    BY <1>1, <1>4, <2>1 DEF Sorted, Live
<1>8. PaidBy(rs) = PaidBy(rows)
  <2>1. \A p \in Live(rows) : rows[p].paid = IF p \in Live(rs) THEN rs[p].paid ELSE 0
    <3> SUFFICES ASSUME NEW p \in Live(rows) PROVE rows[p].paid = IF p \in Live(rs) THEN rs[p].paid ELSE 0
      OBVIOUS
    <3>1. p \in People /\ rows[p].paid \in Nat /\ rows[p].state = "live"
      BY <1>1 DEF Live, Figured
    <3>2. p \notin S => rows[p].paid = 0
      BY <3>1 DEF PaidStay
    <3> QED
      BY <1>4, <1>6, <3>1, <3>2
  <2>2. \A p \in Live(rs) : p \notin Live(rows) => rs[p].paid = 0
    BY <1>4, <1>6
  <2> QED
    BY <1>1, <1>5, <2>1, <2>2, SamePaid
<1>9. ~sk => OwedBy(rs) = amount
  <2> SUFFICES ASSUME ~sk PROVE OwedBy(rs) = amount
    OBVIOUS
  <2>1. Live(rs) = S
    BY <1>6
  <2>2. [p \in Live(rs) |-> rs[p].owed] = [p \in S |-> f[p]]
    BY <1>4, <2>1
  <2>3. SumOf([p \in S |-> f[p]]) = amount
    BY <1>2, <1>3, FiguresAddUp
  <2> QED
    BY <2>2, <2>3 DEF OwedBy
<1>10. Remains(rs)
  BY <1>4, <1>6 DEF Remains
<1>11. Cardinality(Live(rs)) <= Cardinality(S)
  BY <1>2, <1>6, FS_Subset
<1>12. Live(rs) = {} => sk
  BY <1>6
<1> HIDE DEF sk
<1>13. RowsInv("MANUAL", amount, collected, sk, rs, ord, Cardinality(S))
  BY <1>1, <1>5, <1>7, <1>8, <1>9, <1>10, <1>11, <1>12 DEF RowsInv
<1> QED
  BY <1>13 DEF sk

\* A change of the bill keeps the shapes.
LEMMA EditTyped ==
    ASSUME BillTyped, Edit, method' \in Methods, total' \in Nat, headcount' \in Nat,
           skewed' \in BOOLEAN, swapped' \in BOOLEAN, UNCHANGED <<collected, billStatus>>
    PROVE  BillTyped'
<1>1. edits' \in 0..MaxEdits /\ moves' \in 0..MaxMoves
  BY BoundsAssumption DEF BillTyped, Edit
<1>2. collected' \in Nat /\ billStatus' \in {"active", "partially_paid", "funded"}
  BY DEF BillTyped
<1> QED
  BY <1>1, <1>2 DEF BillTyped

\* updateBill.
LEMMA SharesUpdate ==
    ASSUME SharesInv, updateBill
    PROVE  SharesInv'
<1>1. PICK m \in Methods, amount \in Totals :
        /\ method' = m /\ total' = amount
        /\ UpdateAmounts(m, amount) \/ \E S \in SUBSET People : UpdateParticipants(m, amount, S)
  BY DEF updateBill
<1>2. method # "none" /\ Edit /\ UNCHANGED <<collected, billStatus, swapped>>
  BY DEF updateBill
<1>3. amount \in Nat
  BY AmountsAssumption
<1>4. BillTyped /\ swapped' \in BOOLEAN
  BY <1>2 DEF SharesInv, BillTyped
<1>5. CASE UpdateAmounts(m, amount)
  <2>1. RowsInv(m, amount, collected, skewed', rows', order', headcount') /\ skewed' = FALSE
    BY <1>3, <1>5, AmountsUpdated
  <2>2. skewed' \in BOOLEAN /\ headcount' \in Nat
    BY <1>4, <1>5, <2>1 DEF UpdateAmounts, BillTyped
  <2>3. BillTyped'
    BY <1>1, <1>2, <1>3, <1>4, <2>2, EditTyped
  <2> QED
    BY <1>1, <1>2, <2>1, <2>3 DEF SharesInv
<1>6. ASSUME NEW S \in SUBSET People, UpdateParticipants(m, amount, S) PROVE SharesInv'
  <2>1. PICK f \in ValidFigures(m, amount, S), added \in Orders(S \ ToSet(order)) :
           /\ order' = order \o added
           /\ IF m = "MANUAL"
              THEN /\ rows' = UpsertManual(S, f)
                   /\ skewed' = \E p \in S : rows[p].state = "removed"
              ELSE /\ \A p \in S : rows[p].state # "removed"
                   /\ \E ask \in Requested(m, S) :
                        computeAndSaveShares(Relist(S, m, f), order \o added, m, amount, ask, f)
    BY <1>6 DEF UpdateParticipants
  <2>2. S # {} /\ PaidStay(S) /\ headcount' = Cardinality(S)
    BY <1>6 DEF UpdateParticipants
  <2>3. Cardinality(S) \in Nat
    BY FS_Subset, FS_CardinalityType, PeopleAssumption
  <2>4. CASE m = "MANUAL"
    <3> DEFINE sk == \E p \in S : rows[p].state = "removed"
    <3>1. rows' = UpsertManual(S, f) /\ skewed' = sk
      BY <2>1, <2>4
    <3>2. "MANUAL" \in Methods /\ f \in ValidFigures("MANUAL", amount, S)
      BY <2>4
    <3>3. RowsInv("MANUAL", amount, collected, sk, rows', order \o added, Cardinality(S))
      BY <1>3, <2>2, <3>1, <3>2, ManualUpdated
    <3>4. sk \in BOOLEAN
      OBVIOUS
    <3> HIDE DEF sk
    <3>5. skewed' \in BOOLEAN
      BY <3>1, <3>4
    <3>6. BillTyped'
      BY <1>1, <1>2, <1>3, <1>4, <2>2, <2>3, <3>5, EditTyped
    <3>7. RowsInv(method', total', collected', skewed', rows', order', headcount')
      BY <1>1, <1>2, <2>1, <2>2, <2>4, <3>1, <3>3
    <3> QED
      BY <3>6, <3>7 DEF SharesInv
  <2>5. CASE m # "MANUAL"
    <3>1. PICK ask \in Requested(m, S) :
             computeAndSaveShares(Relist(S, m, f), order \o added, m, amount, ask, f)
      BY <2>1, <2>5
    <3>2. \A p \in S : rows[p].state # "removed"
      BY <2>1, <2>5
    <3>3. RowsInv(m, amount, collected, skewed', rows', order \o added, Cardinality(S)) /\ skewed' = FALSE
      BY <1>2, <1>3, <2>2, <2>5, <3>1, <3>2, ListUpdated
    <3>4. skewed' \in BOOLEAN
      BY <3>3
    <3>5. BillTyped'
      BY <1>1, <1>2, <1>3, <1>4, <2>2, <2>3, <3>4, EditTyped
    <3>6. RowsInv(method', total', collected', skewed', rows', order', headcount')
      BY <1>1, <1>2, <2>1, <2>2, <3>3
    <3> QED
      BY <3>5, <3>6 DEF SharesInv
  <2> QED
    BY <2>4, <2>5
<1> QED
  BY <1>1, <1>5, <1>6

\* Somebody comes on the bill, whose row the others' rows did not depend on.
LEMMA Joined ==
    ASSUME SharesInv, NEW p \in People, rows[p].state = "none",
           NEW rs \in [People -> Figured], rs[p].state = "live", rs[p].paid = 0,
           \A q \in People \ {p} : rs[q].state = rows[q].state /\ rs[q].paid = rows[q].paid
    PROVE  /\ p \notin Live(rows) /\ Live(rs) = Live(rows) \cup {p}
           /\ Sorted(rs, Append(order, p))
           /\ PaidBy(rs) = collected
           /\ Cardinality(Live(rs)) <= headcount + 1
<1>1. /\ rows \in [People -> Figured] /\ Sorted(rows, order) /\ collected = PaidBy(rows)
      /\ Cardinality(Live(rows)) <= headcount /\ headcount \in Nat
  BY DEF SharesInv, RowsInv, BillTyped
<1>2. p \notin Live(rows) /\ Live(rs) = Live(rows) \cup {p}
  BY DEF Live
<1>3. Sorted(rs, Append(order, p))
  <2>1. p \notin ToSet(order)
    BY <1>1 DEF Sorted
  <2>2. LET new == Append(order, p)
        IN new \in Seq(People) /\ IsInjective(new) /\ ToSet(new) = ToSet(order) \cup {p}
    BY <1>1, <2>1, OrderAppends DEF Sorted
  <2> DEFINE new == Append(order, p)
  <2>3. new \in Seq(People) /\ IsInjective(new) /\ ToSet(new) = ToSet(order) \cup {p}
    BY <2>2
  <2> HIDE DEF new
  <2>4. Sorted(rs, new)
    <3>1. \A q \in People : q \in ToSet(order) <=> rows[q].state # "none"
      BY <1>1 DEF Sorted
    <3>2. \A q \in People : q \in ToSet(new) <=> rs[q].state # "none"
      BY <2>3, <3>1
    <3> QED
      BY <2>3, <3>2 DEF Sorted
  <2> QED
    BY <2>4 DEF new
<1>4. PaidBy(rs) = PaidBy(rows)
  <2>1. \A q \in Live(rows) : rows[q].paid = IF q \in Live(rs) THEN rs[q].paid ELSE 0
    <3>1. Live(rows) \in SUBSET People
      BY LiveFinite
    <3> QED
      BY <1>2, <3>1
  <2>2. \A q \in Live(rs) : q \notin Live(rows) => rs[q].paid = 0
    BY <1>2
  <2> QED
    BY <1>1, <2>1, <2>2, SamePaid
<1>5. Cardinality(Live(rs)) <= headcount + 1
  <2>1. IsFiniteSet(Live(rows)) /\ Cardinality(Live(rows)) \in Nat
    BY LiveFinite
  <2>2. Cardinality(Live(rows) \cup {p}) = Cardinality(Live(rows)) + 1
    BY <1>2, <2>1, FS_AddElement
  <2> QED
    BY <1>1, <1>2, <2>1, <2>2
<1> QED
  BY <1>1, <1>2, <1>3, <1>4, <1>5

\* Somebody without payments leaves the bill, others stay.
LEMMA Left ==
    ASSUME SharesInv, NEW p \in Live(rows), rows[p].paid = 0, Cardinality(Live(rows)) > 1,
           NEW rs \in [People -> Figured], rs[p].state = "removed",
           \A q \in People \ {p} : rs[q].state = rows[q].state /\ rs[q].paid = rows[q].paid
    PROVE  /\ Live(rs) = Live(rows) \ {p} /\ Live(rs) # {}
           /\ Sorted(rs, order)
           /\ PaidBy(rs) = collected
           /\ Cardinality(Live(rs)) <= headcount - 1 /\ headcount - 1 \in Nat
<1>1. /\ rows \in [People -> Figured] /\ Sorted(rows, order) /\ collected = PaidBy(rows)
      /\ Cardinality(Live(rows)) <= headcount /\ headcount \in Nat
  BY DEF SharesInv, RowsInv, BillTyped
<1>2. p \in People /\ rows[p].state = "live" /\ Live(rs) = Live(rows) \ {p}
  BY DEF Live
<1>3. Sorted(rs, order)
  <2>1. order \in Seq(People) /\ IsInjective(order)
        /\ \A q \in People : q \in ToSet(order) <=> rows[q].state # "none"
    BY <1>1 DEF Sorted
  <2>2. \A q \in People : q \in ToSet(order) <=> rs[q].state # "none"
    BY <1>2, <2>1
  <2> QED
    BY <2>1, <2>2 DEF Sorted
<1>4. PaidBy(rs) = PaidBy(rows)
  <2>1. \A q \in Live(rows) : rows[q].paid = IF q \in Live(rs) THEN rs[q].paid ELSE 0
    <3>1. Live(rows) \in SUBSET People
      BY LiveFinite
    <3> QED
      BY <1>2, <3>1
  <2>2. \A q \in Live(rs) : q \notin Live(rows) => rs[q].paid = 0
    BY <1>2
  <2> QED
    BY <1>1, <2>1, <2>2, SamePaid
<1>5. Cardinality(Live(rs)) <= headcount - 1 /\ headcount - 1 \in Nat /\ Live(rs) # {}
  <2>1. IsFiniteSet(Live(rows)) /\ Cardinality(Live(rows)) \in Nat
    BY LiveFinite
  <2>2. Cardinality(Live(rows) \ {p}) = Cardinality(Live(rows)) - 1
    BY <2>1, FS_RemoveElement
  <2>3. Cardinality(Live(rs)) = Cardinality(Live(rows)) - 1
    BY <1>2, <2>2
  <2>4. Cardinality(Live(rs)) # 0
    BY <2>1, <2>3
  <2>5. Live(rs) # {}
    BY <2>4, FS_EmptySet
  <2> QED
    BY <1>1, <2>1, <2>3, <2>5
<1> QED
  BY <1>1, <1>2, <1>3, <1>4, <1>5

\* What a redistribution may say, of whom it names.
Given(f, Values) ==
    DOMAIN f \in SUBSET Live(rows) /\ f = [q \in DOMAIN f |-> f[q]] /\ \A q \in DOMAIN f : f[q] \in Values

\* The list of a redistribution says something of some of the people of S; when it
\* is complete what it says makes the sum.  No list says nothing.
LEMMA GivenList ==
    ASSUME NEW sum, NEW S \in SUBSET Live(rows), NEW V \in SUBSET Nat, NEW l,
           l \in Redistributions(S, V, sum) \/ l = NoList
    PROVE  /\ Given(l.last, V) /\ DOMAIN l.last \in SUBSET S
           /\ l # NoList => SumOf(l.last) + TotalOf(l.before) = sum
<1>1. CASE l = NoList
  <2>1. l.last = << >> /\ DOMAIN l.last = {}
    BY <1>1 DEF NoList
  <2> QED
    BY <1>1, <2>1 DEF Given
<1>2. CASE l \in Redistributions(S, V, sum)
  <2>1. PICK N \in (SUBSET S) \ {{}} :
          l \in [last : [N -> V], before : UNION {[M -> V] : M \in SUBSET N}]
    BY <1>2 DEF Redistributions
  <2>2. l.last \in [N -> V] /\ TotalOf(l.last) + TotalOf(l.before) = sum
    BY <1>2, <2>1 DEF Redistributions
  <2>3. DOMAIN l.last = N /\ \A q \in N : l.last[q] \in V
    BY <2>2
  <2> QED
    BY <2>1, <2>2, <2>3, Totals_ DEF Given
<1> QED
  BY <1>1, <1>2

\* The rows whose amounts a redistribution sets.
LEMMA AmountsGiven ==
    ASSUME SharesInv, NEW f, Given(f, Nat), NEW rs, rs = applyManualRedistribution(f)
    PROVE  /\ rs \in [People -> Figured]
           /\ \A q \in People : /\ rs[q].state = rows[q].state /\ rs[q].paid = rows[q].paid
                                /\ rs[q].owed = IF q \in DOMAIN f THEN f[q] ELSE rows[q].owed
                                /\ q \in Live(rows) => rs[q].remaining = OrZero(rs[q].owed - rs[q].paid)
<1>1. rows \in [People -> Figured] /\ Remains(rows)
  BY DEF SharesInv, RowsInv
<1>2. DOMAIN rs = People /\ rs = [q \in People |-> rs[q]]
  BY DEF applyManualRedistribution
<1>3. ASSUME NEW q \in People
      PROVE  /\ rs[q] \in Figured /\ rs[q].state = rows[q].state /\ rs[q].paid = rows[q].paid
             /\ rs[q].owed = IF q \in DOMAIN f THEN f[q] ELSE rows[q].owed
             /\ q \in Live(rows) => rs[q].remaining = OrZero(rs[q].owed - rs[q].paid)
  <2>1. rows[q] \in Figured
    BY <1>1
  <2>2. CASE q \in DOMAIN f
    <3> DEFINE o == f[q]
               left == OrZero(o - rows[q].paid)
    <3>1. o \in Nat
      BY <2>2 DEF Given
    <3>2. left \in Nat
      BY <2>1, <3>1, OrZeroNat DEF Figured
    <3>3. rs[q] = [rows[q] EXCEPT !.owed = o, !.remaining = left]
      BY <2>2 DEF applyManualRedistribution
    <3>4. left = OrZero(o - rows[q].paid)
      OBVIOUS
    <3> HIDE DEF left, o
    <3>5. rs[q] \in Figured /\ rs[q].state = rows[q].state /\ rs[q].paid = rows[q].paid
          /\ rs[q].owed = o /\ rs[q].remaining = left
      BY <2>1, <3>1, <3>2, <3>3 DEF Figured
    <3> QED
      BY <2>2, <3>4, <3>5 DEF o
  <2>3. CASE q \notin DOMAIN f
    <3>1. rs[q] = rows[q]
      BY <2>3 DEF applyManualRedistribution
    <3> QED
      BY <1>1, <2>1, <2>3, <3>1 DEF Remains
  <2> QED
    BY <2>2, <2>3
<1>4. rs \in [People -> Figured]
  BY <1>2, <1>3
<1> QED
  BY <1>3, <1>4

\* The rows whose percentages a redistribution sets.
LEMMA PercentagesGiven ==
    ASSUME SharesInv, NEW f, Given(f, 0..100), NEW rs, rs = applyPercentageRedistribution(f)
    PROVE  /\ rs \in [People -> Figured]
           /\ \A q \in People : /\ rs[q].state = rows[q].state /\ rs[q].paid = rows[q].paid
                                /\ rs[q].owed = rows[q].owed /\ rs[q].remaining = rows[q].remaining
<1>1. rows \in [People -> Figured]
  BY DEF SharesInv, RowsInv
<1>2. DOMAIN rs = People /\ rs = [q \in People |-> rs[q]]
  BY DEF applyPercentageRedistribution
<1>3. ASSUME NEW q \in People
      PROVE  /\ rs[q] \in Figured /\ rs[q].state = rows[q].state /\ rs[q].paid = rows[q].paid
             /\ rs[q].owed = rows[q].owed /\ rs[q].remaining = rows[q].remaining
  <2>1. rows[q] \in Figured
    BY <1>1
  <2>2. CASE q \in DOMAIN f
    <3> DEFINE o == f[q]
    <3>1. o \in 0..100
      BY <2>2 DEF Given
    <3>2. rs[q] = [rows[q] EXCEPT !.pct = o]
      BY <2>2 DEF applyPercentageRedistribution
    <3> HIDE DEF o
    <3> QED
      BY <2>1, <3>1, <3>2 DEF Figured
  <2>3. CASE q \notin DOMAIN f
    <3>1. rs[q] = rows[q]
      BY <2>3 DEF applyPercentageRedistribution
    <3> QED
      BY <2>1, <3>1
  <2> QED
    BY <2>2, <2>3
<1>4. rs \in [People -> Figured]
  BY <1>2, <1>3
<1> QED
  BY <1>3, <1>4

\* addParticipant with an amount.
LEMMA ManualAdded ==
    ASSUME SharesInv, method = "MANUAL", NEW p \in People, rows[p].state = "none", AddManual(p)
    PROVE  RowsInv("MANUAL", total, collected, skewed', rows', Append(order, p), headcount + 1)
           /\ skewed' \in BOOLEAN
<1>1. PICK amount \in Shares \ {0}, moved \in BOOLEAN :
       /\ moved = (amount > total - Owed(Live(rows)))
       /\ \E l \in (IF moved THEN Redistributions(Live(rows), Shares, total - amount) ELSE {NoList}) :
            /\ rows' = [applyManualRedistribution(l.last) EXCEPT
                          ![p] = [NewRow(p, 0) EXCEPT !.owed = amount, !.remaining = amount,
                                                      !.status = "invited"]]
            /\ skewed' = (skewed \/ (moved /\ ~Complete(l, Live(rows))))
  BY DEF AddManual
<1>2. PICK l \in (IF moved THEN Redistributions(Live(rows), Shares, total - amount) ELSE {NoList}) :
            /\ rows' = [applyManualRedistribution(l.last) EXCEPT
                          ![p] = [NewRow(p, 0) EXCEPT !.owed = amount, !.remaining = amount,
                                                      !.status = "invited"]]
            /\ skewed' = (skewed \/ (moved /\ ~Complete(l, Live(rows))))
  BY <1>1
<1> DEFINE f == l.last
           rs == applyManualRedistribution(f)
           row == [NewRow(p, 0) EXCEPT !.owed = amount, !.remaining = amount, !.status = "invited"]
           L == Live(rows)
<1>3. amount \in Nat /\ amount # 0
  BY AmountsAssumption
<1>4. Given(f, Nat) /\ DOMAIN f \in SUBSET Live(rows)
      /\ (l # NoList => SumOf(f) + TotalOf(l.before) = total - amount)
  <2>1. l \in Redistributions(Live(rows), Shares, total - amount) \/ l = NoList
    BY <1>2
  <2>2. Live(rows) \in SUBSET Live(rows) /\ Shares \in SUBSET Nat
    BY AmountsAssumption
  <2>3. Given(f, Shares) /\ DOMAIN f \in SUBSET Live(rows)
        /\ (l # NoList => SumOf(f) + TotalOf(l.before) = total - amount)
    BY <2>1, <2>2, GivenList
  <2> QED
    BY <2>2, <2>3 DEF Given
<1>5. /\ rs \in [People -> Figured]
      /\ \A q \in People : /\ rs[q].state = rows[q].state /\ rs[q].paid = rows[q].paid
                           /\ rs[q].owed = IF q \in DOMAIN f THEN f[q] ELSE rows[q].owed
                           /\ q \in Live(rows) => rs[q].remaining = OrZero(rs[q].owed - rs[q].paid)
  BY <1>4, AmountsGiven
<1>6. row \in Figured /\ row.state = "live" /\ row.owed = amount /\ row.paid = 0 /\ row.remaining = amount
  <2> DEFINE new == NewRow(p, 0)
  <2>1. new \in Figured /\ new.state = "live" /\ new.paid = 0
    <3>1. 0 \in 0..100
      OBVIOUS
    <3> QED
      BY <3>1, AbsentIs
  <2>2. row = [new EXCEPT !.owed = amount, !.remaining = amount, !.status = "invited"]
    OBVIOUS
  <2>3. "invited" \in SharesStatus
    BY DEF SharesStatus
  <2> HIDE DEF new, row
  <2> QED
    BY <1>3, <2>1, <2>2, <2>3 DEF Figured
<1>7. rows' = [rs EXCEPT ![p] = row]
  BY <1>2
<1>15. skewed' = (skewed \/ (moved /\ ~Complete(l, L))) /\ (l = NoList => DOMAIN f = {})
       /\ (Complete(l, L) => DOMAIN f = L /\ TotalOf(l.before) = 0)
  BY <1>2 DEF NoList, Complete
<1> HIDE DEF rs, row, f
<1>8. rows' \in [People -> Figured] /\ rows'[p] = row /\ \A q \in People \ {p} : rows'[q] = rs[q]
  BY <1>5, <1>6, <1>7
<1>9. /\ p \notin L /\ Live(rows') = L \cup {p}
      /\ Sorted(rows', Append(order, p)) /\ PaidBy(rows') = collected
      /\ Cardinality(Live(rows')) <= headcount + 1
  <2>1. rows'[p].state = "live" /\ rows'[p].paid = 0
        /\ \A q \in People \ {p} : rows'[q].state = rows[q].state /\ rows'[q].paid = rows[q].paid
    BY <1>5, <1>6, <1>8
  <2> QED
    BY <1>8, <2>1, Joined
<1>10. L \in SUBSET People /\ IsFiniteSet(L)
  BY LiveFinite
<1>11. Remains(rows')
  <2>1. OrZero(amount - 0) = amount
    BY <1>3 DEF OrZero
  <2>2. ASSUME NEW q \in L PROVE rows'[q].remaining = OrZero(rows'[q].owed - rows'[q].paid)
    BY <1>5, <1>8, <1>9, <1>10
  <2>3. rows'[p].remaining = OrZero(rows'[p].owed - rows'[p].paid)
    BY <1>6, <1>8, <2>1
  <2> QED
    BY <1>9, <2>2, <2>3 DEF Remains
<1>12. total \in Nat /\ skewed \in BOOLEAN
  BY DEF SharesInv, BillTyped
<1>13. skewed' \in BOOLEAN
  BY <1>2
<1>14. ~skewed' => OwedBy(rows') = total
  <2> SUFFICES ASSUME ~skewed' PROVE OwedBy(rows') = total
    OBVIOUS
  <2>1. ~skewed /\ (moved => Complete(l, L))
    BY <1>15
  <2>2. L # {} /\ OwedBy(rows) = total
    BY <2>1 DEF SharesInv, RowsInv
  <2>3. Owed(L) = OwedBy(rows)
    BY Totals_ DEF Owed, OwedBy
  <2>4. moved
    <3>1. amount > total - Owed(L)
      BY <1>3, <1>12, <2>2, <2>3
    <3> QED
      BY <1>1, <3>1
  <2>5. DOMAIN f = L /\ SumOf(f) = total - amount
    <3>1. DOMAIN f = L /\ TotalOf(l.before) = 0
      BY <1>15, <2>1, <2>4
    <3>2. SumOf(f) + 0 = total - amount
      BY <1>4, <1>15, <2>2, <3>1
    <3>3. SumOf(f) \in Int
      BY <1>4, <1>10, <3>1, SumType DEF Given
    <3> QED
      BY <1>3, <1>12, <3>1, <3>2, <3>3
  <2> DEFINE h == [q \in L \cup {p} |-> rows'[q].owed]
  <2>6. f \in [L -> Int]
    BY <1>4, <2>5 DEF Given
  <2>7. h \in [L \cup {p} -> Int] /\ (\A q \in L : h[q] = f[q]) /\ h[p] = amount
    <3>1. \A q \in L : q # p /\ rows'[q].owed = f[q]
      BY <1>5, <1>8, <1>9, <1>10, <2>5
    <3>2. rows'[p].owed = amount
      BY <1>6, <1>8
    <3> QED
      BY <1>3, <2>6, <3>1, <3>2
  <2>8. OwedBy(rows') = SumOf(h)
    BY <1>9 DEF OwedBy
  <2> HIDE DEF h, L
  <2>9. SumOf(h) = SumOf(f) + h[p]
    <3>1. IsFiniteSet(L)
      BY <1>10
    <3>2. OneMore(f, h, L, p)
      BY <1>9, <2>6, <2>7 DEF OneMore
    <3> QED
      BY <3>1, <3>2, SumInsert
  <2> QED
    BY <1>3, <1>12, <2>5, <2>7, <2>8, <2>9
<1>16. Live(rows') # {}
  BY <1>9
<1> QED
  BY <1>8, <1>9, <1>11, <1>13, <1>14, <1>16 DEF RowsInv

\* The row of somebody who is put on the bill, among the others' rows.
LEMMA GuestRow ==
    ASSUME NEW rs \in [People -> Figured], NEW p \in People, NEW pct \in 0..100,
           NEW new, new = [rs EXCEPT ![p] = [NewRow(p, pct) EXCEPT !.status = "invited"]]
    PROVE  /\ new \in [People -> Figured] /\ new[p].state = "live" /\ new[p].paid = 0
           /\ \A q \in People \ {p} : new[q] = rs[q]
<1> DEFINE row == [NewRow(p, pct) EXCEPT !.status = "invited"]
<1>1. row \in Figured /\ row.state = "live" /\ row.paid = 0
  BY AbsentIs
<1>2. new = [rs EXCEPT ![p] = row]
  OBVIOUS
<1> HIDE DEF row
<1> QED
  BY <1>1, <1>2

\* addParticipant with a percentage.
LEMMA PercentageAdded ==
    ASSUME SharesInv, method = "PERCENTAGE", method \in Methods, NEW p \in People,
           rows[p].state = "none", AddPercentage(p)
    PROVE  RowsInv(method, total, collected, skewed', rows', Append(order, p), headcount + 1)
           /\ skewed' \in BOOLEAN
<1>1. PICK pct \in Percentages \ {0} :
       \E l \in (IF PctSum(Live(rows)) + pct > 100
                 THEN Redistributions(Live(rows), Percentages, 100 - pct) ELSE {NoList}) :
       \E ask \in Orders(Live(rows) \cup {p}) :
          LET rs == [applyPercentageRedistribution(l.last) EXCEPT
                       ![p] = [NewRow(p, pct) EXCEPT !.status = "invited"]]
          IN computeAndSaveShares(rs, Append(order, p), method, total, ask, [q \in People |-> rs[q].pct])
  BY DEF AddPercentage
<1>2. PICK l \in (IF PctSum(Live(rows)) + pct > 100
                 THEN Redistributions(Live(rows), Percentages, 100 - pct) ELSE {NoList}) :
       \E ask \in Orders(Live(rows) \cup {p}) :
          LET rs == [applyPercentageRedistribution(l.last) EXCEPT
                       ![p] = [NewRow(p, pct) EXCEPT !.status = "invited"]]
          IN computeAndSaveShares(rs, Append(order, p), method, total, ask, [q \in People |-> rs[q].pct])
  BY <1>1
<1> DEFINE f == l.last
           given == applyPercentageRedistribution(f)
           rs == [given EXCEPT ![p] = [NewRow(p, pct) EXCEPT !.status = "invited"]]
           said == [q \in People |-> rs[q].pct]
<1>3. PICK ask \in Orders(Live(rows) \cup {p}) :
          computeAndSaveShares(rs, Append(order, p), method, total, ask, said)
  BY <1>2
<1>4. Given(f, 0..100)
  <2>1. l \in Redistributions(Live(rows), Percentages, 100 - pct) \/ l = NoList
    BY <1>2
  <2>2. Live(rows) \in SUBSET Live(rows) /\ Percentages \in SUBSET Nat /\ Percentages \subseteq 0..100
    BY AmountsAssumption
  <2>3. Given(f, Percentages)
    BY <2>1, <2>2, GivenList
  <2> QED
    BY <2>2, <2>3 DEF Given
<1>5. /\ given \in [People -> Figured]
      /\ \A q \in People : given[q].state = rows[q].state /\ given[q].paid = rows[q].paid
  BY <1>4, PercentagesGiven
<1>6. pct \in 0..100
  BY AmountsAssumption
<1> HIDE DEF given
<1>7. /\ rs \in [People -> Figured] /\ rs[p].state = "live" /\ rs[p].paid = 0
      /\ \A q \in People \ {p} : rs[q] = given[q]
  BY <1>5, <1>6, GuestRow
<1> HIDE DEF rs
<1>8. \A q \in People \ {p} : rs[q].state = rows[q].state /\ rs[q].paid = rows[q].paid
  BY <1>5, <1>7
<1>9. /\ p \notin Live(rows) /\ Live(rs) = Live(rows) \cup {p}
      /\ Sorted(rs, Append(order, p)) /\ PaidBy(rs) = collected
      /\ Cardinality(Live(rs)) <= headcount + 1
  BY <1>7, <1>8, Joined
<1>10. Says(method, said, Live(rs))
  <2>1. \A q \in People : said[q] \in 0..100
    BY <1>7 DEF Figured
  <2>2. Live(rs) \in SUBSET People
    BY LiveFinite
  <2> HIDE DEF said
  <2> QED
    BY <2>1, <2>2 DEF Says
<1>11. ask \in Orders(Live(rs)) /\ total \in Nat
  BY <1>9 DEF SharesInv, BillTyped
<1> HIDE DEF said
<1> DEFINE ord == Append(order, p)
           n == headcount + 1
<1>12. Cardinality(Live(rs)) <= n /\ Sorted(rs, ord) /\ computeAndSaveShares(rs, ord, method, total, ask, said)
  BY <1>3, <1>9
<1> HIDE DEF ord, n
<1>13. RowsInv(method, total, PaidBy(rs), skewed', rows', ord, n) /\ skewed' = FALSE
  BY <1>7, <1>10, <1>11, <1>12, RowsComputed
<1> QED
  BY <1>9, <1>13 DEF ord, n

\* addParticipant to an even split.
LEMMA EvenAdded ==
    ASSUME SharesInv, method = "EVEN", method \in Methods, NEW p \in People,
           rows[p].state = "none", AddEven(p)
    PROVE  RowsInv(method, total, collected, skewed', rows', Append(order, p), headcount + 1)
           /\ skewed' \in BOOLEAN
<1> DEFINE rs == [rows EXCEPT ![p] = [NewRow(p, 0) EXCEPT !.status = "invited"]]
           ask == SetToSeq(Live(rows) \cup {p})
           ord == Append(order, p)
           n == headcount + 1
<1>1. computeAndSaveShares(rs, ord, method, total, ask, << >>)
  BY DEF AddEven
<1>2. rows \in [People -> Figured] /\ total \in Nat /\ 0 \in 0..100
  BY DEF SharesInv, RowsInv, BillTyped
<1>3. /\ rs \in [People -> Figured] /\ rs[p].state = "live" /\ rs[p].paid = 0
      /\ \A q \in People \ {p} : rs[q] = rows[q]
  BY <1>2, GuestRow
<1> HIDE DEF rs
<1>4. \A q \in People \ {p} : rs[q].state = rows[q].state /\ rs[q].paid = rows[q].paid
  BY <1>3
<1>5. /\ Live(rs) = Live(rows) \cup {p}
      /\ Sorted(rs, ord) /\ PaidBy(rs) = collected
      /\ Cardinality(Live(rs)) <= n
  BY <1>3, <1>4, Joined
<1>6. ask \in Orders(Live(rs))
  BY <1>5, LiveFinite, SomeOrder
<1>7. Says(method, << >>, Live(rs))
  BY DEF Says
<1> HIDE DEF ask, ord, n
<1>8. RowsInv(method, total, PaidBy(rs), skewed', rows', ord, n) /\ skewed' = FALSE
  BY <1>1, <1>2, <1>3, <1>5, <1>6, <1>7, RowsComputed
<1> QED
  BY <1>5, <1>8 DEF ord, n

\* addParticipant.
LEMMA SharesAdd ==
    ASSUME SharesInv, addParticipant
    PROVE  SharesInv'
<1>1. PICK p \in People :
         /\ rows[p].state = "none"
         /\ \/ method = "MANUAL" /\ AddManual(p)
            \/ method = "PERCENTAGE" /\ AddPercentage(p)
            \/ method = "EVEN" /\ AddEven(p)
         /\ order' = Append(order, p)
  BY DEF addParticipant
<1>2. /\ method # "none" /\ Edit /\ headcount' = headcount + 1
      /\ UNCHANGED <<method, total, collected, billStatus, swapped>>
  BY DEF addParticipant
<1>3. BillTyped /\ method \in Methods /\ method' \in Methods /\ total' \in Nat /\ headcount' \in Nat
      /\ swapped' \in BOOLEAN /\ UNCHANGED <<collected, billStatus>>
  BY <1>2 DEF SharesInv, BillTyped
<1>4. RowsInv(method, total, collected, skewed', rows', Append(order, p), headcount + 1)
      /\ skewed' \in BOOLEAN
  <2>1. CASE method = "MANUAL" /\ AddManual(p)
    BY <1>1, <2>1, ManualAdded
  <2>2. CASE method = "PERCENTAGE" /\ AddPercentage(p)
    BY <1>1, <1>3, <2>2, PercentageAdded
  <2>3. CASE method = "EVEN" /\ AddEven(p)
    BY <1>1, <1>3, <2>3, EvenAdded
  <2> QED
    BY <1>1, <2>1, <2>2, <2>3
<1>5. BillTyped'
  BY <1>2, <1>3, <1>4, EditTyped
<1> QED
  BY <1>1, <1>2, <1>4, <1>5 DEF SharesInv

\* The rows after somebody's is deleted.
LEMMA RowDeleted ==
    ASSUME NEW rs \in [People -> Figured], NEW p \in People, NEW new, new = SoftDelete(rs, p)
    PROVE  /\ new \in [People -> Figured] /\ new[p].state = "removed"
           /\ \A q \in People \ {p} : new[q] = rs[q]
<1> DEFINE row == [rs[p] EXCEPT !.state = "removed"]
<1>1. row \in Figured /\ row.state = "removed"
  BY DEF Figured
<1>2. new = [rs EXCEPT ![p] = row]
  BY DEF SoftDelete
<1> HIDE DEF row
<1> QED
  BY <1>1, <1>2

\* removeParticipant with amounts.
LEMMA ManualRemoved ==
    ASSUME SharesInv, method = "MANUAL", NEW p \in Live(rows), rows[p].paid = 0,
           Cardinality(Live(rows)) > 1, RemoveManual(p, Live(rows) \ {p})
    PROVE  RowsInv("MANUAL", total, collected, skewed', rows', order, headcount - 1)
           /\ skewed' \in BOOLEAN
<1> DEFINE L == Live(rows)
           rest == L \ {p}
<1>1. PICK l \in (IF rows[p].owed > 0 THEN Redistributions(rest, Shares, total) ELSE {NoList}) :
       /\ rows' = SoftDelete(applyManualRedistribution(l.last), p)
       /\ skewed' = (skewed \/ (rows[p].owed > 0 /\ ~Complete(l, rest)))
  BY DEF RemoveManual
<1> DEFINE f == l.last
           given == applyManualRedistribution(f)
<1>2. rest \in SUBSET Live(rows) /\ p \in People /\ L \in SUBSET People /\ IsFiniteSet(L)
  BY LiveFinite
<1>3. Given(f, Nat) /\ DOMAIN f \in SUBSET rest
      /\ (l # NoList => SumOf(f) + TotalOf(l.before) = total)
  <2>1. l \in Redistributions(rest, Shares, total) \/ l = NoList
    BY <1>1
  <2>2. Shares \in SUBSET Nat
    BY AmountsAssumption
  <2> HIDE DEF rest
  <2>3. Given(f, Shares) /\ DOMAIN f \in SUBSET rest
        /\ (l # NoList => SumOf(f) + TotalOf(l.before) = total)
    BY <1>2, <2>1, <2>2, GivenList
  <2> QED
    BY <2>2, <2>3 DEF Given
<1>4. /\ given \in [People -> Figured]
      /\ \A q \in People : /\ given[q].state = rows[q].state /\ given[q].paid = rows[q].paid
                           /\ given[q].owed = IF q \in DOMAIN f THEN f[q] ELSE rows[q].owed
                           /\ q \in Live(rows) => given[q].remaining = OrZero(given[q].owed - given[q].paid)
  BY <1>3, AmountsGiven
<1>5. rows' = SoftDelete(given, p)
  BY <1>1
<1>13. /\ skewed' = (skewed \/ (rows[p].owed > 0 /\ ~Complete(l, rest)))
       /\ (l = NoList => DOMAIN f = {}) /\ (~(rows[p].owed > 0) => l = NoList)
       /\ (Complete(l, rest) => DOMAIN f = rest /\ TotalOf(l.before) = 0)
  BY <1>1 DEF NoList, Complete
<1> HIDE DEF given, f
<1>6. /\ rows' \in [People -> Figured] /\ rows'[p].state = "removed"
      /\ \A q \in People \ {p} : rows'[q] = given[q]
  BY <1>2, <1>4, <1>5, RowDeleted
<1>7. /\ Live(rows') = rest /\ Live(rows') # {} /\ Sorted(rows', order) /\ PaidBy(rows') = collected
      /\ Cardinality(Live(rows')) <= headcount - 1
  <2>1. \A q \in People \ {p} : rows'[q].state = rows[q].state /\ rows'[q].paid = rows[q].paid
    BY <1>4, <1>6
  <2> QED
    BY <1>6, <2>1, Left
<1>8. \A q \in rest : q \in People /\ q \in L /\ rows'[q] = given[q]
  BY <1>2, <1>6
<1>9. Remains(rows')
  BY <1>4, <1>7, <1>8 DEF Remains
<1>10. rows \in [People -> Figured] /\ skewed \in BOOLEAN /\ total \in Nat
  BY DEF SharesInv, RowsInv, BillTyped
<1>11. ~skewed' => OwedBy(rows') = total
  <2> SUFFICES ASSUME ~skewed' PROVE OwedBy(rows') = total
    OBVIOUS
  <2>1. ~skewed /\ (rows[p].owed > 0 => Complete(l, rest))
    BY <1>13
  <2>2. OwedBy(rows) = total
    BY <2>1 DEF SharesInv, RowsInv
  <2> DEFINE was == [q \in L |-> rows[q].owed]
             is == [q \in rest |-> rows'[q].owed]
  <2>3. OwedBy(rows) = SumOf(was) /\ OwedBy(rows') = SumOf(is)
    BY <1>7 DEF OwedBy
  <2>4. rows[p].owed \in Nat
    BY <1>2, <1>10 DEF Figured
  <2>5. CASE rows[p].owed > 0
    <3>1. DOMAIN f = rest /\ TotalOf(l.before) = 0
      BY <1>13, <2>1, <2>5
    <3>2. SumOf(f) + 0 = total
      BY <1>3, <1>7, <1>13, <3>1
    <3>5. SumOf(f) \in Int
      <4>1. IsFiniteSet(rest)
        BY <1>2, FS_Subset
      <4>2. f \in [rest -> Int]
        BY <1>3, <3>1 DEF Given
      <4> HIDE DEF rest
      <4> QED
        BY <4>1, <4>2, SumType
    <3>3. f = [q \in rest |-> f[q]]
      BY <1>3, <3>1 DEF Given
    <3>4. is = f
      <4>1. \A q \in rest : rows'[q].owed = f[q]
        BY <1>4, <1>8, <3>1
      <4> HIDE DEF rest
      <4> QED
        BY <3>3, <4>1
    <3> HIDE DEF is
    <3> QED
      BY <1>10, <2>3, <3>2, <3>4, <3>5
  <2>6. CASE ~(rows[p].owed > 0)
    <3>1. rows[p].owed = 0
      BY <2>4, <2>6
    <3>2. DOMAIN f = {}
      BY <1>13, <2>6
    <3>3. \A q \in rest : rows'[q].owed = rows[q].owed
      BY <1>4, <1>8, <3>2
    <3>4. \A q \in L : rows[q].owed \in Int
      BY <1>2, <1>10 DEF Figured
    <3>5. was \in [L -> Int] /\ is \in [rest -> Int]
      BY <3>3, <3>4
    <3>6. \A q \in L : was[q] = IF q \in rest THEN is[q] ELSE 0
      BY <3>1, <3>3
    <3>7. IsFiniteSet(rest) /\ \A q \in rest : q \notin L => is[q] = 0
      BY <1>2, FS_Subset
    <3> HIDE DEF was, is, rest, L
    <3>8. SumOf(was) = SumOf(is)
      BY <1>2, <3>5, <3>6, <3>7, SumSupport
    <3> QED
      BY <2>2, <2>3, <3>8
  <2> QED
    BY <2>5, <2>6
<1>12. skewed' \in BOOLEAN
  BY <1>1
<1> QED
  BY <1>6, <1>7, <1>9, <1>11, <1>12 DEF RowsInv

\* removeParticipant from a percentage split.
LEMMA PercentageRemoved ==
    ASSUME SharesInv, method = "PERCENTAGE", NEW p \in Live(rows), rows[p].paid = 0,
           Cardinality(Live(rows)) > 1, RemovePercentage(p, Live(rows) \ {p})
    PROVE  RowsInv("PERCENTAGE", total, collected, skewed', rows', order, headcount - 1)
           /\ skewed' \in BOOLEAN
<1> DEFINE rest == Live(rows) \ {p}
<1>1. PICK l \in (IF rows[p].pct > 0 THEN Redistributions(rest, Percentages, 100) ELSE {NoList}) :
       /\ rows' = SoftDelete(applyPercentageRedistribution(l.last), p)
       /\ skewed' = TRUE
  BY DEF RemovePercentage
<1> DEFINE f == l.last
           given == applyPercentageRedistribution(f)
<1>2. rest \in SUBSET Live(rows) /\ p \in People /\ Live(rows) \in SUBSET People
  BY LiveFinite
<1>3. Given(f, 0..100)
  <2>1. l \in Redistributions(rest, Percentages, 100) \/ l = NoList
    BY <1>1
  <2>2. Percentages \in SUBSET Nat /\ Percentages \subseteq 0..100
    BY AmountsAssumption
  <2> HIDE DEF rest
  <2>3. Given(f, Percentages)
    BY <1>2, <2>1, <2>2, GivenList
  <2> QED
    BY <2>2, <2>3 DEF Given
<1>4. /\ given \in [People -> Figured]
      /\ \A q \in People : /\ given[q].state = rows[q].state /\ given[q].paid = rows[q].paid
                           /\ given[q].owed = rows[q].owed /\ given[q].remaining = rows[q].remaining
  BY <1>3, PercentagesGiven
<1>5. rows' = SoftDelete(given, p)
  BY <1>1
<1> HIDE DEF given
<1>6. /\ rows' \in [People -> Figured] /\ rows'[p].state = "removed"
      /\ \A q \in People \ {p} : rows'[q] = given[q]
  BY <1>2, <1>4, <1>5, RowDeleted
<1>7. /\ Live(rows') = rest /\ Live(rows') # {} /\ Sorted(rows', order) /\ PaidBy(rows') = collected
      /\ Cardinality(Live(rows')) <= headcount - 1
  <2>1. \A q \in People \ {p} : rows'[q].state = rows[q].state /\ rows'[q].paid = rows[q].paid
    BY <1>4, <1>6
  <2> QED
    BY <1>6, <2>1, Left
<1>8. Remains(rows')
  <2>1. \A q \in Live(rows) : rows[q].remaining = OrZero(rows[q].owed - rows[q].paid)
    BY DEF SharesInv, RowsInv, Remains
  <2>2. \A q \in rest : q \in People /\ q \in Live(rows) /\ rows'[q] = given[q]
    BY <1>2, <1>6
  <2> QED
    BY <1>4, <1>7, <2>1, <2>2 DEF Remains
<1> QED
  BY <1>1, <1>6, <1>7, <1>8 DEF RowsInv

\* removeParticipant from an even split.
LEMMA EvenRemoved ==
    ASSUME SharesInv, method = "EVEN", method \in Methods, NEW p \in Live(rows), rows[p].paid = 0,
           Cardinality(Live(rows)) > 1, RemoveEven(p, Live(rows) \ {p})
    PROVE  RowsInv(method, total, collected, skewed', rows', order, headcount - 1)
           /\ skewed' \in BOOLEAN
<1> DEFINE rs == SoftDelete(rows, p)
           rest == Live(rows) \ {p}
           ask == SetToSeq(rest)
           n == headcount - 1
<1>1. computeAndSaveShares(rs, order, method, total, ask, << >>)
  BY DEF RemoveEven
<1>2. rows \in [People -> Figured] /\ total \in Nat /\ p \in People
  BY LiveFinite DEF SharesInv, RowsInv, BillTyped
<1>3. /\ rs \in [People -> Figured] /\ rs[p].state = "removed"
      /\ \A q \in People \ {p} : rs[q] = rows[q]
  BY <1>2, RowDeleted
<1> HIDE DEF rs
<1>4. \A q \in People \ {p} : rs[q].state = rows[q].state /\ rs[q].paid = rows[q].paid
  BY <1>3
<1>5. /\ Live(rs) = rest /\ Sorted(rs, order) /\ PaidBy(rs) = collected
      /\ Cardinality(Live(rs)) <= n
  BY <1>3, <1>4, Left
<1>6. ask \in Orders(Live(rs))
  BY <1>5, LiveFinite, SomeOrder
<1>7. Says(method, << >>, Live(rs))
  BY DEF Says
<1> HIDE DEF ask, n, rest
<1>8. RowsInv(method, total, PaidBy(rs), skewed', rows', order, n) /\ skewed' = FALSE
  BY <1>1, <1>2, <1>3, <1>5, <1>6, <1>7, RowsComputed
<1> QED
  BY <1>5, <1>8 DEF n

\* removeParticipant.
LEMMA SharesRemove ==
    ASSUME SharesInv, removeParticipant
    PROVE  SharesInv'
<1>1. PICK p \in Live(rows) :
         /\ Cardinality(Live(rows)) > 1 /\ rows[p].paid = 0
         /\ \/ method = "MANUAL" /\ RemoveManual(p, Live(rows) \ {p})
            \/ method = "PERCENTAGE" /\ RemovePercentage(p, Live(rows) \ {p})
            \/ method = "EVEN" /\ RemoveEven(p, Live(rows) \ {p})
  BY DEF removeParticipant
<1>2. /\ method # "none" /\ Edit /\ headcount' = headcount - 1
      /\ UNCHANGED <<method, total, collected, billStatus, order, swapped>>
  BY DEF removeParticipant
<1>3. BillTyped /\ method \in Methods /\ method' \in Methods /\ total' \in Nat
      /\ swapped' \in BOOLEAN /\ UNCHANGED <<collected, billStatus>>
  BY <1>2 DEF SharesInv, BillTyped
<1>4. headcount' \in Nat
  <2>1. Cardinality(Live(rows)) <= headcount /\ headcount \in Nat /\ Cardinality(Live(rows)) \in Nat
    BY LiveFinite DEF SharesInv, RowsInv, BillTyped
  <2> QED
    BY <1>1, <1>2, <2>1
<1>5. RowsInv(method, total, collected, skewed', rows', order, headcount - 1) /\ skewed' \in BOOLEAN
  <2>1. CASE method = "MANUAL" /\ RemoveManual(p, Live(rows) \ {p})
    BY <1>1, <2>1, ManualRemoved
  <2>2. CASE method = "PERCENTAGE" /\ RemovePercentage(p, Live(rows) \ {p})
    BY <1>1, <2>2, PercentageRemoved
  <2>3. CASE method = "EVEN" /\ RemoveEven(p, Live(rows) \ {p})
    BY <1>1, <1>3, <2>3, EvenRemoved
  <2> QED
    BY <1>1, <2>1, <2>2, <2>3
<1>6. BillTyped'
  BY <1>2, <1>3, <1>4, <1>5, EditTyped
<1> QED
  BY <1>2, <1>5, <1>6 DEF SharesInv

\* PayShare.
LEMMA SharesPay ==
    ASSUME SharesInv, PayShare
    PROVE  SharesInv'
<1>1. PICK p \in Live(rows), amount \in Payments :
         /\ amount <= OrZero(rows[p].owed - rows[p].paid)
         /\ LET paid == rows[p].paid + amount IN
            rows' = [rows EXCEPT ![p].paid = paid, ![p].remaining = rows[p].owed - paid,
                                 ![p].status = IF paid = rows[p].owed THEN "paid" ELSE "partial"]
         /\ collected' = collected + amount
  BY DEF PayShare
<1>2. /\ Move /\ UNCHANGED <<method, total, order, headcount, skewed, swapped>>
      /\ billStatus' = IF collected' >= total THEN "funded" ELSE "partially_paid"
  BY DEF PayShare
<1>3. /\ rows \in [People -> Figured] /\ Remains(rows) /\ collected = PaidBy(rows) /\ BillTyped
      /\ Sorted(rows, order)
  BY DEF SharesInv, RowsInv
<1> DEFINE L == Live(rows)
           paid == rows[p].paid + amount
           left == rows[p].owed - paid
           status == IF paid = rows[p].owed THEN "paid" ELSE "partial"
           row == [rows[p] EXCEPT !.paid = paid, !.remaining = left, !.status = status]
<1>4. amount \in Nat /\ amount # 0 /\ p \in People /\ L \in SUBSET People /\ IsFiniteSet(L)
  BY LiveFinite, AmountsAssumption
<1>5. rows[p] \in Figured /\ rows[p].state = "live" /\ rows[p].owed \in Nat /\ rows[p].paid \in Nat
  BY <1>3, <1>4 DEF Live, Figured
<1>6. amount <= rows[p].owed - rows[p].paid
  <2>1. OrZero(rows[p].owed - rows[p].paid) =
           IF rows[p].owed - rows[p].paid > 0 THEN rows[p].owed - rows[p].paid ELSE 0
    BY DEF OrZero
  <2> QED
    BY <1>1, <1>4, <1>5, <2>1
<1>7. paid \in Nat /\ left \in Nat /\ left = OrZero(rows[p].owed - paid)
  <2>1. paid \in Nat /\ left \in Nat
    BY <1>4, <1>5, <1>6
  <2> HIDE DEF paid
  <2> QED
    BY <1>5, <2>1 DEF OrZero
<1>8. status \in SharesStatus
  BY DEF SharesStatus
<1>9. rows' = [rows EXCEPT ![p] = row]
  <2>1. rows' = [rows EXCEPT ![p].paid = paid, ![p].remaining = left, ![p].status = status]
    BY <1>1
  <2> HIDE DEF paid, left, status
  <2> QED
    BY <1>3, <1>4, <2>1
<1>10. left = rows[p].owed - paid /\ paid = rows[p].paid + amount
  OBVIOUS
<1> HIDE DEF paid, left, status
<1>11. row \in Figured /\ row.state = "live" /\ row.paid = paid /\ row.remaining = left
       /\ row.owed = rows[p].owed
  BY <1>5, <1>7, <1>8 DEF Figured
<1> HIDE DEF row
<1>12. /\ rows' \in [People -> Figured] /\ rows'[p] = row
       /\ \A q \in People \ {p} : rows'[q] = rows[q]
  BY <1>3, <1>4, <1>9, <1>11
<1>13. /\ \A q \in People : rows'[q].state = rows[q].state /\ rows'[q].owed = rows[q].owed
       /\ Live(rows') = L
  <2>1. \A q \in People : rows'[q].state = rows[q].state /\ rows'[q].owed = rows[q].owed
    BY <1>5, <1>11, <1>12
  <2> QED
    BY <2>1 DEF Live
<1>14. Sorted(rows', order)
  BY <1>3, <1>13 DEF Sorted
<1>15. OwedBy(rows') = OwedBy(rows)
  <2>1. [q \in L |-> rows'[q].owed] = [q \in L |-> rows[q].owed]
    BY <1>4, <1>13
  <2> QED
    BY <1>13, <2>1 DEF OwedBy
<1>16. Fair(rows) => Fair(rows')
  BY <1>4, <1>13 DEF Fair
<1>17. Remains(rows')
  <2> SUFFICES ASSUME NEW q \in L PROVE rows'[q].remaining = OrZero(rows'[q].owed - rows'[q].paid)
    BY <1>13 DEF Remains
  <2>1. CASE q = p
    BY <1>7, <1>11, <1>12, <2>1
  <2>2. CASE q # p
    <3>1. rows'[q] = rows[q]
      BY <1>4, <1>12, <2>2
    <3> QED
      BY <1>3, <3>1 DEF Remains
  <2> QED
    BY <2>1, <2>2
<1>18. collected' = PaidBy(rows')
  <2> DEFINE was == [q \in L |-> rows[q].paid]
             is == [q \in L |-> rows'[q].paid]
  <2>1. PaidBy(rows) = SumOf(was) /\ PaidBy(rows') = SumOf(is)
    BY <1>13 DEF PaidBy
  <2>2. p \in L /\ was[p] = rows[p].paid /\ is[p] = paid
    BY <1>11, <1>12
  <2>3. \A q \in L : rows[q].paid \in Int /\ rows'[q].paid \in Int
    BY <1>3, <1>4, <1>12 DEF Figured
  <2>4. was \in [L -> Int] /\ is \in [L -> Int]
    BY <2>3
  <2>5. SameBut(was, is, L, p)
    BY <1>4, <1>12 DEF SameBut
  <2> HIDE DEF was, is, L
  <2>6. SumOf(is) = SumOf(was) - was[p] + is[p]
    BY <1>4, <2>2, <2>4, <2>5, SumUpdate
  <2>7. SumOf(was) = collected /\ collected \in Nat
    BY <1>3, <2>1 DEF BillTyped
  <2> QED
    BY <1>1, <1>4, <1>5, <1>10, <2>1, <2>2, <2>6, <2>7
<1>19. method # "none"
  <2> SUFFICES ASSUME method = "none" PROVE FALSE
    OBVIOUS
  <2>1. rows = [q \in People |-> Absent]
    BY DEF SharesInv, RowsInv
  <2> QED
    BY <1>4, <1>5, <2>1, AbsentIs
<1>20. BillTyped'
  <2>1. collected' \in Nat
    BY <1>1, <1>3, <1>4 DEF BillTyped
  <2>2. edits' \in 0..MaxEdits /\ moves' \in 0..MaxMoves
    BY <1>2, <1>3, BoundsAssumption DEF BillTyped, Move
  <2>3. billStatus' \in {"active", "partially_paid", "funded"}
    BY <1>2
  <2> QED
    BY <1>2, <1>3, <2>1, <2>2, <2>3 DEF BillTyped
<1> HIDE DEF L
<1>21. RowsInv(method, total, collected', skewed, rows', order, headcount)
  <2>1. /\ (~skewed /\ Live(rows) # {}) => OwedBy(rows) = total
        /\ method = "EVEN" => Fair(rows)
        /\ Cardinality(Live(rows)) <= headcount
        /\ (method = "MANUAL" /\ Live(rows) = {}) => skewed
    BY <1>19 DEF SharesInv, RowsInv
  <2> QED
    BY <1>12, <1>13, <1>14, <1>15, <1>16, <1>17, <1>18, <1>19, <2>1 DEF RowsInv, L
<1> QED
  BY <1>2, <1>20, <1>21 DEF SharesInv

\* AnswerInvite.
LEMMA SharesAnswer ==
    ASSUME SharesInv, AnswerInvite
    PROVE  SharesInv'
<1>1. PICK p \in Live(rows), answer \in {"accepted", "declined"} :
         rows' = [rows EXCEPT ![p].status = answer]
  BY DEF AnswerInvite
<1>2. Move /\ UNCHANGED <<method, total, collected, billStatus, order, headcount, skewed, swapped>>
  BY DEF AnswerInvite
<1>3. rows \in [People -> Figured] /\ BillTyped /\ Sorted(rows, order)
  BY DEF SharesInv, RowsInv
<1>4. p \in People /\ Live(rows) \in SUBSET People /\ rows[p].state = "live"
  BY LiveFinite DEF Live
<1> DEFINE row == [rows[p] EXCEPT !.status = answer]
<1>5. row \in Figured /\ row.state = rows[p].state /\ row.owed = rows[p].owed
      /\ row.paid = rows[p].paid /\ row.remaining = rows[p].remaining
  BY <1>3, <1>4 DEF Figured, SharesStatus
<1>6. rows' = [rows EXCEPT ![p] = row]
  BY <1>1
<1> HIDE DEF row
<1>7. /\ rows' \in [People -> Figured]
      /\ \A q \in People : rows'[q].state = rows[q].state /\ rows'[q].owed = rows[q].owed
                           /\ rows'[q].paid = rows[q].paid /\ rows'[q].remaining = rows[q].remaining
  BY <1>3, <1>4, <1>5, <1>6
<1>8. Live(rows') = Live(rows)
  BY <1>7 DEF Live
<1>9. Sorted(rows', order)
  BY <1>3, <1>7 DEF Sorted
<1>10. OwedBy(rows') = OwedBy(rows) /\ PaidBy(rows') = PaidBy(rows)
  <2>1. /\ [q \in Live(rows) |-> rows'[q].owed] = [q \in Live(rows) |-> rows[q].owed]
        /\ [q \in Live(rows) |-> rows'[q].paid] = [q \in Live(rows) |-> rows[q].paid]
    BY <1>4, <1>7
  <2> QED
    BY <1>8, <2>1 DEF OwedBy, PaidBy
<1>11. (Fair(rows) => Fair(rows')) /\ (Remains(rows) => Remains(rows'))
  BY <1>4, <1>7, <1>8 DEF Fair, Remains
<1>12. method # "none"
  <2> SUFFICES ASSUME method = "none" PROVE FALSE
    OBVIOUS
  <2>1. rows = [q \in People |-> Absent]
    BY DEF SharesInv, RowsInv
  <2> QED
    BY <1>4, <2>1, AbsentIs
<1>13. BillTyped'
  <2>1. edits' \in 0..MaxEdits /\ moves' \in 0..MaxMoves
    BY <1>2, <1>3, BoundsAssumption DEF BillTyped, Move
  <2> QED
    BY <1>2, <1>3, <2>1 DEF BillTyped
<1>14. RowsInv(method, total, collected, skewed, rows', order, headcount)
  <2>1. /\ (~skewed /\ Live(rows) # {}) => OwedBy(rows) = total
        /\ method = "EVEN" => Fair(rows)
        /\ Cardinality(Live(rows)) <= headcount
        /\ (method = "MANUAL" /\ Live(rows) = {}) => skewed
        /\ Remains(rows) /\ collected = PaidBy(rows)
    BY <1>12 DEF SharesInv, RowsInv
  <2> QED
    BY <1>7, <1>8, <1>9, <1>10, <1>11, <1>12, <2>1 DEF RowsInv
<1> QED
  BY <1>2, <1>13, <1>14 DEF SharesInv

\* Every step of the shares keeps what the rows keep.
LEMMA SharesSteps ==
    SharesInv /\ [SharesNext]_shareVars => SharesInv'
<1> SUFFICES ASSUME SharesInv, [SharesNext]_shareVars PROVE SharesInv'
  OBVIOUS
<1>1. CASE createBill
  BY <1>1, SharesCreate
<1>2. CASE updateBill
  BY <1>2, SharesUpdate
<1>3. CASE addParticipant
  BY <1>3, SharesAdd
<1>4. CASE removeParticipant
  BY <1>4, SharesRemove
<1>5. CASE PayShare
  BY <1>5, SharesPay
<1>6. CASE AnswerInvite
  BY <1>6, SharesAnswer
<1>7. CASE UNCHANGED shareVars
  BY <1>7 DEF shareVars, SharesInv, BillTyped
<1> QED
  BY <1>1, <1>2, <1>3, <1>4, <1>5, <1>6, <1>7 DEF SharesNext

\* What it means for the bill.
LEMMA SharesMean ==
    ASSUME SharesInv
    PROVE  SharesTypeOK /\ SharesSumToTotal /\ EvenSharesAreFair /\ RemainingFollows /\ PayersStay
<1>1. SharesTypeOK
  <2>1. rows \in [People -> Figured] /\ Sorted(rows, order)
    BY DEF SharesInv, RowsInv
  <2>2. order \in Seq(People) /\ IsInjective(order)
        /\ \A p \in People : rows[p].state = "live" => p \in ToSet(order)
    BY <2>1 DEF Sorted
  <2>3. BillTyped /\ {skewed, swapped} \subseteq BOOLEAN
    BY DEF SharesInv, BillTyped
  <2>4. rows \in [People -> [state : {"none", "live", "removed"}, owed : Nat, paid : Nat,
                            remaining : Nat, pct : 0..100, status : SharesStatus]]
    BY <2>1 DEF Figured
  <2> QED
    BY <2>2, <2>3, <2>4 DEF SharesTypeOK, BillTyped
<1>2. SharesSumToTotal
  <2>1. Owed(Live(rows)) = OwedBy(rows)
    BY Totals_ DEF Owed, OwedBy
  <2> QED
    BY <2>1 DEF SharesInv, RowsInv, SharesSumToTotal
<1>3. EvenSharesAreFair /\ RemainingFollows
  BY DEF SharesInv, RowsInv, Fair, Remains, EvenSharesAreFair, RemainingFollows
<1>4. PayersStay
  BY Totals_ DEF SharesInv, RowsInv, PayersStay, PaidBy
<1> QED
  BY <1>1, <1>2, <1>3, <1>4

-----------------------------------------------------------------------------
(* The bill *)

PeopleInv ==
    /\ part \in PeopleParts
    /\ SharesInv /\ InviteInv /\ GovInv /\ OrgInv /\ TalkInv /\ ClockInv

\* A step of the bill is one of one component at most.
LEMMA OnePart ==
    [PeopleNext]_peopleVars =>
      /\ [SharesNext]_shareVars /\ [InviteNext]_inviteVars /\ [GovNext]_govVars
      /\ [OrgNext]_orgVars /\ [TalkNext]_talkVars /\ [ClockNext]_clockVars /\ UNCHANGED part
BY DEF PeopleNext, peopleVars

\* The people of a bill, in the beginning.
LEMMA PeopleInits == PeopleInit => PeopleInv
BY SharesInits, InviteInits, GovInits, OrgInits, TalkInits, ClockInits DEF PeopleInit, PeopleInv

\* The parts share no state, so a step of one keeps the invariants of all.
LEMMA StepPeople == PeopleInv /\ [PeopleNext]_peopleVars => PeopleInv'
BY OnePart, SharesSteps, StepInvite, StepGov, StepOrg, StepTalk, StepClock DEF PeopleInv

\* The invariants of all parts hold in every reachable state.
LEMMA PeopleKeeps == PeopleSpec => []PeopleInv
BY PeopleInits, StepPeople, PTL DEF PeopleSpec

\* Every variable of the bill's modules keeps its shape.
THEOREM PeopleTyped == PeopleSpec => []PeopleTypeOK
<1>1. PeopleInv => SharesTypeOK /\ InviteTypeOK /\ GovTypeOK /\ OrgTypeOK /\ TalkTypeOK /\ ClockTypeOK
  BY SharesMean, GovMeans DEF PeopleInv, InviteInv, OrgInv, TalkInv, ClockInv
<1>2. PeopleInv => PeopleTypeOK
  BY <1>1 DEF PeopleInv, PeopleParts, PeopleTypeOK
<1> QED
  BY <1>2, PeopleKeeps, PTL

\* What a participant owes and when it hears of it follow from the bill: after any sequence
\* of updates, additions, removals, payments and answers the shares add up to it, evenly
\* where that was chosen, and nobody who has paid is dropped; the reminders are spaced,
\* counted, five at most, and the warning comes before the due date.
THEOREM Terms == PeopleSpec => []TermsFollowTheBill
<1>1. PeopleInv => TermsFollowTheBill
  BY SharesMean, ClockMeans DEF PeopleInv, TermsFollowTheBill
<1> QED
  BY <1>1, PeopleKeeps, PTL

\* Who is on the bill, who runs it and who reads along agreed to it or was let in: an
\* invitation can be answered whatever crosses it, a decision rests on votes that were cast,
\* an organiser accepted, a comment reaches those it is meant for.
THEOREM Everybody == PeopleSpec => []EverybodyWasAsked
<1>1. PeopleInv => EverybodyWasAsked
  BY GovMeans, OrgMeans, TalkMeans DEF PeopleInv, InviteInv, EverybodyWasAsked
<1> QED
  BY <1>1, PeopleKeeps, PTL

\* What somebody has answered stays answered, unless requests crossed.
THEOREM Answers == PeopleSpec => AnswersStand
<1>1. PeopleInv /\ [PeopleNext]_peopleVars =>
         [AccountStays /\ TwoStrikes /\ DecisionStays /\ AnswerStands /\ HiddenAfterGrace]_peopleVars
  BY OnePart, StepInvite, StepGov, StepOrg, StepClock
     DEF PeopleInv, AccountStays, TwoStrikes, DecisionStays, AnswerStands, HiddenAfterGrace
<1> QED
  BY <1>1, PeopleKeeps, PTL DEF PeopleSpec, AnswersStand
=============================================================================
