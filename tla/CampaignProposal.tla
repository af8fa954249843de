-------------------------- MODULE CampaignProposal --------------------------
(***************************************************************************)
(* One disbursement proposal of a campaign and its donor approval          *)
(* (campaign-proposal.service.ts): it is routed to up to three picked      *)
(* donors, one after the other, each with a two-minute window; two equal   *)
(* decisions settle it, and when the picks run out it is rejected.         *)
(*                                                                         *)
(* Votes, cancellations and the sweep that runs every 30 seconds all work  *)
(* on copies: each reads the proposal row at one await and saves its whole *)
(* copy at a later one.  A transaction that only writes is one step.  The  *)
(* picked donors are named by their sort index, which no two share.        *)
(***************************************************************************)
EXTENDS Naturals, Sequences, FiniteSets

CONSTANTS
    Requests,       \* HTTP requests handled at the same time
    Sweeps,         \* runs of the cron handler in progress at the same time
    Exclusive,      \* no two handlers overlap
    PoolSizes,      \* how many donors pickDonorPool may find
    MayFail,        \* where an await of a handler may throw (bound: once in each)
    MaxAssignments, \* bound: assignments created, those races repeat included
    MaxCrashes      \* bound: crashes of the server

ASSUME HandlersAssumption == Requests \cap Sweeps = {}
ASSUME ExclusiveAssumption == Exclusive \in BOOLEAN
ASSUME PoolAssumption == PoolSizes \subseteq 1..3
ASSUME BoundsAssumption == MaxAssignments \in Nat /\ MaxCrashes \in Nat

VARIABLES
    pool,       \* length of picked_donor_ids
    row,        \* the campaign_proposals row
    asg,        \* its campaign_proposal_assignments rows, in order of creation
    loc,        \* each handler: where it is, its copy of the proposal, the
                \* assignment it works on, its vote, the assignments a sweep
                \* found and has not handled
    responses,  \* history: every vote that was committed
    feed,       \* settlements posted to the activity feed
    failed,     \* where a handler has thrown (bound, and history)
    crashes     \* crashes (bound)

vars == <<pool, row, asg, loc, responses, feed, failed, crashes>>

RequiredApprovals == 2
Handlers == Requests \cup Sweeps
Votes == {"approve", "reject"}
Settled == {"approved", "rejected", "cancelled", "executed"}

\* current is 0 for NULL.
Row == [status: {"pending"} \cup Settled, votesFor: 0..3, votesAgainst: 0..3,
        current: Nat, reason: {"none", "no_quorum"}]
Assignment == [sort: 0..2, decision: {"pending", "timeout"} \cup Votes, late: BOOLEAN]
Local == [pc: {"idle", "voteAsg", "voteTx", "advance", "announce", "cancel",
               "execute", "sweepNext", "sweepTimeout", "sweepRead"},
          copy: Row, at: Nat, vote: Votes, todo: SUBSET (1..Len(asg))]

TypeOK ==
    /\ pool \in PoolSizes
    /\ row \in Row /\ row.current <= Len(asg)
    /\ asg \in Seq(Assignment) /\ \A i \in DOMAIN asg : asg[i].sort < pool
    /\ loc \in [Handlers -> Local]
    /\ responses \subseteq [asg: 1..Len(asg), vote: Votes]
    /\ feed \subseteq {"approved", "rejected"}
    /\ failed \subseteq MayFail /\ crashes \in 0..MaxCrashes

FirstRow == [status |-> "pending", votesFor |-> 0, votesAgainst |-> 0,
             current |-> 1, reason |-> "none"]

NewAssignment(sort) == [sort |-> sort, decision |-> "pending", late |-> FALSE]

Idle == [pc |-> "idle", copy |-> FirstRow, at |-> 0, vote |-> "approve", todo |-> {}]

\* create(): the row and its first assignment are inserted in one transaction.
Init ==
    /\ pool \in PoolSizes
    /\ row = FirstRow
    /\ asg = <<NewAssignment(0)>>
    /\ loc = [h \in Handlers |-> Idle]
    /\ responses = {} /\ feed = {}
    /\ failed = {} /\ crashes = 0

-----------------------------------------------------------------------------
MayStart(h) ==
    /\ loc[h].pc = "idle"
    /\ Exclusive => \A g \in Handlers : loc[g].pc = "idle"

At(h, label) == loc[h].pc = label

Become(h, l) == loc' = [loc EXCEPT ![h] = l]
GoTo(h, label) == Become(h, [loc[h] EXCEPT !.pc = label])

\* The handler reads the row and goes on with that copy of it.
Read(h, label) == Become(h, [loc[h] EXCEPT !.pc = label, !.copy = row])

\* A save writes every column of the copy; the handler keeps the copy.
SaveAndGoTo(h, r, label) ==
    /\ row' = r
    /\ Become(h, [loc[h] EXCEPT !.pc = label, !.copy = r])

\* The handler returns; a sweep goes on with what it found.
Return(h) ==
    Become(h, IF loc[h].todo = {} THEN Idle
              ELSE [Idle EXCEPT !.pc = "sweepNext", !.todo = loc[h].todo])

\* applySettlement
SettledRow(r, status, reason) ==
    [r EXCEPT !.status = status, !.current = 0, !.reason = reason]

-----------------------------------------------------------------------------
(* vote *)

VoteReadsProposal(h) ==
    /\ MayStart(h)
    /\ row.status = "pending" /\ row.current # 0
    /\ \E v \in Votes :
         Become(h, [Idle EXCEPT !.pc = "voteAsg", !.copy = row, !.at = row.current, !.vote = v])
    /\ UNCHANGED <<pool, row, asg, responses, feed, failed, crashes>>

\* The caller is the assignee; a decided or expired assignment is refused.
VoteReadsAssignment(h) ==
    /\ At(h, "voteAsg")
    /\ LET a == asg[loc[h].at] IN
       IF a.decision = "pending" /\ ~a.late THEN GoTo(h, "voteTx") ELSE Return(h)
    /\ UNCHANGED <<pool, row, asg, responses, feed, failed, crashes>>

CountedRow_Retried(r, v) ==
    IF v = "approve" THEN [r EXCEPT !.votesFor = @ + 2]
                     ELSE [r EXCEPT !.votesAgainst = @ + 1]

CountedRow(r, v) ==
    IF v = "approve" THEN [r EXCEPT !.votesFor = @ + 1]
                     ELSE [r EXCEPT !.votesAgainst = @ + 1]

\* The transaction of vote(): decision, counter and, with two alike, the
\* settlement; otherwise the proposal is left without an assignee.
VoteCommits(h) ==
    /\ At(h, "voteTx")
    /\ asg' = [asg EXCEPT ![loc[h].at].decision = loc[h].vote]
    /\ responses' = responses \cup {[asg |-> loc[h].at, vote |-> loc[h].vote]}
    /\ LET r == CountedRow(loc[h].copy, loc[h].vote) IN
       \/ /\ r.votesFor >= RequiredApprovals
          /\ SaveAndGoTo(h, SettledRow(r, "approved", "none"), "announce")
       \/ /\ r.votesFor < RequiredApprovals /\ r.votesAgainst >= RequiredApprovals
          /\ SaveAndGoTo(h, SettledRow(r, "rejected", "none"), "announce")
       \/ /\ r.votesFor < RequiredApprovals /\ r.votesAgainst < RequiredApprovals
          /\ SaveAndGoTo(h, [r EXCEPT !.current = 0], "advance")
    /\ UNCHANGED <<pool, feed, failed, crashes>>

Advance_Past(h, next, last) ==
    /\ At(h, "advance")
    /\ \/ /\ next > last
          /\ SaveAndGoTo(h, SettledRow(loc[h].copy, "rejected", "no_quorum"), "announce")
          /\ UNCHANGED asg
       \/ /\ next <= last /\ Len(asg) < MaxAssignments
          /\ asg' = Append(asg, NewAssignment(next))
          /\ row' = [loc[h].copy EXCEPT !.current = Len(asg) + 1]
          /\ Return(h)
    /\ UNCHANGED <<pool, responses, feed, failed, crashes>>

Advance_OnePickTooFar(h) == Advance_Past(h, asg[loc[h].at].sort + 1, pool)

Advance_LastPickSkipped(h) == Advance_Past(h, asg[loc[h].at].sort + 1, pool - 2)

Advance_NeverSettles(h) ==
    \/ Advance_Past(h, asg[loc[h].at].sort + 1, pool - 1) /\ asg' # asg
    \/ /\ At(h, "advance") /\ asg[loc[h].at].sort + 1 >= pool
       /\ Return(h)
       /\ UNCHANGED <<pool, row, asg, responses, feed, failed, crashes>>

\* advance(): the next pick, or no quorum.  It saves the caller's copy.
Advance(h) ==
    /\ At(h, "advance")
    /\ LET next == asg[loc[h].at].sort + 1 IN
       \/ /\ next >= pool
          /\ SaveAndGoTo(h, SettledRow(loc[h].copy, "rejected", "no_quorum"), "announce")
          /\ UNCHANGED asg
       \/ /\ next < pool /\ Len(asg) < MaxAssignments
          /\ asg' = Append(asg, NewAssignment(next))
          /\ row' = [loc[h].copy EXCEPT !.current = Len(asg) + 1]
          /\ Return(h)
    /\ UNCHANGED <<pool, responses, feed, failed, crashes>>

Announce_AsRejected(h) ==
    /\ At(h, "announce")
    /\ feed' = feed \cup {"rejected"}
    /\ Return(h)
    /\ UNCHANGED <<pool, row, asg, responses, failed, crashes>>

\* handleSettlement() posts the outcome of the copy it was given.
Announce(h) ==
    /\ At(h, "announce")
    /\ feed' = feed \cup {loc[h].copy.status}
    /\ Return(h)
    /\ UNCHANGED <<pool, row, asg, responses, failed, crashes>>

-----------------------------------------------------------------------------
(* expireStaleAssignments *)

\* The two minutes of an assignment are over.
Expire(i) ==
    /\ asg[i].decision = "pending" /\ ~asg[i].late
    /\ asg' = [asg EXCEPT ![i].late = TRUE]
    /\ UNCHANGED <<pool, row, loc, responses, feed, failed, crashes>>

Stale_Decided == {i \in DOMAIN asg : asg[i].late}

Stale == {i \in DOMAIN asg : asg[i].decision = "pending" /\ asg[i].late}

SweepFinds(h) ==
    /\ MayStart(h)
    /\ Stale # {}
    /\ Become(h, [Idle EXCEPT !.pc = "sweepNext", !.todo = Stale])
    /\ UNCHANGED <<pool, row, asg, responses, feed, failed, crashes>>

\* The re-read inside the transaction.  When the assignment is decided the
\* callback returns, and only the callback: the loop goes on to advance.
SweepRereads(h) ==
    /\ At(h, "sweepNext")
    /\ \E i \in loc[h].todo :
         Become(h, [loc[h] EXCEPT !.at = i, !.todo = @ \ {i},
                      !.pc = IF asg[i].decision = "pending" THEN "sweepTimeout" ELSE "sweepRead"])
    /\ UNCHANGED <<pool, row, asg, responses, feed, failed, crashes>>

SweepTimesOut(h) ==
    /\ At(h, "sweepTimeout")
    /\ asg' = [asg EXCEPT ![loc[h].at].decision = "timeout"]
    /\ GoTo(h, "sweepRead")
    /\ UNCHANGED <<pool, row, responses, feed, failed, crashes>>

SweepReadsProposal_AnyStatus(h) ==
    /\ At(h, "sweepRead")
    /\ Read(h, "advance")
    /\ UNCHANGED <<pool, row, asg, responses, feed, failed, crashes>>

SweepReadsProposal(h) ==
    /\ At(h, "sweepRead")
    /\ IF row.status = "pending" THEN Read(h, "advance") ELSE Return(h)
    /\ UNCHANGED <<pool, row, asg, responses, feed, failed, crashes>>

-----------------------------------------------------------------------------
(* cancel, markExecuted *)

CancelReads(h) ==
    /\ MayStart(h)
    /\ row.status = "pending"
    /\ Read(h, "cancel")
    /\ UNCHANGED <<pool, row, asg, responses, feed, failed, crashes>>

CancelSaves(h) ==
    /\ At(h, "cancel")
    /\ row' = [loc[h].copy EXCEPT !.status = "cancelled", !.current = 0]
    /\ Return(h)
    /\ UNCHANGED <<pool, asg, responses, feed, failed, crashes>>

ExecuteReads(h) ==
    /\ MayStart(h)
    /\ row.status = "approved"
    /\ Read(h, "execute")
    /\ UNCHANGED <<pool, row, asg, responses, feed, failed, crashes>>

ExecuteSaves(h) ==
    /\ At(h, "execute")
    /\ row' = [loc[h].copy EXCEPT !.status = "executed"]
    /\ Return(h)
    /\ UNCHANGED <<pool, asg, responses, feed, failed, crashes>>

\* An await of a handler throws and its transaction, if it is in one, rolls back.
\* vote() catches what advance() and handleSettlement() throw, the sweep what the
\* assignment throws that it works on; a request that throws is answered 500.
HandlerFails(h) ==
    /\ loc[h].pc \in MayFail \ (failed \cup {"idle"})
    /\ failed' = failed \cup {loc[h].pc}
    /\ \/ loc[h].pc # "sweepNext" /\ Return(h)
       \/ /\ loc[h].pc = "sweepNext"
          /\ \E i \in loc[h].todo :
               Become(h, IF loc[h].todo = {i} THEN Idle ELSE [loc[h] EXCEPT !.todo = @ \ {i}])
    /\ UNCHANGED <<pool, row, asg, responses, feed, crashes>>

\* A restart of the server: every handler is gone, the rows stay.
Crash ==
    /\ crashes < MaxCrashes
    /\ crashes' = crashes + 1
    /\ loc' = [h \in Handlers |-> Idle]
    /\ UNCHANGED <<pool, row, asg, responses, feed, failed>>

-----------------------------------------------------------------------------
Continue(h) ==
    \/ VoteReadsAssignment(h)
    \/ VoteCommits(h)
    \/ Advance(h)
    \/ Announce(h)
    \/ SweepRereads(h)
    \/ SweepTimesOut(h)
    \/ SweepReadsProposal(h)
    \/ CancelSaves(h)
    \/ ExecuteSaves(h)

Next ==
    \/ \E h \in Requests : VoteReadsProposal(h) \/ CancelReads(h) \/ ExecuteReads(h)
    \/ \E h \in Sweeps : SweepFinds(h)
    \/ \E h \in Handlers : Continue(h) \/ HandlerFails(h)
    \/ \E i \in DOMAIN asg : Expire(i)
    \/ Crash

Spec == Init /\ [][Next]_vars

\* Time passes, the cron fires, and the event loop runs what was started.
\* Nobody has to vote, nothing has to fail.
Fairness ==
    /\ \A h \in Handlers : WF_vars(Continue(h))
    /\ \A h \in Sweeps : SF_vars(SweepFinds(h))
    /\ WF_vars(\E i \in DOMAIN asg : Expire(i))

FairSpec == Spec /\ Fairness

-----------------------------------------------------------------------------
(* Properties *)

Voting(v) == {x.asg : x \in {y \in responses : y.vote = v}}
DonorsVoting(v) == {asg[i].sort : i \in Voting(v)}

\* Every copy a handler may still save, and the row itself.
LiveRows == {row} \cup {loc[h].copy : h \in Handlers}

\* Whatever stale copies are saved over each other, an approval rests on
\* approving answers to two assignments, and a rejection by vote on two
\* rejecting ones: counters may be lost, never invented.
DecisionsRestOnVotes ==
    \A r \in LiveRows :
      /\ r.status \in {"approved", "executed"} => Cardinality(Voting("approve")) >= RequiredApprovals
      /\ r.status = "rejected" /\ r.reason = "none"
            => Cardinality(Voting("reject")) >= RequiredApprovals

\* "If the picked pool is exhausted without consensus": no quorum is declared
\* only after the last pick has answered or timed out.
NoQuorumMeansExhausted ==
    row.reason = "no_quorum" =>
        \E i \in DOMAIN asg : asg[i].sort = pool - 1 /\ asg[i].decision # "pending"

\* The activity feed reports an outcome only if the votes, or the end of the
\* picks, support it, also when the row was overwritten since.
FeedIsTrue ==
    /\ "approved" \in feed => Cardinality(Voting("approve")) >= RequiredApprovals
    /\ "rejected" \in feed =>
          \/ Cardinality(Voting("reject")) >= RequiredApprovals
          \/ \E i \in DOMAIN asg : asg[i].sort = pool - 1 /\ asg[i].decision # "pending"

\* "Each proposal is routed sequentially to up to three top donors ... 2
\* matching decisions": one donor alone cannot approve a disbursement.
ApprovedByTwoDonors ==
    row.status \in {"approved", "executed"} =>
        Cardinality(DonorsVoting("approve")) >= RequiredApprovals

\* "Re-read inside the transaction to avoid double-handling": a pick is asked
\* at most once.
OneAssignmentPerPick ==
    \A i, j \in DOMAIN asg : asg[i].sort = asg[j].sort => i = j

\* "Sets terminal state on a proposal": a settled proposal stays settled; only
\* an approved one moves on, to executed.
SettledStays ==
    [][row.status \in Settled =>
          \/ row'.status = row.status
          \/ row.status = "approved" /\ row'.status = "executed"]_vars

Consent == INSTANCE Approval WITH
    panel <- pool, turn <- Len(asg) - 1, verdict <- row.status,
    approving <- DonorsVoting("approve"), rejecting <- DonorsVoting("reject")

\* "First to 2 matching decisions settles the proposal" (the header of the
\* service): one at a time, votes, sweeps, cancellations and restarts add up to
\* an Approval, in which the donors answer in turn and two alike decide.
IsAnApproval == Consent!Spec

\* However the votes and the two-minute limits fall, and whatever else throws, a
\* proposal is settled in the end, unless the server is restarted or a handler
\* throws between the answer, or the time-out, of one pick and the next: then it
\* has no assignee and no sweep finds it.
PendingSettles ==
    (row.status = "pending")
        ~> (row.status \in Settled \/ crashes > 0 \/ failed \cap {"sweepRead", "advance"} # {})

\* "If they time out we move on to the next pick": a proposal nobody answers
\* is settled in the end.
PendingAlwaysSettles == (row.status = "pending") ~> (row.status \in Settled)
=============================================================================
