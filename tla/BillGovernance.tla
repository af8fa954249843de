--------------------------- MODULE BillGovernance ---------------------------
(***************************************************************************)
(* A disbursement proposal of a split bill (split-bill-governance.service): *)
(* its votes, the decision and the execution.  No handler takes a lock or  *)
(* opens a transaction: castVote reads the proposal, stores the vote,      *)
(* counts the votes, then the participants, and then saves the whole row   *)
(* it had read; other requests run between any two of these.               *)
(***************************************************************************)
EXTENDS Naturals, Integers, FiniteSets

CONSTANTS
    BillCreator,    \* may vote without being a participant
    Voters,         \* everybody else who may be on the bill
    GovRequests,    \* requests served at the same time
    MaxBallots,     \* bound: votes and executions asked for
    MaxJoins        \* bound: participants added or removed meanwhile

ASSUME CreatorAssumption == BillCreator \notin Voters
ASSUME VotersAssumption == IsFiniteSet(Voters) /\ {MaxBallots, MaxJoins} \subseteq Nat

VARIABLES
    members,        \* the users with a participant row
    proposal,       \* the proposal's row
    ballots,        \* the vote rows, unique by (proposal, voter)
    inFlight,       \* the requests being served, with the row each has read
    backed, lost,   \* history: the votes have once decided for, against
    crossing,       \* history: a request saved its row while another one was being served
    torn,           \* history: a request died between its vote and its save
    shrunk,         \* history: somebody left between a count of the votes and the
                    \* count of the participants that goes with it
    ballotCount, joins  \* counters of the bounds

govVars == <<members, proposal, ballots, inFlight, backed, lost, crossing, torn, shrunk,
             ballotCount, joins>>

GovUsers == Voters \cup {BillCreator}
ProposalStatus == {"none", "pending", "approved", "rejected", "executed"}
ProposalRow == [status : ProposalStatus, votesFor : Nat, votesAgainst : Nat, required : Nat]
NoProposal == [status |-> "none", votesFor |-> 0, votesAgainst |-> 0, required |-> 0]
Idle == [step |-> "idle", by |-> BillCreator, vote |-> "none", row |-> NoProposal]
Vote == {"approve", "reject"}

GovTypeOK ==
    /\ members \subseteq GovUsers
    /\ proposal \in ProposalRow /\ (proposal.status # "none" => proposal.required \in 1..Cardinality(GovUsers))
    /\ ballots \in [GovUsers -> Vote \cup {"none"}]
    /\ inFlight \in [GovRequests -> [step : {"idle", "vote", "count", "decide", "save", "execute"},
                                     by : GovUsers, vote : Vote \cup {"none"}, row : ProposalRow]]
    /\ {backed, lost, crossing, torn, shrunk} \subseteq BOOLEAN
    /\ ballotCount \in 0..MaxBallots /\ joins \in 0..MaxJoins

GovInit ==
    /\ members \in (SUBSET GovUsers) \ {{}}
    /\ proposal = NoProposal
    /\ ballots = [u \in GovUsers |-> "none"]
    /\ inFlight = [r \in GovRequests |-> Idle]
    /\ backed = FALSE /\ lost = FALSE /\ crossing = FALSE /\ torn = FALSE /\ shrunk = FALSE
    /\ ballotCount = 0 /\ joins = 0

\* assertCreatorOrParticipant
MaySee(u) == u = BillCreator \/ u \in members

Count(v) == Cardinality({u \in GovUsers : ballots[u] = v})

WonBy(row) == row.votesFor >= row.required

LostBy(row, n) == row.votesAgainst > n - row.required

Tallied(row) == [row EXCEPT !.votesFor = Count("approve"), !.votesAgainst = Count("reject")]

-----------------------------------------------------------------------------
\* addParticipant and removeParticipant (BillShares) meanwhile; a vote stays.
JoinOrLeave ==
    /\ joins < MaxJoins /\ joins' = joins + 1
    /\ \/ \E u \in GovUsers \ members : members' = members \cup {u} /\ UNCHANGED shrunk
       \/ \E u \in members :
            /\ members # {u} /\ members' = members \ {u}
            /\ shrunk' = (shrunk \/ \E r \in GovRequests : inFlight[r].step = "decide")
    /\ UNCHANGED <<proposal, ballots, inFlight, crossing, torn, ballotCount>>

-----------------------------------------------------------------------------
(* The proposal *)

HalfOf(n) == IF n = 0 THEN 1 ELSE (n + 1) \div 2

createProposal ==
    /\ proposal.status = "none"
    /\ proposal' = [NoProposal EXCEPT !.status = "pending", !.required = HalfOf(Cardinality(members))]
    /\ UNCHANGED <<members, ballots, inFlight, crossing, torn, shrunk, ballotCount, joins>>

Asking(r, step, by, vote) ==
    /\ inFlight[r].step = "idle" /\ ballotCount < MaxBallots /\ ballotCount' = ballotCount + 1
    /\ inFlight' = [inFlight EXCEPT ![r] = [step |-> step, by |-> by, vote |-> vote, row |-> proposal]]

Done(r) == inFlight' = [inFlight EXCEPT ![r] = Idle]

castVote(r) ==
    /\ proposal.status = "pending"
    /\ \E u \in GovUsers, v \in Vote : MaySee(u) /\ Asking(r, "vote", u, v)
    /\ UNCHANGED <<members, proposal, ballots, crossing, torn, shrunk, joins>>

\* The same vote again returns at once.
StoreVote(r) ==
    LET q == inFlight[r] IN
    /\ q.step = "vote"
    /\ ballots' = [ballots EXCEPT ![q.by] = q.vote]
    /\ inFlight' = [inFlight EXCEPT ![r] = IF ballots[q.by] = q.vote THEN Idle
                                           ELSE [q EXCEPT !.step = "count"]]
    /\ UNCHANGED <<members, proposal, crossing, torn, shrunk, ballotCount, joins>>

\* The votes are counted on the row that was read.
CountVotes(r) ==
    /\ inFlight[r].step = "count"
    /\ inFlight' = [inFlight EXCEPT ![r].step = "decide", ![r].row = Tallied(inFlight[r].row)]
    /\ UNCHANGED <<members, proposal, ballots, crossing, torn, shrunk, ballotCount, joins>>

\* A vote that was changed and a participant who left since are seen or not.
DecideVotes(r) ==
    LET row == inFlight[r].row
        status == IF WonBy(row) THEN "approved"
                  ELSE IF LostBy(row, Cardinality(members)) THEN "rejected" ELSE row.status
    IN /\ inFlight[r].step = "decide"
       /\ inFlight' = [inFlight EXCEPT ![r].step = "save", ![r].row.status = status]
       /\ UNCHANGED <<members, proposal, ballots, crossing, torn, shrunk, ballotCount, joins>>

\* Every column that differs from the table is written, also the ones that others
\* changed since.
SaveTally(r) ==
    /\ inFlight[r].step = "save"
    /\ proposal' = inFlight[r].row
    /\ crossing' = (crossing \/ \E s \in GovRequests \ {r} : inFlight[s].step # "idle")
    /\ Done(r)
    /\ UNCHANGED <<members, ballots, torn, shrunk, ballotCount, joins>>

\* The server stops or the database fails after the vote was stored.
RequestDies(r) ==
    /\ inFlight[r].step \in {"count", "decide", "save"}
    /\ torn' = TRUE
    /\ inFlight' = [inFlight EXCEPT ![r] = Idle]
    /\ UNCHANGED <<members, proposal, ballots, crossing, shrunk, ballotCount, joins>>

executeProposal(r) ==
    /\ proposal.status = "approved"
    /\ Asking(r, "execute", BillCreator, "none")
    /\ UNCHANGED <<members, proposal, ballots, crossing, torn, shrunk, joins>>

SaveExecuted(r) ==
    /\ inFlight[r].step = "execute"
    /\ proposal' = [inFlight[r].row EXCEPT !.status = "executed"]
    /\ crossing' = (crossing \/ \E s \in GovRequests \ {r} : inFlight[s].step # "idle")
    /\ Done(r)
    /\ UNCHANGED <<members, ballots, torn, shrunk, ballotCount, joins>>

GovStep ==
    \/ JoinOrLeave \/ createProposal
    \/ \E r \in GovRequests :
         castVote(r) \/ StoreVote(r) \/ CountVotes(r) \/ DecideVotes(r) \/ SaveTally(r)
         \/ RequestDies(r) \/ executeProposal(r) \/ SaveExecuted(r)

Opened == proposal.status # "none"
GovNext ==
    /\ GovStep
    /\ backed' = (backed \/ (Opened /\ Count("approve") >= proposal.required)')
    /\ lost' = (lost \/ (Opened /\ Count("reject") > Cardinality(members) - proposal.required)')

-----------------------------------------------------------------------------
(* Properties *)

\* Whatever the requests overwrite, a decision rests on votes: what is approved or
\* disbursed had its approvals at one moment, what is rejected its refusals, unless
\* somebody left while a request had counted the votes and not yet the participants.
DecisionIsBacked ==
    /\ proposal.status \in {"approved", "executed"} => backed
    /\ proposal.status = "rejected" => lost \/ shrunk

\* When no request runs, the row shows the votes that are stored, and a majority
\* is not left waiting, as long as no two requests crossed and none died halfway:
\* after that a repeated vote returns early and nothing counts it any more.
TallyIsTrue ==
    (\A r \in GovRequests : inFlight[r].step = "idle") /\ ~crossing /\ ~torn =>
        /\ proposal.votesFor = Count("approve") /\ proposal.votesAgainst = Count("reject")
        /\ proposal.status = "pending" => proposal.votesFor < proposal.required

\* A decided proposal stays decided, whoever votes again or leaves the bill; only
\* a vote that crossed the decision takes it back.
DecisionStays ==
    [/\ proposal.status = "rejected" => proposal'.status = "rejected" \/ crossing'
     /\ proposal.status = "approved" => proposal'.status \in {"approved", "executed"} \/ crossing'
     /\ proposal.status = "executed" => proposal'.status = "executed" \/ crossing']_govVars
=============================================================================
