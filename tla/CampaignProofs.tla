--------------------------- MODULE CampaignProofs ---------------------------
(***************************************************************************)
(* Proofs about what campaigns and events promise.                         *)
(*                                                                         *)
(* First CampaignProposal, for any number of concurrent requests and       *)
(* sweeps, any bound on assignments and on crashes: what holds whatever    *)
(* the handlers overwrite (types, decisions that rest on votes, a feed     *)
(* that is true, no quorum only at the end of the picks), then what holds  *)
(* where no two handlers overlap.                                          *)
(*                                                                         *)
(* Then MCCommunity, component by component: an inductive invariant of     *)
(* each, that every step of it preserves, and what follows from it.  At    *)
(* the end the invariants are put together, for any people, requests,      *)
(* amounts and bounds.                                                     *)
(***************************************************************************)
EXTENDS CampaignProposal, MCCommunity, SumTheorems, FiniteSetTheorems, TLAPS

(***************************************************************************)
(* What is true of a copy of the row, and of a handler, given the picks p, *)
(* the assignments A and the committed votes R.                            *)
(***************************************************************************)
Answers(R, v) == {x.asg : x \in {y \in R : y.vote = v}}

EndOfPicks(p, A) == \E i \in DOMAIN A : A[i].sort = p - 1 /\ A[i].decision # "pending"

\* The counters of a copy are covered by votes, and its status by its counters.
RowOK(r, p, A, R) ==
    /\ r \in Row /\ r.current <= Len(A)
    /\ r.votesFor <= Cardinality(Answers(R, "approve"))
    /\ r.votesAgainst <= Cardinality(Answers(R, "reject"))
    /\ r.status = "pending" => r.votesFor < 2 /\ r.votesAgainst < 2 /\ r.reason = "none"
    /\ r.status # "pending" => r.current = 0
    /\ r.status \in {"approved", "executed"} => r.votesFor >= 2 /\ r.reason = "none"
    /\ r.status = "rejected" /\ r.reason = "none" => r.votesAgainst >= 2
    /\ r.reason = "no_quorum" => EndOfPicks(p, A)

\* A vote under way is not among those its copy has counted, also when
\* another request has answered the same assignment in the meantime.
NotCounted(l, R) ==
    /\ l.copy.votesFor <= Cardinality(Answers(R, "approve") \ {l.at})
    /\ l.copy.votesAgainst <= Cardinality(Answers(R, "reject") \ {l.at})

Labels == {"idle", "voteAsg", "voteTx", "advance", "announce", "cancel",
           "execute", "sweepNext", "sweepTimeout", "sweepRead"}

LocalOK(l, p, A, R) ==
    /\ l \in [pc: Labels, copy: Row, at: Nat, vote: Votes, todo: SUBSET (1..Len(A))]
    /\ RowOK(l.copy, p, A, R)
    /\ l.pc \in {"voteAsg", "voteTx", "advance", "sweepTimeout", "sweepRead"} => l.at \in 1..Len(A)
    /\ l.pc \in {"voteAsg", "voteTx"} => NotCounted(l, R)
    /\ l.pc \in {"voteAsg", "voteTx", "advance", "cancel"} => l.copy.status = "pending"
    /\ l.pc = "execute" => l.copy.status = "approved"
    /\ l.pc = "announce" => l.copy.status \in {"approved", "rejected"}
    /\ l.pc \in {"advance", "sweepRead"} => A[l.at].decision # "pending"

\* The whole state: rows, copies and handlers are as above, nobody has yet
\* answered the current assignment, and the feed is true.
WorldOK(p, A, R) ==
    /\ p \in PoolSizes
    /\ A \in Seq(Assignment) /\ Len(A) >= 1 /\ \A i \in DOMAIN A : A[i].sort < p
    /\ R \subseteq [asg: 1..Len(A), vote: Votes]

FeedOK(f, p, A, R) ==
    /\ f \subseteq {"approved", "rejected"}
    /\ "approved" \in f => Cardinality(Answers(R, "approve")) >= 2
    /\ "rejected" \in f => Cardinality(Answers(R, "reject")) >= 2 \/ EndOfPicks(p, A)

CopiesInv ==
    /\ WorldOK(pool, asg, responses)
    /\ RowOK(row, pool, asg, responses)
    /\ \A v \in Votes : row.current \notin Answers(responses, v)
    /\ DOMAIN loc = Handlers /\ loc = [h \in Handlers |-> loc[h]]
    /\ \A h \in Handlers : LocalOK(loc[h], pool, asg, responses)
    /\ FeedOK(feed, pool, asg, responses)
    /\ crashes \in 0..MaxCrashes

-----------------------------------------------------------------------------
(* Committed votes and answered assignments are never taken back *)

\* Assignments and votes only accumulate, and a decision is never undone.
Grows(A, R, B, S) ==
    /\ A \in Seq(Assignment) /\ B \in Seq(Assignment) /\ Len(A) <= Len(B)
    /\ \A i \in 1..Len(A) : /\ B[i].sort = A[i].sort
                            /\ A[i].decision # "pending" => B[i].decision # "pending"
    /\ R \subseteq S
    /\ S \subseteq [asg: 1..Len(B), vote: Votes]

\* The answered assignments are among those that exist, so they are finite.
LEMMA AnswersFinite ==
    ASSUME NEW n \in Nat, NEW R, R \subseteq [asg: 1..n, vote: Votes], NEW v
    PROVE  /\ Answers(R, v) \subseteq 1..n
           /\ IsFiniteSet(Answers(R, v)) /\ Cardinality(Answers(R, v)) \in Nat
<1>1. Answers(R, v) \subseteq 1..n
  BY DEF Answers
<1>2. IsFiniteSet(1..n)
  BY FS_Interval
<1>3. IsFiniteSet(Answers(R, v))
  BY <1>1, <1>2, FS_Subset
<1> QED
  BY <1>1, <1>3, FS_CardinalityType

\* The number of answers, also of those to other assignments, only grows.
LEMMA AnswersGrow ==
    ASSUME NEW n \in Nat, NEW R, NEW S, R \subseteq S,
           S \subseteq [asg: 1..n, vote: Votes], NEW v, NEW X
    PROVE  /\ Cardinality(Answers(R, v) \ X) \in Nat
           /\ Cardinality(Answers(S, v) \ X) \in Nat
           /\ Cardinality(Answers(R, v) \ X) <= Cardinality(Answers(S, v) \ X)
<1>1. IsFiniteSet(Answers(S, v))
  BY AnswersFinite
<1>2. /\ Answers(R, v) \ X \subseteq Answers(S, v) \ X
      /\ Answers(S, v) \ X \subseteq Answers(S, v)
  BY DEF Answers
<1>3. IsFiniteSet(Answers(S, v) \ X)
  BY <1>1, <1>2, FS_Subset
<1>4. /\ IsFiniteSet(Answers(R, v) \ X)
      /\ Cardinality(Answers(R, v) \ X) <= Cardinality(Answers(S, v) \ X)
  BY <1>2, <1>3, FS_Subset
<1> QED
  BY <1>3, <1>4, FS_CardinalityType

\* More assignments and answers leave the end of the picks where it was.
LEMMA EndStays ==
    ASSUME NEW A, NEW R, NEW B, NEW S, Grows(A, R, B, S), NEW p, EndOfPicks(p, A)
    PROVE  EndOfPicks(p, B)
<1>1. PICK i \in DOMAIN A : A[i].sort = p - 1 /\ A[i].decision # "pending"
  BY DEF EndOfPicks
<1>2. i \in 1..Len(A) /\ i \in DOMAIN B
  BY DEF Grows
<1> QED
  BY <1>1, <1>2 DEF Grows, EndOfPicks

\* A row or a copy of it that is covered by the answers stays so.
LEMMA RowStays ==
    ASSUME NEW A, NEW R, NEW B, NEW S, Grows(A, R, B, S), NEW p,
           NEW r, RowOK(r, p, A, R)
    PROVE  RowOK(r, p, B, S)
<1>1. Len(B) \in Nat /\ Len(A) \in Nat /\ r.current \in Nat /\ r.votesFor \in Nat
        /\ r.votesAgainst \in Nat
  BY DEF Grows, RowOK, Row
<1>2. /\ r.votesFor <= Cardinality(Answers(S, "approve"))
      /\ r.votesAgainst <= Cardinality(Answers(S, "reject"))
  <2>1. ASSUME NEW v
        PROVE  /\ Cardinality(Answers(R, v)) \in Nat /\ Cardinality(Answers(S, v)) \in Nat
               /\ Cardinality(Answers(R, v)) <= Cardinality(Answers(S, v))
    <3>1. Answers(R, v) \ {} = Answers(R, v) /\ Answers(S, v) \ {} = Answers(S, v)
      OBVIOUS
    <3>2. R \subseteq S /\ S \subseteq [asg: 1..Len(B), vote: Votes]
      BY DEF Grows
    <3>3. /\ Cardinality(Answers(R, v) \ {}) \in Nat
          /\ Cardinality(Answers(S, v) \ {}) \in Nat
          /\ Cardinality(Answers(R, v) \ {}) <= Cardinality(Answers(S, v) \ {})
      BY <1>1, <3>2, AnswersGrow
    <3> QED
      BY <3>1, <3>3
  <2> QED
    BY <1>1, <2>1 DEF RowOK
<1>3. r.reason = "no_quorum" => EndOfPicks(p, B)
  BY EndStays DEF RowOK
<1>4. r.current <= Len(B)
  BY <1>1 DEF RowOK, Grows
<1> QED
  BY <1>2, <1>3, <1>4 DEF RowOK

\* So does what a handler has loaded.
LEMMA LocalStays ==
    ASSUME NEW A, NEW R, NEW B, NEW S, Grows(A, R, B, S), NEW p,
           NEW l, LocalOK(l, p, A, R)
    PROVE  LocalOK(l, p, B, S)
<1>1. /\ Len(B) \in Nat /\ Len(A) \in Nat /\ Len(A) <= Len(B)
      /\ l.copy.votesFor \in Nat /\ l.copy.votesAgainst \in Nat /\ l.at \in Nat
  BY DEF Grows, LocalOK, RowOK, Row
<1>2. RowOK(l.copy, p, B, S)
  BY RowStays DEF LocalOK
<1>3. NotCounted(l, R) => NotCounted(l, S)
  <2>1. ASSUME NEW v
        PROVE  /\ Cardinality(Answers(R, v) \ {l.at}) \in Nat
               /\ Cardinality(Answers(S, v) \ {l.at}) \in Nat
               /\ Cardinality(Answers(R, v) \ {l.at}) <= Cardinality(Answers(S, v) \ {l.at})
    <3>1. R \subseteq S /\ S \subseteq [asg: 1..Len(B), vote: Votes]
      BY DEF Grows
    <3> QED
      BY <1>1, <3>1, AnswersGrow
  <2> DEFINE R1 == Cardinality(Answers(R, "approve") \ {l.at})
             R2 == Cardinality(Answers(R, "reject") \ {l.at})
             S1 == Cardinality(Answers(S, "approve") \ {l.at})
             S2 == Cardinality(Answers(S, "reject") \ {l.at})
  <2>2. R1 \in Nat /\ S1 \in Nat /\ R1 <= S1
    BY <2>1
  <2>3. R2 \in Nat /\ S2 \in Nat /\ R2 <= S2
    BY <2>1
  <2>4. /\ NotCounted(l, R) <=> l.copy.votesFor <= R1 /\ l.copy.votesAgainst <= R2
        /\ NotCounted(l, S) <=> l.copy.votesFor <= S1 /\ l.copy.votesAgainst <= S2
    BY DEF NotCounted
  <2> HIDE DEF R1, R2, S1, S2
  <2> QED
    BY <1>1, <2>2, <2>3, <2>4
<1>4. l \in [pc: Labels, copy: Row, at: Nat, vote: Votes, todo: SUBSET (1..Len(B))]
  BY <1>1 DEF LocalOK
<1>5. l.at \in 1..Len(A) => l.at \in 1..Len(B)
  BY <1>1
<1>6. l.pc \in {"advance", "sweepRead"} => B[l.at].decision # "pending"
  BY DEF LocalOK, Grows
<1> QED
  BY <1>2, <1>3, <1>4, <1>5, <1>6 DEF LocalOK

-----------------------------------------------------------------------------
(* One handler moves, the others stay as they were *)

\* A step in which what exists grows and only handler h changes, to l, keeps
\* every handler as it should be.
LEMMA OneMoves ==
    ASSUME CopiesInv, Grows(asg, responses, asg', responses'), pool' = pool,
           NEW h \in Handlers, NEW l, LocalOK(l, pool, asg', responses'),
           loc' = [loc EXCEPT ![h] = l]
    PROVE  /\ DOMAIN loc' = Handlers /\ loc' = [g \in Handlers |-> loc'[g]]
           /\ \A g \in Handlers : LocalOK(loc'[g], pool', asg', responses')
<1>1. /\ DOMAIN loc = Handlers /\ loc = [g \in Handlers |-> loc[g]]
      /\ \A g \in Handlers : LocalOK(loc[g], pool, asg, responses)
  BY DEF CopiesInv
<1>2. \A g \in Handlers : loc'[g] = IF g = h THEN l ELSE loc[g]
  BY <1>1
<1>3. \A g \in Handlers : LocalOK(loc[g], pool, asg', responses')
  BY <1>1, LocalStays
<1>4. DOMAIN loc' = Handlers /\ loc' = [g \in Handlers |-> loc'[g]]
  BY <1>1
<1> QED
  BY <1>2, <1>3, <1>4

\* So does what was published.
LEMMA FeedStays ==
    ASSUME NEW A, NEW R, NEW B, NEW S, Grows(A, R, B, S), NEW p,
           NEW f, FeedOK(f, p, A, R)
    PROVE  FeedOK(f, p, B, S)
<1>1. ASSUME NEW v
      PROVE  /\ Cardinality(Answers(R, v)) \in Nat /\ Cardinality(Answers(S, v)) \in Nat
             /\ Cardinality(Answers(R, v)) <= Cardinality(Answers(S, v))
  <2>1. Answers(R, v) \ {} = Answers(R, v) /\ Answers(S, v) \ {} = Answers(S, v)
    OBVIOUS
  <2>2. R \subseteq S /\ S \subseteq [asg: 1..Len(B), vote: Votes] /\ Len(B) \in Nat
    BY DEF Grows
  <2>3. /\ Cardinality(Answers(R, v) \ {}) \in Nat
        /\ Cardinality(Answers(S, v) \ {}) \in Nat
        /\ Cardinality(Answers(R, v) \ {}) <= Cardinality(Answers(S, v) \ {})
    BY <2>2, AnswersGrow
  <2> QED
    BY <2>1, <2>3
<1>2. EndOfPicks(p, A) => EndOfPicks(p, B)
  BY EndStays
<1>3. "approved" \in f => Cardinality(Answers(S, "approve")) >= 2
  BY <1>1 DEF FeedOK
<1>4. "rejected" \in f => Cardinality(Answers(S, "reject")) >= 2 \/ EndOfPicks(p, B)
  BY <1>1, <1>2 DEF FeedOK
<1> QED
  BY <1>3, <1>4 DEF FeedOK

\* A handler that starts, or returns, is as it should be.
LEMMA IdleOK ==
    ASSUME NEW p, NEW A, NEW R, WorldOK(p, A, R),
           NEW T \in SUBSET (1..Len(A)), NEW s \in {"idle", "sweepNext"}
    PROVE  /\ LocalOK([Idle EXCEPT !.pc = s, !.todo = T], p, A, R)
           /\ LocalOK(Idle, p, A, R)
           /\ RowOK(FirstRow, p, A, R)
<1>1. Len(A) \in Nat /\ Len(A) >= 1
  BY DEF WorldOK
<1>2. FirstRow \in Row
  BY DEF FirstRow, Row, Settled
<1>3. /\ Cardinality(Answers(R, "approve")) \in Nat
      /\ Cardinality(Answers(R, "reject")) \in Nat
  BY <1>1, AnswersFinite DEF WorldOK
<1>4. RowOK(FirstRow, p, A, R)
  BY <1>1, <1>2, <1>3 DEF RowOK, FirstRow
<1> DEFINE Fresh(q, X) == [pc |-> q, copy |-> FirstRow, at |-> 0, vote |-> "approve", todo |-> X]
<1>5. ASSUME NEW l, l = [Idle EXCEPT !.pc = s, !.todo = T]
      PROVE  l = Fresh(s, T)
  BY <1>5 DEF Idle
<1>8. Idle = Fresh("idle", {})
  BY DEF Idle
<1>6. ASSUME NEW q \in {"idle", "sweepNext"}, NEW X \in SUBSET (1..Len(A))
      PROVE  LocalOK(Fresh(q, X), p, A, R)
  <2>1. Fresh(q, X) \in [pc: Labels, copy: Row, at: Nat, vote: Votes, todo: SUBSET (1..Len(A))]
    BY <1>2 DEF Labels, Votes
  <2> QED
    BY <1>4, <2>1 DEF LocalOK
<1>7. LocalOK(Fresh(s, T), p, A, R) /\ LocalOK(Fresh("idle", {}), p, A, R)
  BY <1>6
<1> HIDE DEF Fresh
<1> QED
  BY <1>4, <1>5, <1>7, <1>8

\* What a handler's return leaves is as it should be.
LEMMA ReturnOK ==
    ASSUME CopiesInv, Grows(asg, responses, asg', responses'), pool' = pool,
           WorldOK(pool, asg', responses'), NEW h \in Handlers, Return(h)
    PROVE  \E l : loc' = [loc EXCEPT ![h] = l] /\ LocalOK(l, pool, asg', responses')
<1>1. loc[h].todo \in SUBSET (1..Len(asg'))
  BY DEF CopiesInv, LocalOK, Grows
<1>2. CASE loc[h].todo = {}
  BY <1>2, IdleOK DEF Return, Become
<1>3. CASE loc[h].todo # {}
  <2>1. LocalOK([Idle EXCEPT !.pc = "sweepNext", !.todo = loc[h].todo], pool, asg', responses')
    BY <1>1, IdleOK
  <2> QED
    BY <1>3, <2>1 DEF Return, Become
<1> QED
  BY <1>2, <1>3

\* Nothing was created, answered or committed.
LEMMA SameWorld ==
    ASSUME CopiesInv, UNCHANGED <<pool, asg, responses>>
    PROVE  Grows(asg, responses, asg', responses') /\ WorldOK(pool, asg', responses')
BY DEF CopiesInv, WorldOK, Grows

\* A step of handler h keeps the invariant when what it writes is as it should be.
LEMMA HandlerStep ==
    ASSUME CopiesInv, Grows(asg, responses, asg', responses'), pool' = pool,
           WorldOK(pool, asg', responses'),
           RowOK(row', pool, asg', responses'),
           \A v \in Votes : row'.current \notin Answers(responses', v),
           FeedOK(feed', pool, asg', responses'), crashes' = crashes,
           NEW h \in Handlers, NEW l, LocalOK(l, pool, asg', responses'),
           loc' = [loc EXCEPT ![h] = l]
    PROVE  CopiesInv'
<1>1. /\ DOMAIN loc' = Handlers /\ loc' = [g \in Handlers |-> loc'[g]]
      /\ \A g \in Handlers : LocalOK(loc'[g], pool', asg', responses')
  BY OneMoves
<1> QED
  BY <1>1 DEF CopiesInv

\* A step of handler h that only reads.
LEMMA ReadingStep ==
    ASSUME CopiesInv, UNCHANGED <<pool, row, asg, responses, feed, crashes>>,
           NEW h \in Handlers, NEW l, LocalOK(l, pool, asg, responses),
           loc' = [loc EXCEPT ![h] = l]
    PROVE  CopiesInv'
<1>1. Grows(asg, responses, asg', responses') /\ WorldOK(pool, asg', responses')
  BY SameWorld
<1>2. /\ RowOK(row', pool, asg', responses')
      /\ \A v \in Votes : row'.current \notin Answers(responses', v)
      /\ FeedOK(feed', pool, asg', responses')
      /\ LocalOK(l, pool, asg', responses')
  BY DEF CopiesInv
<1> QED
  BY <1>1, <1>2, HandlerStep

\* A step of handler h that saves the row, without an assignee, and its copy.
LEMMA SavingStep ==
    ASSUME CopiesInv, UNCHANGED <<pool, asg, responses, feed, crashes>>,
           RowOK(row', pool, asg, responses), row'.current = 0,
           NEW h \in Handlers, NEW l, LocalOK(l, pool, asg, responses),
           loc' = [loc EXCEPT ![h] = l]
    PROVE  CopiesInv'
<1>1. Grows(asg, responses, asg', responses') /\ WorldOK(pool, asg', responses')
  BY SameWorld
<1>2. \A v \in Votes : 0 \notin Answers(responses', v)
  <2>1. \A v : Answers(responses', v) \subseteq 1..Len(asg')
    BY <1>1 DEF WorldOK, Answers
  <2> QED
    BY <2>1
<1>3. /\ RowOK(row', pool, asg', responses')
      /\ FeedOK(feed', pool, asg', responses')
      /\ LocalOK(l, pool, asg', responses')
  BY DEF CopiesInv
<1> QED
  BY <1>1, <1>2, <1>3, HandlerStep

-----------------------------------------------------------------------------
(* Votes *)

\* A vote reads the proposal.
LEMMA ReadsProposalOK ==
    ASSUME CopiesInv, NEW h \in Requests, VoteReadsProposal(h)
    PROVE  CopiesInv'
<1>1. PICK v \in Votes :
        loc' = [loc EXCEPT ![h] =
                  [Idle EXCEPT !.pc = "voteAsg", !.copy = row, !.at = row.current, !.vote = v]]
  BY DEF VoteReadsProposal, Become
<1>2. ASSUME NEW l, l = [Idle EXCEPT !.pc = "voteAsg", !.copy = row, !.at = row.current, !.vote = v]
      PROVE  LocalOK(l, pool, asg, responses)
  <2>1. /\ RowOK(row, pool, asg, responses) /\ row.status = "pending"
        /\ row.current # 0 /\ Len(asg) \in Nat
    BY DEF CopiesInv, WorldOK, VoteReadsProposal
  <2>2. row \in Row /\ row.current \in 1..Len(asg) /\ row.current \in Nat
    BY <2>1 DEF RowOK, Row
  <2>3. l \in [pc: Labels, copy: Row, at: Nat, vote: Votes, todo: SUBSET (1..Len(asg))]
    BY <1>2, <2>2 DEF Idle, Labels
  <2>4. l.pc = "voteAsg" /\ l.copy = row /\ l.at = row.current
    BY <1>2 DEF Idle
  <2>5. NotCounted(l, responses)
    <3>1. \A w \in Votes : Answers(responses, w) \ {l.at} = Answers(responses, w)
      BY <2>4 DEF CopiesInv
    <3>2. /\ Answers(responses, "approve") \ {l.at} = Answers(responses, "approve")
          /\ Answers(responses, "reject") \ {l.at} = Answers(responses, "reject")
      BY <3>1 DEF Votes
    <3> QED
      BY <3>2, <2>1, <2>4 DEF NotCounted, RowOK
  <2> QED
    BY <2>1, <2>2, <2>3, <2>4, <2>5 DEF LocalOK
<1>3. UNCHANGED <<pool, row, asg, responses, feed, crashes>> /\ h \in Handlers
  BY DEF VoteReadsProposal, Handlers
<1> QED
  BY <1>1, <1>2, <1>3, ReadingStep

\* A vote reads its assignment.
LEMMA ReadsAssignmentOK ==
    ASSUME CopiesInv, NEW h \in Handlers, VoteReadsAssignment(h)
    PROVE  CopiesInv'
<1>1. UNCHANGED <<pool, row, asg, responses, feed, crashes>>
  BY DEF VoteReadsAssignment
<1>2. Grows(asg, responses, asg', responses') /\ WorldOK(pool, asg', responses')
  BY <1>1, SameWorld
<1>3. CASE Return(h)
  <2>1. PICK l : loc' = [loc EXCEPT ![h] = l] /\ LocalOK(l, pool, asg', responses')
    BY <1>1, <1>2, <1>3, ReturnOK
  <2> QED
    BY <1>1, <2>1, ReadingStep
<1>4. CASE GoTo(h, "voteTx")
  <2>1. LocalOK(loc[h], pool, asg, responses) /\ loc[h].pc = "voteAsg"
    BY DEF CopiesInv, VoteReadsAssignment, At
  <2>2. ASSUME NEW l, l = [loc[h] EXCEPT !.pc = "voteTx"]
        PROVE  LocalOK(l, pool, asg, responses)
    <3>1. l \in [pc: Labels, copy: Row, at: Nat, vote: Votes, todo: SUBSET (1..Len(asg))]
      BY <2>1, <2>2 DEF LocalOK, Labels
    <3>2. l.pc = "voteTx" /\ l.copy = loc[h].copy /\ l.at = loc[h].at
      BY <2>1, <2>2 DEF LocalOK
    <3> QED
      BY <2>1, <3>1, <3>2 DEF LocalOK, NotCounted
  <2> QED
    BY <1>1, <1>4, <2>2, ReadingStep DEF GoTo, Become
<1> QED
  BY <1>3, <1>4 DEF VoteReadsAssignment

\* The votes once v is committed for assignment i.
WithVote(R, i, v) == R \cup {[asg |-> i, vote |-> v]}

\* What a committed vote adds to the answers.
AddsOne(R, i, v) ==
    /\ Cardinality(Answers(WithVote(R, i, v), v)) = Cardinality(Answers(R, v) \ {i}) + 1
    /\ \A w \in Votes : w # v => Answers(WithVote(R, i, v), w) = Answers(R, w)

\* A vote adds its assignment to those answered its way, and nothing else.
LEMMA OneMoreAnswer ==
    ASSUME NEW n \in Nat, NEW R \in SUBSET [asg: 1..n, vote: Votes],
           NEW i \in 1..n, NEW v \in Votes
    PROVE  WithVote(R, i, v) \subseteq [asg: 1..n, vote: Votes] /\ AddsOne(R, i, v)
<1> DEFINE S == WithVote(R, i, v)
<1>0. S = R \cup {[asg |-> i, vote |-> v]}
  BY DEF WithVote
<1> HIDE DEF S
<1>1. S \subseteq [asg: 1..n, vote: Votes]
  BY <1>0
<1>2. Answers(S, v) = (Answers(R, v) \ {i}) \cup {i}
  <2>1. i \in Answers(S, v)
    <3> DEFINE x == [asg |-> i, vote |-> v]
    <3>1. x \in S /\ x.vote = v /\ x.asg = i
      BY <1>0
    <3> HIDE DEF x
    <3> QED
      BY <3>1 DEF Answers
  <2>2. Answers(R, v) \subseteq Answers(S, v)
    BY <1>0 DEF Answers
  <2>3. ASSUME NEW j \in Answers(S, v), j # i PROVE j \in Answers(R, v)
    BY <1>0, <2>3 DEF Answers
  <2> QED
    BY <2>1, <2>2, <2>3
<1>3. \A w \in Votes : w # v => Answers(S, w) = Answers(R, w)
  BY <1>0 DEF Answers
<1>4. IsFiniteSet(Answers(R, v) \ {i})
  BY AnswersFinite, FS_Subset
<1>5. i \notin Answers(R, v) \ {i}
  OBVIOUS
<1>6. Cardinality(Answers(S, v)) = Cardinality(Answers(R, v) \ {i}) + 1
  BY <1>2, <1>4, <1>5, FS_AddElement
<1> QED
  BY <1>1, <1>3, <1>6 DEF S, AddsOne

\* The handler's copy after a save.
LEMMA SavedLocal ==
    ASSUME NEW p, NEW A, NEW R, NEW l, LocalOK(l, p, A, R),
           NEW r, RowOK(r, p, A, R), NEW label,
           \/ label = "announce" /\ r.status \in {"approved", "rejected"}
           \/ /\ label = "advance" /\ r.status = "pending"
              /\ l.at \in 1..Len(A) /\ A[l.at].decision # "pending",
           NEW k, k = [l EXCEPT !.pc = label, !.copy = r]
    PROVE  LocalOK(k, p, A, R)
<1>1. k \in [pc: Labels, copy: Row, at: Nat, vote: Votes, todo: SUBSET (1..Len(A))]
  BY DEF LocalOK, RowOK, Labels
<1>2. k.pc = label /\ k.copy = r /\ k.at = l.at
  BY DEF LocalOK
<1> QED
  BY <1>1, <1>2 DEF LocalOK

\* Counting a vote that is not yet among the answers.
LEMMA SettledCounts ==
    ASSUME NEW n \in Nat, NEW R \in SUBSET [asg: 1..n, vote: Votes],
           NEW i \in 1..n, NEW v \in Votes, NEW c \in Row,
           c.status = "pending", c.reason = "none", c.votesFor < 2, c.votesAgainst < 2,
           c.votesFor <= Cardinality(Answers(R, "approve")),
           c.votesAgainst <= Cardinality(Answers(R, "reject")),
           c.votesFor <= Cardinality(Answers(R, "approve") \ {i}),
           c.votesAgainst <= Cardinality(Answers(R, "reject") \ {i}),
           NEW r, r = CountedRow(c, v)
    PROVE  /\ r \in Row /\ r.status = "pending" /\ r.reason = "none"
           /\ r.votesFor <= Cardinality(Answers(WithVote(R, i, v), "approve"))
           /\ r.votesAgainst <= Cardinality(Answers(WithVote(R, i, v), "reject"))
<1>1. c.votesFor \in Nat /\ c.votesAgainst \in Nat
  BY DEF Row
<1>2. CASE v = "approve"
  <2>1. r = [c EXCEPT !.votesFor = @ + 1]
    BY <1>2 DEF CountedRow
  <2>2. r \in Row /\ r.status = "pending" /\ r.reason = "none"
        /\ r.votesFor = c.votesFor + 1 /\ r.votesAgainst = c.votesAgainst
    BY <1>1, <2>1 DEF Row
  <2>3. /\ Cardinality(Answers(WithVote(R, i, v), "approve")) = Cardinality(Answers(R, "approve") \ {i}) + 1
        /\ Answers(WithVote(R, i, v), "reject") = Answers(R, "reject")
    <3>1. "reject" \in Votes /\ "reject" # v
      BY <1>2 DEF Votes
    <3>2. /\ Cardinality(Answers(WithVote(R, i, v), v)) = Cardinality(Answers(R, v) \ {i}) + 1
          /\ \A w \in Votes : w # v => Answers(WithVote(R, i, v), w) = Answers(R, w)
      <4>1. AddsOne(R, i, v)
        BY OneMoreAnswer
      <4> QED
        BY <4>1 DEF AddsOne
    <3> QED
      BY <1>2, <3>1, <3>2
  <2>4. Cardinality(Answers(R, "approve") \ {i}) \in Nat
    BY AnswersGrow
  <2> QED
    BY <1>1, <2>2, <2>3, <2>4
<1>3. CASE v = "reject"
  <2>1. r = [c EXCEPT !.votesAgainst = @ + 1]
    BY <1>3 DEF CountedRow
  <2>2. r \in Row /\ r.status = "pending" /\ r.reason = "none"
        /\ r.votesAgainst = c.votesAgainst + 1 /\ r.votesFor = c.votesFor
    BY <1>1, <2>1 DEF Row
  <2>3. /\ Cardinality(Answers(WithVote(R, i, v), "reject")) = Cardinality(Answers(R, "reject") \ {i}) + 1
        /\ Answers(WithVote(R, i, v), "approve") = Answers(R, "approve")
    <3>1. "approve" \in Votes /\ "approve" # v
      BY <1>3 DEF Votes
    <3>2. /\ Cardinality(Answers(WithVote(R, i, v), v)) = Cardinality(Answers(R, v) \ {i}) + 1
          /\ \A w \in Votes : w # v => Answers(WithVote(R, i, v), w) = Answers(R, w)
      <4>1. AddsOne(R, i, v)
        BY OneMoreAnswer
      <4> QED
        BY <4>1 DEF AddsOne
    <3> QED
      BY <1>3, <3>1, <3>2
  <2>4. Cardinality(Answers(R, "reject") \ {i}) \in Nat
    BY AnswersGrow
  <2> QED
    BY <1>1, <2>2, <2>3, <2>4
<1> QED
  BY <1>1, <1>2, <1>3 DEF Votes

\* What applySettlement makes of a copy.
LEMMA SettledRowIs ==
    ASSUME NEW r \in Row, NEW s \in {"approved", "rejected"},
           NEW c \in {"none", "no_quorum"}, NEW q, q = SettledRow(r, s, c)
    PROVE  /\ q \in Row /\ q.status = s /\ q.current = 0 /\ q.reason = c
           /\ q.votesFor = r.votesFor /\ q.votesAgainst = r.votesAgainst
<1>1. q = [r EXCEPT !.status = s, !.current = 0, !.reason = c]
  BY DEF SettledRow
<1>2. s \in {"pending"} \cup Settled
  BY DEF Settled
<1>3. /\ q.status = s /\ q.current = 0 /\ q.reason = c
      /\ q.votesFor = r.votesFor /\ q.votesAgainst = r.votesAgainst
  BY <1>1 DEF Row
<1> DEFINE a == [r EXCEPT !.status = s]
           b == [a EXCEPT !.current = 0]
<1>4. a \in Row
  BY <1>2 DEF Row
<1> HIDE DEF a
<1>5. b \in Row
  BY <1>4 DEF Row
<1> HIDE DEF b
<1>6. [b EXCEPT !.reason = c] \in Row
  BY <1>5 DEF Row
<1>7. q = [b EXCEPT !.reason = c]
  BY <1>1 DEF a, b
<1> QED
  BY <1>3, <1>6, <1>7

\* A vote is committed.
LEMMA CommitsOK ==
    ASSUME CopiesInv, NEW h \in Handlers, VoteCommits(h)
    PROVE  CopiesInv'
<1> DEFINE l == loc[h]
           S == WithVote(responses, l.at, l.vote)
           r == CountedRow(l.copy, l.vote)
<1>1. /\ WorldOK(pool, asg, responses) /\ LocalOK(l, pool, asg, responses)
      /\ l.pc = "voteTx" /\ l.at \in 1..Len(asg) /\ l.vote \in Votes
      /\ asg \in Seq(Assignment) /\ Len(asg) \in Nat
  BY DEF CopiesInv, VoteCommits, At, LocalOK, WorldOK
<1>2. /\ asg' = [asg EXCEPT ![l.at].decision = l.vote]
      /\ responses' = S /\ UNCHANGED <<pool, feed, crashes>>
  BY DEF VoteCommits, WithVote
<1>3. /\ asg' \in Seq(Assignment) /\ Len(asg') = Len(asg)
      /\ \A i \in 1..Len(asg) : /\ asg'[i].sort = asg[i].sort
                                /\ asg[i].decision # "pending" => asg'[i].decision # "pending"
      /\ asg'[l.at].decision # "pending"
  <2>1. \A i \in 1..Len(asg) : asg[i] \in Assignment
    BY <1>1
  <2>2. [asg[l.at] EXCEPT !.decision = l.vote] \in Assignment
    BY <1>1, <2>1 DEF Assignment
  <2>3. asg' = [asg EXCEPT ![l.at] = [asg[l.at] EXCEPT !.decision = l.vote]]
    BY <1>2
  <2>4. asg' \in Seq(Assignment) /\ Len(asg') = Len(asg)
    BY <1>1, <2>2, <2>3
  <2>5. \A i \in 1..Len(asg) :
          asg'[i] = IF i = l.at THEN [asg[l.at] EXCEPT !.decision = l.vote] ELSE asg[i]
    BY <1>1, <2>3
  <2>6. /\ [asg[l.at] EXCEPT !.decision = l.vote].sort = asg[l.at].sort
        /\ [asg[l.at] EXCEPT !.decision = l.vote].decision = l.vote
    BY <1>1, <2>1 DEF Assignment
  <2> QED
    BY <1>1, <2>4, <2>5, <2>6 DEF Votes
<1>4. /\ responses' \subseteq [asg: 1..Len(asg'), vote: Votes]
      /\ responses \subseteq responses'
  BY <1>1, <1>2, <1>3, OneMoreAnswer DEF WorldOK, WithVote
<1>5. Grows(asg, responses, asg', responses')
  BY <1>1, <1>3, <1>4 DEF Grows
<1>6. WorldOK(pool, asg', responses')
  <2>1. \A i \in DOMAIN asg' : i \in 1..Len(asg) /\ i \in DOMAIN asg /\ asg'[i].sort = asg[i].sort
    BY <1>1, <1>3
  <2>2. /\ pool \in PoolSizes /\ Len(asg') >= 1
        /\ \A i \in DOMAIN asg : asg[i].sort < pool
    BY <1>1, <1>3 DEF WorldOK
  <2> QED
    BY <1>3, <1>4, <2>1, <2>2 DEF WorldOK
<1>7. /\ r \in Row /\ r.status = "pending" /\ r.reason = "none"
      /\ r.votesFor <= Cardinality(Answers(S, "approve"))
      /\ r.votesAgainst <= Cardinality(Answers(S, "reject"))
  <2>1. /\ l.copy \in Row /\ l.copy.status = "pending" /\ l.copy.reason = "none"
        /\ l.copy.votesFor < 2 /\ l.copy.votesAgainst < 2
        /\ l.copy.votesFor <= Cardinality(Answers(responses, "approve"))
        /\ l.copy.votesAgainst <= Cardinality(Answers(responses, "reject"))
        /\ l.copy.votesFor <= Cardinality(Answers(responses, "approve") \ {l.at})
        /\ l.copy.votesAgainst <= Cardinality(Answers(responses, "reject") \ {l.at})
    BY <1>1 DEF LocalOK, RowOK, NotCounted
  <2> QED
    BY <1>1, <2>1, SettledCounts DEF WorldOK
<1>8. LocalOK(l, pool, asg', responses')
  BY <1>1, <1>5, LocalStays
<1>9. FeedOK(feed', pool, asg', responses')
  BY <1>2, <1>5, FeedStays DEF CopiesInv
<1>10. \A v \in Votes : 0 \notin Answers(responses', v)
  BY <1>4 DEF Answers
<1> HIDE DEF l, r, S
<1>11. ASSUME NEW q, RowOK(q, pool, asg', responses'), q.current = 0, NEW label,
              SaveAndGoTo(h, q, label),
              \/ label = "announce" /\ q.status \in {"approved", "rejected"}
              \/ label = "advance" /\ q.status = "pending"
       PROVE  CopiesInv'
  <2>1. row' = q /\ loc' = [loc EXCEPT ![h] = [l EXCEPT !.pc = label, !.copy = q]]
    BY <1>11 DEF SaveAndGoTo, Become, l
  <2>2. LocalOK([l EXCEPT !.pc = label, !.copy = q], pool, asg', responses')
    <3>1. l.at \in 1..Len(asg')
      BY <1>1, <1>3
    <3> QED
      BY <1>3, <1>8, <1>11, <3>1, SavedLocal
  <2> QED
    BY <1>2, <1>5, <1>6, <1>9, <1>10, <1>11, <2>1, <2>2, HandlerStep
<1>12. CASE r.votesFor >= RequiredApprovals
            /\ SaveAndGoTo(h, SettledRow(r, "approved", "none"), "announce")
  <2>1. ASSUME NEW q, q = SettledRow(r, "approved", "none")
        PROVE  RowOK(q, pool, asg', responses') /\ q.current = 0 /\ q.status = "approved"
    <3>1. /\ q \in Row /\ q.status = "approved" /\ q.current = 0 /\ q.reason = "none"
          /\ q.votesFor = r.votesFor /\ q.votesAgainst = r.votesAgainst
      BY <1>7, <2>1, SettledRowIs
    <3> QED
      BY <1>2, <1>3, <1>1, <1>7, <1>12, <3>1 DEF RowOK, RequiredApprovals
  <2> QED
    BY <1>11, <1>12, <2>1
<1>13. CASE r.votesFor < RequiredApprovals /\ r.votesAgainst >= RequiredApprovals
            /\ SaveAndGoTo(h, SettledRow(r, "rejected", "none"), "announce")
  <2>1. ASSUME NEW q, q = SettledRow(r, "rejected", "none")
        PROVE  RowOK(q, pool, asg', responses') /\ q.current = 0 /\ q.status = "rejected"
    <3>1. /\ q \in Row /\ q.status = "rejected" /\ q.current = 0 /\ q.reason = "none"
          /\ q.votesFor = r.votesFor /\ q.votesAgainst = r.votesAgainst
      BY <1>7, <2>1, SettledRowIs
    <3> QED
      BY <1>2, <1>3, <1>1, <1>7, <1>13, <3>1 DEF RowOK, RequiredApprovals
  <2> QED
    BY <1>11, <1>13, <2>1
<1>14. CASE r.votesFor < RequiredApprovals /\ r.votesAgainst < RequiredApprovals
            /\ SaveAndGoTo(h, [r EXCEPT !.current = 0], "advance")
  <2>1. ASSUME NEW q, q = [r EXCEPT !.current = 0]
        PROVE  RowOK(q, pool, asg', responses') /\ q.current = 0 /\ q.status = "pending"
    BY <1>1, <1>2, <1>3, <1>7, <1>14, <2>1 DEF RowOK, Row, RequiredApprovals
  <2> QED
    BY <1>11, <1>14, <2>1
<1> QED
  BY <1>12, <1>13, <1>14 DEF VoteCommits, l, r

-----------------------------------------------------------------------------
(* Advancing, announcing, the sweep *)

\* The next donor is picked, or the proposal is decided.
LEMMA AdvanceOK ==
    ASSUME CopiesInv, NEW h \in Handlers, Advance(h)
    PROVE  CopiesInv'
<1> DEFINE l == loc[h]
           next == asg[l.at].sort + 1
<1>1. /\ WorldOK(pool, asg, responses) /\ LocalOK(l, pool, asg, responses)
      /\ l.pc = "advance" /\ l.at \in 1..Len(asg) /\ asg[l.at].decision # "pending"
      /\ RowOK(l.copy, pool, asg, responses) /\ l.copy \in Row /\ l.copy.status = "pending"
      /\ asg \in Seq(Assignment) /\ Len(asg) \in Nat
      /\ UNCHANGED <<pool, responses, feed, crashes>>
  BY DEF CopiesInv, Advance, At, LocalOK, WorldOK, RowOK
<1>2. /\ asg[l.at].sort \in 0..2 /\ asg[l.at].sort < pool /\ pool \in 1..3
      /\ next \in Nat
  <2>1. asg[l.at] \in Assignment /\ asg[l.at].sort < pool
    BY <1>1 DEF WorldOK
  <2>2. pool \in 1..3
    BY <1>1, PoolAssumption DEF WorldOK
  <2>3. asg[l.at].sort \in 0..2
    BY <2>1 DEF Assignment
  <2> QED
    BY <2>1, <2>2, <2>3
<1>3. CASE /\ next >= pool
           /\ SaveAndGoTo(h, SettledRow(l.copy, "rejected", "no_quorum"), "announce")
           /\ UNCHANGED asg
  <2>1. EndOfPicks(pool, asg)
    <3>1. asg[l.at].sort = pool - 1 /\ l.at \in DOMAIN asg
      BY <1>1, <1>2, <1>3
    <3> QED
      BY <1>1, <3>1 DEF EndOfPicks
  <2>2. ASSUME NEW q, q = SettledRow(l.copy, "rejected", "no_quorum")
        PROVE  RowOK(q, pool, asg, responses) /\ q.current = 0 /\ q.status = "rejected"
    <3>1. /\ q \in Row /\ q.status = "rejected" /\ q.current = 0 /\ q.reason = "no_quorum"
          /\ q.votesFor = l.copy.votesFor /\ q.votesAgainst = l.copy.votesAgainst
      BY <1>1, <2>2, SettledRowIs
    <3> QED
      BY <1>1, <2>1, <3>1 DEF RowOK
  <2>3. ASSUME NEW q, q = SettledRow(l.copy, "rejected", "no_quorum"),
               NEW k, k = [l EXCEPT !.pc = "announce", !.copy = q]
        PROVE  LocalOK(k, pool, asg, responses)
    <3> HIDE DEF l
    <3> QED
      BY <1>1, <2>2, <2>3, SavedLocal
  <2> QED
    BY <1>1, <1>3, <2>2, <2>3, SavingStep DEF SaveAndGoTo, Become
<1>4. CASE /\ next < pool
           /\ asg' = Append(asg, NewAssignment(next))
           /\ row' = [l.copy EXCEPT !.current = Len(asg) + 1]
           /\ Return(h)
  <2>1. NewAssignment(next) \in Assignment /\ NewAssignment(next).sort = next
    BY <1>2, <1>4 DEF NewAssignment, Assignment, Votes
  <2>2. /\ asg' \in Seq(Assignment) /\ Len(asg') = Len(asg) + 1
        /\ \A i \in 1..Len(asg) : asg'[i] = asg[i]
        /\ asg'[Len(asg) + 1] = NewAssignment(next)
    BY <1>1, <1>4, <2>1
  <2>3. responses' \subseteq [asg: 1..Len(asg), vote: Votes]
    BY <1>1 DEF WorldOK
  <2>4. responses' \subseteq [asg: 1..Len(asg'), vote: Votes]
    BY <1>1, <2>2, <2>3
  <2>5. Grows(asg, responses, asg', responses')
    BY <1>1, <2>2, <2>4 DEF Grows
  <2>6. WorldOK(pool, asg', responses')
    <3>1. \A i \in DOMAIN asg' : i \in 1..Len(asg) \/ i = Len(asg) + 1
      BY <1>1, <2>2
    <3>2. \A i \in 1..Len(asg) : asg[i].sort < pool
      BY <1>1 DEF WorldOK
    <3>3. \A i \in DOMAIN asg' : asg'[i].sort < pool
      BY <1>4, <2>1, <2>2, <3>1, <3>2
    <3>4. pool \in PoolSizes /\ Len(asg') >= 1
      BY <1>1, <2>2 DEF WorldOK
    <3> QED
      BY <2>2, <2>4, <3>3, <3>4 DEF WorldOK
  <2>7. ASSUME NEW q, q = [l.copy EXCEPT !.current = Len(asg) + 1]
        PROVE  RowOK(q, pool, asg', responses') /\ q.current = Len(asg) + 1
    <3>1. /\ q \in Row /\ q.current = Len(asg) + 1 /\ q.status = "pending"
          /\ q.votesFor = l.copy.votesFor /\ q.votesAgainst = l.copy.votesAgainst
          /\ q.reason = l.copy.reason
      BY <1>1, <2>7 DEF Row
    <3>2. RowOK(l.copy, pool, asg', responses')
      BY <1>1, <2>5, RowStays
    <3> QED
      BY <1>1, <2>2, <3>1, <3>2 DEF RowOK
  <2>8. \A v \in Votes : row'.current \notin Answers(responses', v)
    <3>1. row'.current = Len(asg) + 1
      BY <1>4, <2>7
    <3> QED
      BY <1>1, <2>3, <3>1 DEF Answers
  <2>9. FeedOK(feed', pool, asg', responses')
    BY <1>1, <2>5, FeedStays DEF CopiesInv
  <2>10. RowOK(row', pool, asg', responses')
    BY <1>4, <2>7
  <2>11. PICK k : loc' = [loc EXCEPT ![h] = k] /\ LocalOK(k, pool, asg', responses')
    BY <1>1, <1>4, <2>5, <2>6, ReturnOK
  <2> QED
    BY <1>1, <2>5, <2>6, <2>8, <2>9, <2>10, <2>11, HandlerStep
<1> QED
  BY <1>3, <1>4 DEF Advance

\* A decision is published.
LEMMA AnnounceOK ==
    ASSUME CopiesInv, NEW h \in Handlers, Announce(h)
    PROVE  CopiesInv'
<1>1. UNCHANGED <<pool, row, asg, responses, crashes>> /\ Return(h)
      /\ feed' = feed \cup {loc[h].copy.status}
  BY DEF Announce
<1>2. Grows(asg, responses, asg', responses') /\ WorldOK(pool, asg', responses')
  BY <1>1, SameWorld
<1>3. PICK k : loc' = [loc EXCEPT ![h] = k] /\ LocalOK(k, pool, asg', responses')
  BY <1>1, <1>2, ReturnOK
<1>4. FeedOK(feed', pool, asg, responses)
  <2> DEFINE c == loc[h].copy
  <2>1. /\ RowOK(c, pool, asg, responses) /\ c.status \in {"approved", "rejected"}
        /\ FeedOK(feed, pool, asg, responses) /\ c \in Row
    BY DEF CopiesInv, LocalOK, Announce, At, RowOK
  <2>2. /\ Cardinality(Answers(responses, "approve")) \in Nat
        /\ Cardinality(Answers(responses, "reject")) \in Nat
        /\ c.votesFor \in Nat /\ c.votesAgainst \in Nat
    <3>1. Len(asg) \in Nat /\ responses \subseteq [asg: 1..Len(asg), vote: Votes]
      BY DEF CopiesInv, WorldOK
    <3>2. c.votesFor \in Nat /\ c.votesAgainst \in Nat
      BY <2>1 DEF Row
    <3>3. /\ Cardinality(Answers(responses, "approve")) \in Nat
          /\ Cardinality(Answers(responses, "reject")) \in Nat
      BY <3>1, AnswersFinite
    <3> QED
      BY <3>2, <3>3
  <2>3. c.status = "approved" => Cardinality(Answers(responses, "approve")) >= 2
    BY <2>1, <2>2 DEF RowOK
  <2>4. c.status = "rejected" =>
          Cardinality(Answers(responses, "reject")) >= 2 \/ EndOfPicks(pool, asg)
    <3>1. c.reason = "none" \/ c.reason = "no_quorum"
      BY <2>1 DEF Row
    <3> QED
      BY <2>1, <2>2, <3>1 DEF RowOK
  <2> HIDE DEF c
  <2>5. feed' = feed \cup {c.status}
    BY <1>1 DEF c
  <2> QED
    BY <2>1, <2>3, <2>4, <2>5 DEF FeedOK
<1>5. /\ RowOK(row', pool, asg', responses')
      /\ \A v \in Votes : row'.current \notin Answers(responses', v)
      /\ FeedOK(feed', pool, asg', responses')
  BY <1>1, <1>4 DEF CopiesInv
<1> QED
  BY <1>1, <1>2, <1>3, <1>5, HandlerStep

\* A step of the assignments alone, that keeps sorts and answers.
LEMMA AssignmentsStep ==
    ASSUME CopiesInv, NEW i \in 1..Len(asg), NEW a \in Assignment,
           a.sort = asg[i].sort, asg[i].decision # "pending" => a.decision # "pending",
           asg' = [asg EXCEPT ![i] = a], UNCHANGED <<pool, responses>>
    PROVE  /\ Grows(asg, responses, asg', responses') /\ WorldOK(pool, asg', responses')
           /\ Len(asg') = Len(asg) /\ asg'[i] = a
<1>1. /\ WorldOK(pool, asg, responses) /\ asg \in Seq(Assignment) /\ Len(asg) \in Nat
  BY DEF CopiesInv, WorldOK
<1>2. /\ asg' \in Seq(Assignment) /\ Len(asg') = Len(asg) /\ DOMAIN asg' = DOMAIN asg
      /\ \A j \in 1..Len(asg) : asg'[j] = IF j = i THEN a ELSE asg[j]
  BY <1>1
<1>3. responses' \subseteq [asg: 1..Len(asg'), vote: Votes] /\ responses \subseteq responses'
  BY <1>1, <1>2 DEF WorldOK
<1>4. Grows(asg, responses, asg', responses')
  BY <1>1, <1>2, <1>3 DEF Grows
<1>5. \A j \in DOMAIN asg' : j \in 1..Len(asg) /\ asg'[j].sort = asg[j].sort
  BY <1>1, <1>2
<1>6. pool \in PoolSizes /\ Len(asg') >= 1 /\ \A j \in DOMAIN asg : asg[j].sort < pool
  BY <1>1, <1>2 DEF WorldOK
<1>7. WorldOK(pool, asg', responses')
  BY <1>2, <1>3, <1>5, <1>6 DEF WorldOK
<1> QED
  BY <1>1, <1>2, <1>4, <1>7

\* The time of an assignment runs out.
LEMMA ExpireOK ==
    ASSUME CopiesInv, NEW i \in DOMAIN asg, Expire(i)
    PROVE  CopiesInv'
<1>1. /\ i \in 1..Len(asg) /\ asg[i] \in Assignment /\ asg \in Seq(Assignment)
      /\ asg[i].decision = "pending"
      /\ asg' = [asg EXCEPT ![i] = [asg[i] EXCEPT !.late = TRUE]]
      /\ UNCHANGED <<pool, row, loc, responses, feed, crashes>>
  BY DEF CopiesInv, WorldOK, Expire
<1>2. ASSUME NEW a, a = [asg[i] EXCEPT !.late = TRUE]
      PROVE  a \in Assignment /\ a.sort = asg[i].sort /\ a.decision = asg[i].decision
  BY <1>1, <1>2 DEF Assignment
<1>3. Grows(asg, responses, asg', responses') /\ WorldOK(pool, asg', responses')
  BY <1>1, <1>2, AssignmentsStep
<1>4. /\ RowOK(row, pool, asg', responses')
      /\ FeedOK(feed, pool, asg', responses')
  BY <1>3, RowStays, FeedStays DEF CopiesInv
<1>5. \A h \in Handlers : LocalOK(loc[h], pool, asg', responses')
  BY <1>3, LocalStays DEF CopiesInv
<1> QED
  BY <1>1, <1>3, <1>4, <1>5 DEF CopiesInv

\* The sweep marks an assignment as timed out.
LEMMA SweepTimesOutOK ==
    ASSUME CopiesInv, NEW h \in Handlers, SweepTimesOut(h)
    PROVE  CopiesInv'
<1> DEFINE l == loc[h]
<1>1. /\ LocalOK(l, pool, asg, responses) /\ l.pc = "sweepTimeout" /\ l.at \in 1..Len(asg)
      /\ asg \in Seq(Assignment) /\ asg[l.at] \in Assignment
  BY DEF CopiesInv, SweepTimesOut, At, LocalOK, WorldOK
<1>2. /\ asg' = [asg EXCEPT ![l.at] = [asg[l.at] EXCEPT !.decision = "timeout"]]
      /\ loc' = [loc EXCEPT ![h] = [l EXCEPT !.pc = "sweepRead"]]
      /\ UNCHANGED <<pool, row, responses, feed, crashes>>
  BY DEF SweepTimesOut, GoTo, Become
<1>3. ASSUME NEW a, a = [asg[l.at] EXCEPT !.decision = "timeout"]
      PROVE  a \in Assignment /\ a.sort = asg[l.at].sort /\ a.decision = "timeout"
  BY <1>1, <1>3 DEF Assignment
<1> HIDE DEF l
<1>4. /\ Grows(asg, responses, asg', responses') /\ WorldOK(pool, asg', responses')
      /\ Len(asg') = Len(asg) /\ asg'[l.at].decision = "timeout"
  BY <1>1, <1>2, <1>3, AssignmentsStep
<1>5. ASSUME NEW k, k = [l EXCEPT !.pc = "sweepRead"]
      PROVE  LocalOK(k, pool, asg', responses')
  <2>1. LocalOK(l, pool, asg', responses') /\ l.at \in 1..Len(asg')
    BY <1>1, <1>4, LocalStays
  <2>2. k \in [pc: Labels, copy: Row, at: Nat, vote: Votes, todo: SUBSET (1..Len(asg'))]
    BY <1>5, <2>1 DEF LocalOK, Labels
  <2>3. k.pc = "sweepRead" /\ k.copy = l.copy /\ k.at = l.at
    BY <1>5, <2>1 DEF LocalOK
  <2> QED
    BY <1>4, <2>1, <2>2, <2>3 DEF LocalOK
<1>6. /\ RowOK(row', pool, asg', responses')
      /\ FeedOK(feed', pool, asg', responses')
      /\ \A v \in Votes : row'.current \notin Answers(responses', v)
  BY <1>2, <1>4, RowStays, FeedStays DEF CopiesInv
<1> QED
  BY <1>2, <1>4, <1>5, <1>6, HandlerStep

\* A sweep reads the assignments whose time has run out.
LEMMA SweepFindsOK ==
    ASSUME CopiesInv, NEW h \in Sweeps, SweepFinds(h)
    PROVE  CopiesInv'
<1>1. Stale \in SUBSET (1..Len(asg)) /\ WorldOK(pool, asg, responses)
  BY DEF CopiesInv, WorldOK, Stale
<1>2. /\ loc' = [loc EXCEPT ![h] = [Idle EXCEPT !.pc = "sweepNext", !.todo = Stale]]
      /\ UNCHANGED <<pool, row, asg, responses, feed, crashes>> /\ h \in Handlers
  BY DEF SweepFinds, Become, Handlers
<1>3. LocalOK([Idle EXCEPT !.pc = "sweepNext", !.todo = Stale], pool, asg, responses)
  BY <1>1, IdleOK
<1> QED
  BY <1>2, <1>3, ReadingStep

\* The sweep reads one of them again.
LEMMA SweepRereadsOK ==
    ASSUME CopiesInv, NEW h \in Handlers, SweepRereads(h)
    PROVE  CopiesInv'
<1> DEFINE l == loc[h]
           label(i) == IF asg[i].decision = "pending" THEN "sweepTimeout" ELSE "sweepRead"
<1>1. /\ LocalOK(l, pool, asg, responses) /\ l.pc = "sweepNext"
      /\ UNCHANGED <<pool, row, asg, responses, feed, crashes>>
  BY DEF CopiesInv, SweepRereads, At
<1>2. PICK i \in l.todo :
        loc' = [loc EXCEPT ![h] = [l EXCEPT !.at = i, !.todo = @ \ {i}, !.pc = label(i)]]
  BY DEF SweepRereads, Become
<1>3. i \in 1..Len(asg) /\ Len(asg) \in Nat
  BY <1>1 DEF LocalOK, CopiesInv, WorldOK
<1> HIDE DEF l
<1>4. ASSUME NEW k, k = [l EXCEPT !.at = i, !.todo = @ \ {i}, !.pc = label(i)]
      PROVE  LocalOK(k, pool, asg, responses)
  <2>1. label(i) \in {"sweepTimeout", "sweepRead"} /\ (label(i) = "sweepRead" => asg[i].decision # "pending")
    OBVIOUS
  <2> HIDE DEF label
  <2>2. l.todo \ {i} \in SUBSET (1..Len(asg)) /\ label(i) \in Labels /\ i \in Nat
    BY <1>1, <1>3, <2>1 DEF LocalOK, Labels
  <2>3. k.pc = label(i) /\ k.copy = l.copy /\ k.at = i
    BY <1>1, <1>4 DEF LocalOK
  <2>4. k \in [pc: Labels, copy: Row, at: Nat, vote: Votes, todo: SUBSET (1..Len(asg))]
    BY <1>1, <1>4, <2>2 DEF LocalOK
  <2> QED
    BY <1>1, <1>3, <2>1, <2>3, <2>4 DEF LocalOK
<1> QED
  BY <1>1, <1>2, <1>4, ReadingStep DEF l

\* A handler that reads the row and goes on with it.
LEMMA ReadOK ==
    ASSUME CopiesInv, NEW h \in Handlers, NEW label,
           \/ label = "advance" /\ loc[h].pc = "sweepRead" /\ row.status = "pending"
           \/ label = "cancel" /\ row.status = "pending"
           \/ label = "execute" /\ row.status = "approved",
           Read(h, label), UNCHANGED <<pool, row, asg, responses, feed, crashes>>
    PROVE  CopiesInv'
<1> DEFINE l == loc[h]
<1>1. /\ LocalOK(l, pool, asg, responses) /\ RowOK(row, pool, asg, responses) /\ row \in Row
      /\ loc' = [loc EXCEPT ![h] = [l EXCEPT !.pc = label, !.copy = row]]
  BY DEF CopiesInv, Read, Become, RowOK
<1> HIDE DEF l
<1>2. ASSUME NEW k, k = [l EXCEPT !.pc = label, !.copy = row]
      PROVE  LocalOK(k, pool, asg, responses)
  <2>1. k.pc = label /\ k.copy = row /\ k.at = l.at
    BY <1>1, <1>2 DEF LocalOK
  <2>2. k \in [pc: Labels, copy: Row, at: Nat, vote: Votes, todo: SUBSET (1..Len(asg))]
    <3>1. label \in Labels
      BY DEF Labels
    <3> QED
      BY <1>1, <1>2, <3>1 DEF LocalOK
  <2> QED
    BY <1>1, <2>1, <2>2 DEF LocalOK, l
<1> QED
  BY <1>1, <1>2, ReadingStep

\* The sweep reads the proposal of one of them.
LEMMA SweepReadsProposalOK ==
    ASSUME CopiesInv, NEW h \in Handlers, SweepReadsProposal(h)
    PROVE  CopiesInv'
<1>1. UNCHANGED <<pool, row, asg, responses, feed, crashes>>
  BY DEF SweepReadsProposal
<1>2. CASE row.status = "pending"
  BY <1>1, <1>2, ReadOK DEF SweepReadsProposal, At
<1>3. CASE Return(h)
  <2>1. Grows(asg, responses, asg', responses') /\ WorldOK(pool, asg', responses')
    BY <1>1, SameWorld
  <2>2. PICK l : loc' = [loc EXCEPT ![h] = l] /\ LocalOK(l, pool, asg', responses')
    BY <1>1, <1>3, <2>1, ReturnOK
  <2> QED
    BY <1>1, <2>2, ReadingStep
<1> QED
  BY <1>2, <1>3 DEF SweepReadsProposal

-----------------------------------------------------------------------------
(* Cancelling, marking as executed, crashes *)

\* A handler saves the row with no pick in it and returns.
LEMMA SavesAndReturns ==
    ASSUME CopiesInv, NEW h \in Handlers, UNCHANGED <<pool, asg, responses, feed, crashes>>,
           RowOK(row', pool, asg, responses), row'.current = 0, Return(h)
    PROVE  CopiesInv'
<1>1. Grows(asg, responses, asg', responses') /\ WorldOK(pool, asg', responses')
  BY SameWorld
<1>2. PICK l : loc' = [loc EXCEPT ![h] = l] /\ LocalOK(l, pool, asg', responses')
  BY <1>1, ReturnOK
<1> QED
  BY <1>2, SavingStep

\* A cancelled proposal is saved.
LEMMA CancelSavesOK ==
    ASSUME CopiesInv, NEW h \in Handlers, CancelSaves(h)
    PROVE  CopiesInv'
<1> DEFINE c == loc[h].copy
<1>1. RowOK(c, pool, asg, responses) /\ c \in Row /\ c.status = "pending" /\ Len(asg) \in Nat
  BY DEF CopiesInv, LocalOK, CancelSaves, At, RowOK, WorldOK
<1> HIDE DEF c
<1>2. ASSUME NEW q, q = [c EXCEPT !.status = "cancelled", !.current = 0]
      PROVE  RowOK(q, pool, asg, responses) /\ q.current = 0
  <2>1. /\ q.status = "cancelled" /\ q.current = 0 /\ q.reason = c.reason
        /\ q.votesFor = c.votesFor /\ q.votesAgainst = c.votesAgainst
    BY <1>1, <1>2 DEF Row
  <2>2. q \in Row
    BY <1>1, <1>2 DEF Row, Settled
  <2> QED
    BY <1>1, <2>1, <2>2 DEF RowOK
<1>3. /\ row' = [c EXCEPT !.status = "cancelled", !.current = 0] /\ Return(h)
      /\ UNCHANGED <<pool, asg, responses, feed, crashes>>
  BY DEF CancelSaves, c
<1> QED
  BY <1>2, <1>3, SavesAndReturns

\* An executed proposal is saved.
LEMMA ExecuteSavesOK ==
    ASSUME CopiesInv, NEW h \in Handlers, ExecuteSaves(h)
    PROVE  CopiesInv'
<1> DEFINE c == loc[h].copy
<1>1. RowOK(c, pool, asg, responses) /\ c \in Row /\ c.status = "approved" /\ Len(asg) \in Nat
  BY DEF CopiesInv, LocalOK, ExecuteSaves, At, RowOK, WorldOK
<1> HIDE DEF c
<1>2. ASSUME NEW q, q = [c EXCEPT !.status = "executed"]
      PROVE  RowOK(q, pool, asg, responses) /\ q.current = 0
  <2>1. /\ q.status = "executed" /\ q.current = c.current /\ q.reason = c.reason
        /\ q.votesFor = c.votesFor /\ q.votesAgainst = c.votesAgainst
    BY <1>1, <1>2 DEF Row
  <2>2. q \in Row
    BY <1>1, <1>2 DEF Row, Settled
  <2> QED
    BY <1>1, <2>1, <2>2 DEF RowOK
<1>3. /\ row' = [c EXCEPT !.status = "executed"] /\ Return(h)
      /\ UNCHANGED <<pool, asg, responses, feed, crashes>>
  BY DEF ExecuteSaves, c
<1> QED
  BY <1>2, <1>3, SavesAndReturns

\* The server stops.
LEMMA CrashOK ==
    ASSUME CopiesInv, Crash
    PROVE  CopiesInv'
<1>1. /\ UNCHANGED <<pool, row, asg, responses, feed>> /\ crashes' \in 0..MaxCrashes
      /\ loc' = [h \in Handlers |-> Idle]
  BY BoundsAssumption DEF CopiesInv, Crash
<1>2. WorldOK(pool', asg', responses')
  BY <1>1 DEF CopiesInv
<1>3. LocalOK(Idle, pool', asg', responses')
  <2>1. {} \in SUBSET (1..Len(asg')) /\ "idle" \in {"idle", "sweepNext"}
    OBVIOUS
  <2> QED
    BY <1>2, <2>1, IdleOK
<1>4. /\ DOMAIN loc' = Handlers /\ loc' = [h \in Handlers |-> loc'[h]]
      /\ \A h \in Handlers : LocalOK(loc'[h], pool', asg', responses')
  BY <1>1, <1>3
<1> QED
  BY <1>1, <1>2, <1>4 DEF CopiesInv

\* A handler stops at an await that throws.
LEMMA HandlerFailsOK ==
    ASSUME CopiesInv, NEW h \in Handlers, HandlerFails(h)
    PROVE  CopiesInv'
<1>1. UNCHANGED <<pool, row, asg, responses, feed, crashes>>
  BY DEF HandlerFails
<1>2. Grows(asg, responses, asg', responses') /\ WorldOK(pool, asg', responses')
  BY <1>1, SameWorld
<1>3. CASE Return(h)
  <2>1. PICK l : loc' = [loc EXCEPT ![h] = l] /\ LocalOK(l, pool, asg', responses')
    BY <1>1, <1>2, <1>3, ReturnOK
  <2>2. LocalOK(l, pool, asg, responses)
    BY <1>1, <2>1
  <2> QED
    BY <1>1, <2>1, <2>2, ReadingStep
<1>4. CASE loc[h].pc = "sweepNext"
  <2> DEFINE l == loc[h]
  <2>1. PICK i \in l.todo :
          loc' = [loc EXCEPT ![h] = IF l.todo = {i} THEN Idle ELSE [l EXCEPT !.todo = @ \ {i}]]
    BY <1>3, <1>4 DEF HandlerFails, Become
  <2>2. LocalOK(l, pool, asg, responses) /\ WorldOK(pool, asg, responses)
    BY DEF CopiesInv
  <2>3. LocalOK(Idle, pool, asg, responses)
    <3>1. {} \in SUBSET (1..Len(asg)) /\ "idle" \in {"idle", "sweepNext"}
      OBVIOUS
    <3> QED
      BY <2>2, <3>1, IdleOK
  <2> HIDE DEF l
  <2>4. ASSUME NEW k, k = [l EXCEPT !.todo = @ \ {i}] PROVE LocalOK(k, pool, asg, responses)
    <3>1. k.pc = l.pc /\ k.copy = l.copy /\ k.at = l.at /\ k.vote = l.vote /\ k.todo = l.todo \ {i}
      BY <2>2, <2>4 DEF LocalOK
    <3>2. k \in [pc: Labels, copy: Row, at: Nat, vote: Votes, todo: SUBSET (1..Len(asg))]
      BY <2>2, <2>4, <3>1 DEF LocalOK
    <3> QED
      BY <2>2, <3>1, <3>2 DEF LocalOK, NotCounted
  <2> QED
    BY <1>1, <2>1, <2>3, <2>4, ReadingStep
<1> QED
  BY <1>3, <1>4 DEF HandlerFails

\* The invariant of the copies holds in the beginning.
LEMMA CopiesInit == Init => CopiesInv
<1> SUFFICES ASSUME Init PROVE CopiesInv
  OBVIOUS
<1>1. NewAssignment(0) \in Assignment /\ NewAssignment(0).sort = 0
  BY DEF NewAssignment, Assignment
<1>2. WorldOK(pool, asg, responses)
  BY <1>1, PoolAssumption DEF WorldOK, Init
<1>3. LocalOK(Idle, pool, asg, responses) /\ RowOK(row, pool, asg, responses)
  <2>1. {} \in SUBSET (1..Len(asg)) /\ "idle" \in {"idle", "sweepNext"}
    OBVIOUS
  <2> QED
    BY <1>2, <2>1, IdleOK DEF Init
<1>4. /\ \A v \in Votes : row.current \notin Answers(responses, v)
      /\ FeedOK(feed, pool, asg, responses)
  BY DEF Init, Answers, FeedOK
<1>5. /\ DOMAIN loc = Handlers /\ loc = [h \in Handlers |-> loc[h]]
      /\ \A h \in Handlers : LocalOK(loc[h], pool, asg, responses)
  BY <1>3 DEF Init
<1> QED
  BY <1>2, <1>3, <1>4, <1>5, BoundsAssumption DEF CopiesInv, Init

\* Every step keeps it.
LEMMA CopiesStep == CopiesInv /\ [Next]_vars => CopiesInv'
<1> SUFFICES ASSUME CopiesInv, [Next]_vars PROVE CopiesInv'
  OBVIOUS
<1>1. ASSUME NEW h \in Requests, VoteReadsProposal(h) PROVE CopiesInv'
  BY <1>1, ReadsProposalOK
<1>2. ASSUME NEW h \in Requests, CancelReads(h) PROVE CopiesInv'
  BY <1>2, ReadOK DEF CancelReads, Handlers
<1>3. ASSUME NEW h \in Requests, ExecuteReads(h) PROVE CopiesInv'
  BY <1>3, ReadOK DEF ExecuteReads, Handlers
<1>4. ASSUME NEW h \in Sweeps, SweepFinds(h) PROVE CopiesInv'
  BY <1>4, SweepFindsOK
<1>5. ASSUME NEW h \in Handlers, Continue(h) PROVE CopiesInv'
  BY <1>5, ReadsAssignmentOK, CommitsOK, AdvanceOK, AnnounceOK, SweepRereadsOK,
     SweepTimesOutOK, SweepReadsProposalOK, CancelSavesOK, ExecuteSavesOK DEF Continue
<1>6. CASE \E i \in DOMAIN asg : Expire(i)
  BY <1>6, ExpireOK
<1>7. CASE Crash
  BY <1>7, CrashOK
<1>8. CASE UNCHANGED vars
  BY <1>8 DEF vars, CopiesInv
<1>9. ASSUME NEW h \in Handlers, HandlerFails(h) PROVE CopiesInv'
  BY <1>9, HandlerFailsOK
<1> QED
  BY <1>1, <1>2, <1>3, <1>4, <1>5, <1>6, <1>7, <1>8, <1>9 DEF Next

\* It holds in every reachable state.
LEMMA Copies == Spec => []CopiesInv
<1> QED
  BY CopiesInit, CopiesStep, PTL DEF Spec

-----------------------------------------------------------------------------
(* What follows from the invariant *)

\* Only what may throw has thrown.
FailedInv == failed \subseteq MayFail

\* What has thrown may throw, in every reachable state.
LEMMA FailedWhere == Spec => []FailedInv
<1>1. Init => FailedInv
  BY DEF Init, FailedInv
<1>2. FailedInv /\ [Next]_vars => FailedInv'
  <2> SUFFICES ASSUME FailedInv, [Next]_vars PROVE FailedInv'
    OBVIOUS
  <2>1. (\E h \in Handlers : HandlerFails(h)) \/ UNCHANGED failed
    BY DEF Next, Continue, VoteReadsProposal, CancelReads, ExecuteReads, SweepFinds,
       VoteReadsAssignment, VoteCommits, Advance, Announce, SweepRereads, SweepTimesOut,
       SweepReadsProposal, CancelSaves, ExecuteSaves, Expire, Crash, vars
  <2> QED
    BY <2>1 DEF HandlerFails, FailedInv
<1> QED
  BY <1>1, <1>2, PTL DEF Spec

\* It contains the type invariant.
LEMMA CopiesType == CopiesInv /\ FailedInv => TypeOK
<1> SUFFICES ASSUME CopiesInv, FailedInv PROVE TypeOK
  OBVIOUS
<1>1. loc \in [Handlers -> Local]
  <2>1. \A h \in Handlers : loc[h] \in Local
    BY DEF CopiesInv, LocalOK, Local, Labels
  <2> QED
    BY <2>1 DEF CopiesInv
<1>2. row \in Row /\ row.current <= Len(asg)
  BY DEF CopiesInv, RowOK
<1> QED
  BY <1>1, <1>2 DEF CopiesInv, WorldOK, FeedOK, TypeOK, FailedInv

\* The votes of the model are the answers of the proof.
LEMMA VotingIsAnswers == \A v : Voting(v) = Answers(responses, v)
  BY DEF Voting, Answers

\* Copies covered by the answers decide nothing the answers do not.
LEMMA CopiesDecisions == CopiesInv => DecisionsRestOnVotes
<1> SUFFICES ASSUME CopiesInv, NEW r \in LiveRows
             PROVE  /\ r.status \in {"approved", "executed"} =>
                          Cardinality(Answers(responses, "approve")) >= 2
                    /\ r.status = "rejected" /\ r.reason = "none" =>
                          Cardinality(Answers(responses, "reject")) >= 2
  BY VotingIsAnswers DEF DecisionsRestOnVotes, RequiredApprovals
<1>1. RowOK(r, pool, asg, responses)
  BY DEF LiveRows, CopiesInv, LocalOK
<1>2. r.votesFor \in Nat /\ r.votesAgainst \in Nat
  BY <1>1 DEF RowOK, Row
<1>3. /\ Cardinality(Answers(responses, "approve")) \in Nat
      /\ Cardinality(Answers(responses, "reject")) \in Nat
  <2>1. Len(asg) \in Nat /\ responses \subseteq [asg: 1..Len(asg), vote: Votes]
    BY DEF CopiesInv, WorldOK
  <2> QED
    BY <2>1, AnswersFinite
<1> QED
  BY <1>1, <1>2, <1>3 DEF RowOK

\* The rows, the copies and the picks keep their types, however many handlers
\* overwrite each other's saves.
THEOREM TypeCorrect == Spec => []TypeOK
BY Copies, FailedWhere, CopiesType, PTL

\* Whatever stale copies are saved over each other, an approval rests on
\* approving answers to two assignments and a rejection by vote on two
\* rejecting ones: a lost update may lose a vote, it never invents one.
THEOREM DecisionsRest == Spec => []DecisionsRestOnVotes
BY Copies, CopiesDecisions, PTL

\* No settlement is posted that the votes, or the end of the picks, do not
\* support, also when another handler has overwritten the row.
THEOREM FeedTrue == Spec => []FeedIsTrue
<1>1. CopiesInv => FeedIsTrue
  BY VotingIsAnswers DEF CopiesInv, FeedOK, FeedIsTrue, EndOfPicks, RequiredApprovals
<1> QED
  BY <1>1, Copies, PTL

\* No quorum is declared only after the last pick has answered or timed out.
THEOREM QuorumLost == Spec => []NoQuorumMeansExhausted
<1>1. CopiesInv => NoQuorumMeansExhausted
  BY DEF CopiesInv, RowOK, NoQuorumMeansExhausted, EndOfPicks
<1> QED
  BY <1>1, Copies, PTL

-----------------------------------------------------------------------------
(* Where no two handlers overlap *)

\* The picks are asked in order, each after the one before it has answered or
\* timed out, and only the last one asked is the current one.
InOrder(A, r) ==
    /\ \A i \in 1..Len(A) : A[i].sort = i - 1
    /\ \A i \in 1..Len(A) : i < Len(A) => A[i].decision # "pending"
    /\ r.status = "pending" => r.current \in {0, Len(A)}

\* The one handler under way works on the last assignment with a copy that is
\* still the row.
AloneOK(l, A, r) ==
    /\ l.pc \in {"voteAsg", "voteTx", "advance", "sweepTimeout", "sweepRead"} => l.at = Len(A)
    /\ l.pc = "sweepNext" => l.todo \subseteq {Len(A)}
    /\ l.pc # "sweepNext" => l.todo = {}
    /\ l.pc \in {"voteAsg", "voteTx", "advance", "announce", "cancel", "execute"} => l.copy = r

SerialInv ==
    /\ InOrder(asg, row)
    /\ \A h \in Handlers : AloneOK(loc[h], asg, row)
    /\ \A g, h \in Handlers : loc[g].pc = "idle" \/ loc[h].pc = "idle" \/ g = h

\* A handler that starts, or goes on, is alone.
LEMMA Alone ==
    ASSUME SerialInv, Exclusive, NEW h \in Handlers, MayStart(h) \/ loc[h].pc # "idle"
    PROVE  \A g \in Handlers : g # h => loc[g].pc = "idle" /\ loc[g].todo = {}
BY DEF SerialInv, AloneOK, MayStart

\* A step of the handler that is alone keeps the order when what it writes does.
LEMMA AloneMoves ==
    ASSUME SerialInv, Exclusive, NEW h \in Handlers, MayStart(h) \/ loc[h].pc # "idle",
           DOMAIN loc = Handlers, InOrder(asg', row'),
           NEW l, AloneOK(l, asg', row'), loc' = [loc EXCEPT ![h] = l]
    PROVE  SerialInv'
<1>1. \A g \in Handlers : g # h => loc[g].pc = "idle" /\ loc[g].todo = {}
  BY Alone
<1>2. \A g \in Handlers : loc'[g] = IF g = h THEN l ELSE loc[g]
  OBVIOUS
<1>3. \A g \in Handlers : AloneOK(loc'[g], asg', row')
  BY <1>1, <1>2 DEF AloneOK
<1>4. \A f, g \in Handlers : loc'[f].pc = "idle" \/ loc'[g].pc = "idle" \/ f = g
  BY <1>1, <1>2
<1> QED
  BY <1>3, <1>4 DEF SerialInv

\* The assignments and the row are as they were.
LEMMA AloneReads ==
    ASSUME SerialInv, Exclusive, NEW h \in Handlers, MayStart(h) \/ loc[h].pc # "idle",
           DOMAIN loc = Handlers, UNCHANGED <<asg, row>>,
           NEW l, AloneOK(l, asg, row), loc' = [loc EXCEPT ![h] = l]
    PROVE  SerialInv'
BY AloneMoves DEF SerialInv

\* A handler at rest relies on nothing.
LEMMA IdleIsAlone == \A A, r : AloneOK(Idle, A, r)
  BY DEF AloneOK, Idle

\* A handler that returns has nothing left to do.
LEMMA AloneReturns ==
    ASSUME SerialInv, NEW h \in Handlers, loc[h].pc # "sweepNext", Return(h)
    PROVE  loc' = [loc EXCEPT ![h] = Idle]
BY DEF SerialInv, AloneOK, Return, Become

\* Alone, a vote reads what is in the tables.
LEMMA SerialVoteReads ==
    ASSUME CopiesInv, SerialInv, Exclusive, NEW h \in Handlers,
           VoteReadsProposal(h) \/ VoteReadsAssignment(h)
    PROVE  SerialInv'
<1>1. UNCHANGED <<asg, row>> /\ DOMAIN loc = Handlers
  BY DEF VoteReadsProposal, VoteReadsAssignment, CopiesInv
<1>2. CASE VoteReadsProposal(h)
  <2>1. PICK v \in Votes :
          loc' = [loc EXCEPT ![h] =
                    [Idle EXCEPT !.pc = "voteAsg", !.copy = row, !.at = row.current, !.vote = v]]
    BY <1>2 DEF VoteReadsProposal, Become
  <2>2. ASSUME NEW l, l = [Idle EXCEPT !.pc = "voteAsg", !.copy = row, !.at = row.current, !.vote = v]
        PROVE  AloneOK(l, asg, row)
    <3>1. l.pc = "voteAsg" /\ l.copy = row /\ l.at = row.current /\ l.todo = {}
      BY <2>2 DEF Idle
    <3>2. row.current = Len(asg)
      BY <1>2 DEF SerialInv, InOrder, VoteReadsProposal
    <3> QED
      BY <3>1, <3>2 DEF AloneOK
  <2> QED
    BY <1>1, <1>2, <2>1, <2>2, AloneReads DEF VoteReadsProposal
<1>3. CASE VoteReadsAssignment(h)
  <2>1. /\ loc[h].pc = "voteAsg" /\ AloneOK(loc[h], asg, row)
        /\ LocalOK(loc[h], pool, asg, responses)
    BY <1>3 DEF VoteReadsAssignment, At, SerialInv, CopiesInv
  <2>2. CASE Return(h)
    BY <1>1, <2>1, <2>2, AloneReturns, AloneReads, IdleIsAlone
  <2>3. CASE GoTo(h, "voteTx")
    <3>1. ASSUME NEW l, l = [loc[h] EXCEPT !.pc = "voteTx"]
          PROVE  AloneOK(l, asg, row)
      <4>1. /\ l.pc = "voteTx" /\ l.copy = loc[h].copy /\ l.at = loc[h].at
            /\ l.todo = loc[h].todo
        BY <2>1, <3>1 DEF LocalOK
      <4> QED
        BY <2>1, <4>1 DEF AloneOK
    <3> QED
      BY <1>1, <2>1, <2>3, <3>1, AloneReads DEF GoTo, Become
  <2> QED
    BY <1>3, <2>2, <2>3 DEF VoteReadsAssignment
<1> QED
  BY <1>2, <1>3

\* Alone, a vote answers the last pick.
LEMMA SerialCommits ==
    ASSUME CopiesInv, SerialInv, Exclusive, NEW h \in Handlers, VoteCommits(h)
    PROVE  SerialInv'
<1> DEFINE l == loc[h]
           r == CountedRow(l.copy, l.vote)
<1>1. /\ l.pc = "voteTx" /\ AloneOK(l, asg, row) /\ LocalOK(l, pool, asg, responses)
      /\ l.at = Len(asg) /\ l.at \in 1..Len(asg) /\ l.todo = {} /\ l.vote \in Votes
      /\ asg \in Seq(Assignment) /\ InOrder(asg, row) /\ DOMAIN loc = Handlers
      /\ l.copy \in Row /\ l.copy.status = "pending"
      /\ l.copy.votesFor < 2 /\ l.copy.votesAgainst < 2
  BY DEF VoteCommits, At, SerialInv, CopiesInv, WorldOK, LocalOK, AloneOK, RowOK
<1>2. asg' = [asg EXCEPT ![l.at].decision = l.vote]
  BY DEF VoteCommits
<1>3. /\ Len(asg') = Len(asg) /\ Len(asg) \in Nat
      /\ \A i \in 1..Len(asg) : asg'[i].sort = i - 1
      /\ \A i \in 1..Len(asg) : i < Len(asg) => asg'[i].decision # "pending"
  <2>1. /\ asg' = [asg EXCEPT ![l.at] = [asg[l.at] EXCEPT !.decision = l.vote]]
        /\ asg[l.at] \in Assignment
    BY <1>1, <1>2
  <2>2. [asg[l.at] EXCEPT !.decision = l.vote].sort = asg[l.at].sort
    BY <2>1 DEF Assignment
  <2> QED
    BY <1>1, <2>1, <2>2 DEF InOrder
<1>4. r \in Row /\ r.status = "pending"
  BY <1>1 DEF CountedRow, Row, Votes
<1> HIDE DEF r
<1>5. ASSUME NEW q, q.status = "pending" => q.current = 0, NEW label,
             SaveAndGoTo(h, q, label), label \in {"announce", "advance"}
      PROVE  SerialInv'
  <2>1. row' = q /\ loc' = [loc EXCEPT ![h] = [l EXCEPT !.pc = label, !.copy = q]]
    BY <1>5 DEF SaveAndGoTo, Become
  <2> HIDE DEF l
  <2>2. ASSUME NEW k, k = [l EXCEPT !.pc = label, !.copy = q]
        PROVE  AloneOK(k, asg', row')
    <3>1. k.pc = label /\ k.copy = q /\ k.at = l.at /\ k.todo = l.todo
      BY <1>1, <2>2 DEF LocalOK
    <3> QED
      BY <1>1, <1>3, <1>5, <2>1, <3>1 DEF AloneOK
  <2>3. InOrder(asg', row')
    BY <1>3, <1>5, <2>1 DEF InOrder
  <2>4. loc[h].pc # "idle"
    BY <1>1 DEF l
  <2> QED
    BY <1>1, <2>1, <2>2, <2>3, <2>4, AloneMoves
<1>6. CASE SaveAndGoTo(h, SettledRow(r, "approved", "none"), "announce")
  <2>1. SettledRow(r, "approved", "none").status # "pending"
    BY <1>4 DEF SettledRow, Row
  <2> QED
    BY <1>5, <1>6, <2>1
<1>7. CASE SaveAndGoTo(h, SettledRow(r, "rejected", "none"), "announce")
  <2>1. SettledRow(r, "rejected", "none").status # "pending"
    BY <1>4 DEF SettledRow, Row
  <2> QED
    BY <1>5, <1>7, <2>1
<1>8. CASE SaveAndGoTo(h, [r EXCEPT !.current = 0], "advance")
  <2>1. [r EXCEPT !.current = 0].current = 0
    BY <1>4 DEF Row
  <2> QED
    BY <1>5, <1>8, <2>1
<1> QED
  BY <1>6, <1>7, <1>8 DEF VoteCommits, r, l

\* Alone, the next pick follows a decided one.
LEMMA SerialAdvance ==
    ASSUME CopiesInv, SerialInv, Exclusive, NEW h \in Handlers, Advance(h)
    PROVE  SerialInv'
<1> DEFINE l == loc[h]
<1>1. /\ l.pc = "advance" /\ AloneOK(l, asg, row) /\ LocalOK(l, pool, asg, responses)
      /\ l.at = Len(asg) /\ l.at \in 1..Len(asg) /\ l.todo = {}
      /\ asg[l.at].decision # "pending"
      /\ asg \in Seq(Assignment) /\ Len(asg) \in Nat /\ InOrder(asg, row) /\ DOMAIN loc = Handlers
      /\ l.copy \in Row
  BY DEF Advance, At, SerialInv, CopiesInv, WorldOK, LocalOK, AloneOK, RowOK
<1>2. CASE SaveAndGoTo(h, SettledRow(l.copy, "rejected", "no_quorum"), "announce") /\ UNCHANGED asg
  <2> DEFINE q == SettledRow(l.copy, "rejected", "no_quorum")
  <2>1. q.status # "pending"
    BY <1>1 DEF SettledRow, Row
  <2> HIDE DEF q
  <2>2. row' = q /\ loc' = [loc EXCEPT ![h] = [l EXCEPT !.pc = "announce", !.copy = q]]
    BY <1>2 DEF SaveAndGoTo, Become, q
  <2>3. ASSUME NEW k, k = [l EXCEPT !.pc = "announce", !.copy = q]
        PROVE  AloneOK(k, asg', row')
    <3>1. k.pc = "announce" /\ k.copy = q /\ k.todo = l.todo
      BY <1>1, <2>3 DEF LocalOK
    <3> QED
      BY <1>1, <2>2, <3>1 DEF AloneOK
  <2>4. InOrder(asg', row')
    BY <1>1, <1>2, <2>1, <2>2 DEF InOrder
  <2> QED
    BY <1>1, <2>2, <2>3, <2>4, AloneMoves
<1>3. CASE /\ asg' = Append(asg, NewAssignment(asg[l.at].sort + 1))
           /\ row' = [l.copy EXCEPT !.current = Len(asg) + 1]
           /\ Return(h)
  <2>1. /\ Len(asg') = Len(asg) + 1
        /\ \A i \in 1..Len(asg) : asg'[i] = asg[i]
        /\ asg'[Len(asg) + 1].sort = Len(asg)
    <3>1. asg[l.at].sort = Len(asg) - 1
      BY <1>1 DEF InOrder
    <3>2. NewAssignment(asg[l.at].sort + 1).sort = asg[l.at].sort + 1
      BY DEF NewAssignment
    <3> QED
      BY <1>1, <1>3, <3>1, <3>2
  <2>2. row'.current = Len(asg')
    BY <1>1, <1>3, <2>1 DEF Row
  <2>3. InOrder(asg', row')
    <3>1. \A i \in 1..Len(asg') : i \in 1..Len(asg) \/ i = Len(asg) + 1
      BY <1>1, <2>1
    <3>2. \A i \in 1..Len(asg') : asg'[i].sort = i - 1
      BY <1>1, <2>1, <3>1 DEF InOrder
    <3>3. \A i \in 1..Len(asg') : i < Len(asg') => asg'[i].decision # "pending"
      BY <1>1, <2>1, <3>1 DEF InOrder
    <3> QED
      BY <2>2, <3>2, <3>3 DEF InOrder
  <2>4. loc' = [loc EXCEPT ![h] = Idle]
    BY <1>1, <1>3, AloneReturns
  <2> QED
    BY <1>1, <2>3, <2>4, AloneMoves, IdleIsAlone
<1> QED
  BY <1>2, <1>3 DEF Advance

\* Alone, publishing changes no pick.
LEMMA SerialAnnounce ==
    ASSUME CopiesInv, SerialInv, Exclusive, NEW h \in Handlers, Announce(h)
    PROVE  SerialInv'
<1>1. loc[h].pc = "announce" /\ Return(h) /\ UNCHANGED <<asg, row>> /\ DOMAIN loc = Handlers
  BY DEF Announce, At, CopiesInv
<1>2. loc' = [loc EXCEPT ![h] = Idle]
  BY <1>1, AloneReturns
<1> QED
  BY <1>1, <1>2, AloneReads, IdleIsAlone

\* Time runs out for a pick without any handler.
LEMMA SerialExpire ==
    ASSUME CopiesInv, SerialInv, NEW i \in DOMAIN asg, Expire(i)
    PROVE  SerialInv'
<1>1. /\ asg \in Seq(Assignment) /\ asg[i] \in Assignment /\ i \in 1..Len(asg)
      /\ asg' = [asg EXCEPT ![i] = [asg[i] EXCEPT !.late = TRUE]]
      /\ UNCHANGED <<row, loc>>
  BY DEF CopiesInv, WorldOK, Expire
<1>2. /\ [asg[i] EXCEPT !.late = TRUE].sort = asg[i].sort
      /\ [asg[i] EXCEPT !.late = TRUE].decision = asg[i].decision
  BY <1>1 DEF Assignment
<1>3. /\ Len(asg') = Len(asg)
      /\ \A j \in 1..Len(asg) : asg'[j].sort = asg[j].sort /\ asg'[j].decision = asg[j].decision
  BY <1>1, <1>2
<1>4. InOrder(asg', row')
  BY <1>1, <1>3 DEF SerialInv, InOrder
<1>5. \A h \in Handlers : AloneOK(loc'[h], asg', row')
  BY <1>1, <1>3 DEF SerialInv, AloneOK
<1> QED
  BY <1>1, <1>4, <1>5 DEF SerialInv

\* Alone, a sweep ends only picks whose time has run out.
LEMMA SerialSweep ==
    ASSUME CopiesInv, SerialInv, Exclusive, NEW h \in Handlers,
           \/ SweepFinds(h) \/ SweepRereads(h) \/ SweepTimesOut(h) \/ SweepReadsProposal(h)
    PROVE  SerialInv'
<1> DEFINE l == loc[h]
<1>1. /\ AloneOK(l, asg, row) /\ LocalOK(l, pool, asg, responses) /\ DOMAIN loc = Handlers
      /\ asg \in Seq(Assignment) /\ Len(asg) \in Nat /\ InOrder(asg, row)
  BY DEF SerialInv, CopiesInv, WorldOK
<1>2. CASE SweepFinds(h)
  <2>1. /\ loc' = [loc EXCEPT ![h] = [Idle EXCEPT !.pc = "sweepNext", !.todo = Stale]]
        /\ UNCHANGED <<asg, row>> /\ MayStart(h)
    BY <1>2 DEF SweepFinds, Become
  <2>2. Stale \subseteq {Len(asg)}
    BY <1>1 DEF Stale, InOrder
  <2>3. ASSUME NEW k, k = [Idle EXCEPT !.pc = "sweepNext", !.todo = Stale]
        PROVE  AloneOK(k, asg, row)
    <3>1. k.pc = "sweepNext" /\ k.todo = Stale
      BY <2>3 DEF Idle
    <3> QED
      BY <2>2, <3>1 DEF AloneOK
  <2> QED
    BY <1>1, <2>1, <2>3, AloneReads
<1>3. CASE SweepRereads(h)
  <2>1. l.pc = "sweepNext" /\ l.todo \subseteq {Len(asg)} /\ UNCHANGED <<asg, row>>
    BY <1>1, <1>3 DEF SweepRereads, At, AloneOK
  <2>2. PICK i \in l.todo, s \in {"sweepTimeout", "sweepRead"} :
          loc' = [loc EXCEPT ![h] = [l EXCEPT !.at = i, !.todo = @ \ {i}, !.pc = s]]
    BY <1>3 DEF SweepRereads, Become
  <2>3. i = Len(asg) /\ l.todo \ {i} = {}
    BY <2>1
  <2> HIDE DEF l
  <2>4. ASSUME NEW k, k = [l EXCEPT !.at = i, !.todo = @ \ {i}, !.pc = s]
        PROVE  AloneOK(k, asg, row)
    <3>1. k.pc = s /\ k.at = i /\ k.todo = l.todo \ {i}
      BY <1>1, <2>4 DEF LocalOK
    <3> QED
      BY <2>3, <3>1 DEF AloneOK
  <2>5. loc[h].pc # "idle"
    BY <2>1 DEF l
  <2> QED
    BY <1>1, <2>1, <2>2, <2>4, <2>5, AloneReads
<1>4. CASE SweepTimesOut(h)
  <2>1. /\ l.pc = "sweepTimeout" /\ l.at = Len(asg) /\ l.at \in 1..Len(asg)
        /\ l.todo = {} /\ UNCHANGED row
        /\ asg[l.at] \in Assignment
        /\ asg' = [asg EXCEPT ![l.at] = [asg[l.at] EXCEPT !.decision = "timeout"]]
        /\ loc' = [loc EXCEPT ![h] = [l EXCEPT !.pc = "sweepRead"]]
    BY <1>1, <1>4 DEF SweepTimesOut, At, GoTo, Become, AloneOK, LocalOK
  <2> HIDE DEF l
  <2>2. [asg[l.at] EXCEPT !.decision = "timeout"].sort = asg[l.at].sort
    BY <2>1 DEF Assignment
  <2>3. /\ Len(asg') = Len(asg)
        /\ \A i \in 1..Len(asg) : asg'[i].sort = asg[i].sort
        /\ \A i \in 1..Len(asg) : i < Len(asg) => asg'[i] = asg[i]
    BY <1>1, <2>1, <2>2
  <2>4. InOrder(asg', row')
    BY <1>1, <2>1, <2>3 DEF InOrder
  <2>5. ASSUME NEW k, k = [l EXCEPT !.pc = "sweepRead"]
        PROVE  AloneOK(k, asg', row')
    <3>1. k.pc = "sweepRead" /\ k.at = l.at /\ k.todo = l.todo
      BY <1>1, <2>5 DEF LocalOK
    <3> QED
      BY <2>1, <2>3, <3>1 DEF AloneOK
  <2>6. loc[h].pc # "idle"
    BY <2>1 DEF l
  <2> QED
    BY <1>1, <2>1, <2>4, <2>5, <2>6, AloneMoves
<1>5. CASE SweepReadsProposal(h)
  <2>1. /\ l.pc = "sweepRead" /\ l.at = Len(asg) /\ l.todo = {} /\ UNCHANGED <<asg, row>>
    BY <1>1, <1>5 DEF SweepReadsProposal, At, AloneOK
  <2>2. CASE Return(h)
    BY <1>1, <2>1, <2>2, AloneReturns, AloneReads, IdleIsAlone
  <2>3. CASE Read(h, "advance")
    <3>1. loc' = [loc EXCEPT ![h] = [l EXCEPT !.pc = "advance", !.copy = row]]
      BY <2>3 DEF Read, Become
    <3> HIDE DEF l
    <3>2. ASSUME NEW k, k = [l EXCEPT !.pc = "advance", !.copy = row]
          PROVE  AloneOK(k, asg, row)
      <4>1. k.pc = "advance" /\ k.copy = row /\ k.at = l.at /\ k.todo = l.todo
        BY <1>1, <3>2 DEF LocalOK
      <4> QED
        BY <2>1, <4>1 DEF AloneOK
    <3>3. loc[h].pc # "idle"
      BY <2>1 DEF l
    <3> QED
      BY <1>1, <2>1, <3>1, <3>2, <3>3, AloneReads
  <2> QED
    BY <1>5, <2>2, <2>3 DEF SweepReadsProposal
<1> QED
  BY <1>2, <1>3, <1>4, <1>5

\* Alone, a cancellation or execution reads the row.
LEMMA SerialStarts ==
    ASSUME CopiesInv, SerialInv, Exclusive, NEW h \in Handlers,
           CancelReads(h) \/ ExecuteReads(h)
    PROVE  SerialInv'
<1> DEFINE l == loc[h]
<1>1. /\ UNCHANGED <<asg, row>> /\ DOMAIN loc = Handlers /\ MayStart(h)
      /\ AloneOK(l, asg, row) /\ LocalOK(l, pool, asg, responses) /\ l.pc = "idle"
  BY DEF CancelReads, ExecuteReads, CopiesInv, SerialInv, MayStart
<1>2. PICK s \in {"cancel", "execute"} :
        loc' = [loc EXCEPT ![h] = [l EXCEPT !.pc = s, !.copy = row]]
  BY DEF CancelReads, ExecuteReads, Read, Become
<1> HIDE DEF l
<1>3. ASSUME NEW k, k = [l EXCEPT !.pc = s, !.copy = row]
      PROVE  AloneOK(k, asg, row)
  <2>1. k.pc = s /\ k.copy = row /\ k.todo = l.todo
    BY <1>1, <1>3 DEF LocalOK
  <2> QED
    BY <1>1, <2>1 DEF AloneOK
<1> QED
  BY <1>1, <1>2, <1>3, AloneReads

\* Alone, it saves the row it has read.
LEMMA SerialSaves ==
    ASSUME CopiesInv, SerialInv, Exclusive, NEW h \in Handlers,
           CancelSaves(h) \/ ExecuteSaves(h)
    PROVE  SerialInv'
<1>1. /\ UNCHANGED asg /\ DOMAIN loc = Handlers /\ Return(h)
      /\ loc[h].pc \in {"cancel", "execute"} /\ loc[h].copy \in Row
      /\ row' = [loc[h].copy EXCEPT !.status = "cancelled", !.current = 0]
         \/ row' = [loc[h].copy EXCEPT !.status = "executed"]
  BY DEF CancelSaves, ExecuteSaves, At, CopiesInv, LocalOK
<1>2. row'.status # "pending"
  BY <1>1 DEF Row
<1>3. loc' = [loc EXCEPT ![h] = Idle]
  BY <1>1, AloneReturns
<1>4. InOrder(asg', row')
  BY <1>1, <1>2 DEF SerialInv, InOrder
<1> QED
  BY <1>1, <1>3, <1>4, AloneMoves, IdleIsAlone

\* Alone, a handler stops at an await that throws.
LEMMA SerialFails ==
    ASSUME CopiesInv, SerialInv, Exclusive, NEW h \in Handlers, HandlerFails(h)
    PROVE  SerialInv'
<1>1. /\ UNCHANGED <<asg, row>> /\ DOMAIN loc = Handlers /\ loc[h].pc # "idle"
      /\ AloneOK(loc[h], asg, row) /\ InOrder(asg', row')
  BY DEF HandlerFails, CopiesInv, SerialInv
<1>2. loc' = [loc EXCEPT ![h] = Idle]
  <2>1. CASE loc[h].pc # "sweepNext"
    BY <1>1, <2>1, AloneReturns DEF HandlerFails
  <2>2. CASE loc[h].pc = "sweepNext"
    <3>1. PICK i \in loc[h].todo :
            loc' = [loc EXCEPT ![h] =
                     IF loc[h].todo = {i} THEN Idle ELSE [loc[h] EXCEPT !.todo = @ \ {i}]]
      BY <2>2 DEF HandlerFails, Become
    <3>2. loc[h].todo = {i}
      BY <1>1, <2>2 DEF AloneOK
    <3> QED
      BY <3>1, <3>2
  <2> QED
    BY <2>1, <2>2
<1> QED
  BY <1>1, <1>2, AloneMoves, IdleIsAlone

\* The picks are in order in the beginning.
LEMMA SerialInit == Init => SerialInv
  BY IdleIsAlone DEF Init, SerialInv, InOrder, FirstRow, NewAssignment, Idle

\* Every step keeps them in order, one handler at a time.
LEMMA SerialStep ==
    ASSUME Exclusive
    PROVE  CopiesInv /\ SerialInv /\ [Next]_vars => SerialInv'
<1> SUFFICES ASSUME CopiesInv, SerialInv, [Next]_vars PROVE SerialInv'
  OBVIOUS
<1>1. ASSUME NEW h \in Requests, VoteReadsProposal(h) \/ CancelReads(h) \/ ExecuteReads(h)
      PROVE  SerialInv'
  BY <1>1, SerialVoteReads, SerialStarts DEF Handlers
<1>2. ASSUME NEW h \in Sweeps, SweepFinds(h) PROVE SerialInv'
  BY <1>2, SerialSweep DEF Handlers
<1>3. ASSUME NEW h \in Handlers, Continue(h) PROVE SerialInv'
  BY <1>3, SerialVoteReads, SerialCommits, SerialAdvance, SerialAnnounce, SerialSweep,
     SerialSaves DEF Continue
<1>4. CASE \E i \in DOMAIN asg : Expire(i)
  BY <1>4, SerialExpire
<1>5. CASE Crash
  <2>1. UNCHANGED <<asg, row>> /\ \A h \in Handlers : loc'[h] = Idle
    BY <1>5 DEF Crash
  <2> QED
    BY <2>1, IdleIsAlone DEF SerialInv, Idle
<1>6. CASE UNCHANGED vars
  BY <1>6 DEF vars, SerialInv
<1>7. ASSUME NEW h \in Handlers, HandlerFails(h) PROVE SerialInv'
  BY <1>7, SerialFails
<1> QED
  BY <1>1, <1>2, <1>3, <1>4, <1>5, <1>6, <1>7 DEF Next

\* One handler at a time, they are in order in every reachable state.
LEMMA Serial ==
    ASSUME Exclusive
    PROVE  Spec => []SerialInv
BY Copies, SerialInit, SerialStep, PTL DEF Spec

\* Where no two handlers overlap every pick is asked at most once, through
\* time-outs, cancellations and crashes.
THEOREM AskedOnce ==
    ASSUME Exclusive
    PROVE  Spec => []OneAssignmentPerPick
<1>1. CopiesInv /\ SerialInv => OneAssignmentPerPick
  BY DEF CopiesInv, WorldOK, SerialInv, InOrder, OneAssignmentPerPick
<1> QED
  BY <1>1, Copies, Serial, PTL

\* Where no two handlers overlap the two approving answers are those of two
\* donors.
THEOREM TwoDonors ==
    ASSUME Exclusive
    PROVE  Spec => []ApprovedByTwoDonors
<1>1. ASSUME CopiesInv, SerialInv, row.status \in {"approved", "executed"}
      PROVE  Cardinality(DonorsVoting("approve")) >= 2
  <2> DEFINE V == Voting("approve")
             D == DonorsVoting("approve")
  <2>1. Cardinality(V) >= 2
    BY <1>1, CopiesDecisions DEF DecisionsRestOnVotes, LiveRows, RequiredApprovals
  <2>2. V \subseteq 1..Len(asg) /\ IsFiniteSet(V) /\ Len(asg) \in Nat
    <3>1. Len(asg) \in Nat /\ responses \subseteq [asg: 1..Len(asg), vote: Votes]
      BY <1>1 DEF CopiesInv, WorldOK
    <3> QED
      BY <3>1, AnswersFinite, VotingIsAnswers
  <2>3. PICK i \in V : TRUE
    BY <2>1, FS_EmptySet
  <2>4. IsFiniteSet(V \ {i}) /\ Cardinality(V \ {i}) = Cardinality(V) - 1
    BY <2>2, FS_RemoveElement
  <2>5. PICK j \in V : j # i
    <3>1. V \ {i} # {}
      BY <2>1, <2>2, <2>4, FS_EmptySet, FS_CardinalityType
    <3> QED
      BY <3>1
  <2>6. D = {asg[k].sort : k \in V}
    BY DEF DonorsVoting
  <2>7. asg[i].sort \in D /\ asg[j].sort \in D
    BY <2>3, <2>5, <2>6
  <2>8. asg[i].sort # asg[j].sort
    BY <1>1, <2>2, <2>3, <2>5 DEF SerialInv, InOrder
  <2>9. IsFiniteSet(D)
    <3>1. D \subseteq 0..Len(asg)
      BY <1>1, <2>2, <2>6 DEF SerialInv, InOrder
    <3>2. IsFiniteSet(0..Len(asg))
      BY <2>2, FS_Interval
    <3> HIDE DEF D
    <3> QED
      BY <3>1, <3>2, FS_Subset
  <2> HIDE DEF D, V
  <2>10. Cardinality({asg[i].sort, asg[j].sort}) = 2
    <3>1. IsFiniteSet({asg[i].sort}) /\ Cardinality({asg[i].sort}) = 1
      BY FS_Singleton
    <3>2. Cardinality({asg[i].sort} \cup {asg[j].sort}) = 2
      BY <2>8, <3>1, FS_AddElement
    <3>3. {asg[i].sort} \cup {asg[j].sort} = {asg[i].sort, asg[j].sort}
      OBVIOUS
    <3> QED
      BY <3>2, <3>3
  <2>11. Cardinality({asg[i].sort, asg[j].sort}) <= Cardinality(D)
    BY <2>7, <2>9, FS_Subset
  <2> QED
    BY <2>9, <2>10, <2>11, FS_CardinalityType DEF D
<1>2. CopiesInv /\ SerialInv => ApprovedByTwoDonors
  BY <1>1 DEF ApprovedByTwoDonors, RequiredApprovals
<1> QED
  BY <1>2, Copies, Serial, PTL

\* Where no two handlers overlap a settled proposal stays settled, and only an
\* approved one moves on, to executed.
THEOREM SettledForGood ==
    ASSUME Exclusive
    PROVE  Spec => SettledStays
<1> DEFINE Kept == row.status \in Settled =>
                     \/ row'.status = row.status
                     \/ row.status = "approved" /\ row'.status = "executed"
<1>1. ASSUME CopiesInv, SerialInv, NEW h \in Handlers,
             loc[h].pc \in {"voteTx", "advance", "cancel"}
      PROVE  row.status = "pending"
  BY <1>1 DEF CopiesInv, LocalOK, SerialInv, AloneOK
<1>2. ASSUME CopiesInv, SerialInv, NEW h \in Handlers, ExecuteSaves(h)
      PROVE  row.status = "approved" /\ row'.status = "executed"
  <2>1. loc[h].copy = row /\ loc[h].copy.status = "approved" /\ row \in Row
    BY <1>2 DEF ExecuteSaves, At, CopiesInv, LocalOK, SerialInv, AloneOK, RowOK
  <2> QED
    BY <1>2, <2>1 DEF ExecuteSaves, Row
<1>3. ASSUME CopiesInv, SerialInv, [Next]_vars
      PROVE  Kept
  <2>1. ASSUME NEW h \in Requests, VoteReadsProposal(h) \/ CancelReads(h) \/ ExecuteReads(h)
        PROVE  Kept
    BY <2>1 DEF VoteReadsProposal, CancelReads, ExecuteReads
  <2>2. ASSUME NEW h \in Sweeps, SweepFinds(h) PROVE Kept
    BY <2>2 DEF SweepFinds
  <2>3. ASSUME NEW h \in Handlers, VoteCommits(h) \/ Advance(h) \/ CancelSaves(h) PROVE Kept
    BY <1>1, <1>3, <2>3 DEF VoteCommits, Advance, CancelSaves, At, Settled
  <2>4. ASSUME NEW h \in Handlers,
               \/ VoteReadsAssignment(h) \/ Announce(h) \/ SweepRereads(h)
               \/ SweepTimesOut(h) \/ SweepReadsProposal(h)
        PROVE  Kept
    BY <2>4 DEF VoteReadsAssignment, Announce, SweepRereads, SweepTimesOut, SweepReadsProposal
  <2>5. ASSUME NEW h \in Handlers, ExecuteSaves(h) PROVE Kept
    BY <1>2, <1>3, <2>5
  <2>6. CASE UNCHANGED row
    BY <2>6
  <2> QED
    BY <1>3, <2>1, <2>2, <2>3, <2>4, <2>5, <2>6
       DEF Next, Continue, HandlerFails, Expire, Crash, vars
<1>4. CopiesInv /\ SerialInv /\ [Next]_vars => [Kept]_vars
  BY <1>3
<1> QED
  BY <1>4, Copies, Serial, PTL DEF Spec, SettledStays

-----------------------------------------------------------------------------
(* Where no two handlers overlap a proposal is an Approval *)

\* Alone, nothing is lost: the counters of the row are the committed votes.
ExactInv ==
    /\ row.votesFor = Cardinality(Answers(responses, "approve"))
    /\ row.votesAgainst = Cardinality(Answers(responses, "reject"))

\* Alone, a vote comes from the donor who is being asked and has not answered,
\* it is counted, and two alike decide.
LEMMA SerialVote ==
    ASSUME CopiesInv, SerialInv, ExactInv, NEW h \in Handlers, VoteCommits(h),
           NEW i, i = loc[h].at, NEW v, v = loc[h].vote
    PROVE  /\ i = Len(asg) /\ i \in 1..Len(asg) /\ v \in Votes
           /\ row.status = "pending" /\ row' \in Row
           /\ i \notin Answers(responses, "approve") /\ i \notin Answers(responses, "reject")
           /\ \/ /\ v = "approve"
                 /\ row'.votesFor = row.votesFor + 1 /\ row'.votesAgainst = row.votesAgainst
                 /\ row'.status = IF row.votesFor + 1 >= 2 THEN "approved" ELSE "pending"
              \/ /\ v = "reject"
                 /\ row'.votesAgainst = row.votesAgainst + 1 /\ row'.votesFor = row.votesFor
                 /\ row'.status = IF row.votesAgainst + 1 >= 2 THEN "rejected" ELSE "pending"
<1>1. /\ loc[h].pc = "voteTx" /\ loc[h].copy = row /\ i = Len(asg) /\ i \in 1..Len(asg) /\ v \in Votes
      /\ NotCounted(loc[h], responses) /\ row.status = "pending" /\ row \in Row
      /\ row.votesFor < 2 /\ row.votesAgainst < 2
      /\ Len(asg) \in Nat /\ responses \subseteq [asg: 1..Len(asg), vote: Votes]
  BY DEF VoteCommits, At, SerialInv, AloneOK, CopiesInv, LocalOK, RowOK, WorldOK
<1>2. ASSUME NEW w, Cardinality(Answers(responses, w)) <= Cardinality(Answers(responses, w) \ {i})
      PROVE  i \notin Answers(responses, w)
  <2>1. /\ IsFiniteSet(Answers(responses, w)) /\ Cardinality(Answers(responses, w)) \in Nat
    BY <1>1, AnswersFinite
  <2>2. i \in Answers(responses, w) =>
          Cardinality(Answers(responses, w) \ {i}) = Cardinality(Answers(responses, w)) - 1
    BY <2>1, FS_RemoveElement
  <2> QED
    BY <1>2, <2>1, <2>2
<1>3. /\ i \notin Answers(responses, "approve") /\ i \notin Answers(responses, "reject")
  BY <1>1, <1>2 DEF NotCounted, ExactInv
<1> DEFINE r == CountedRow(row, v)
<1>4. /\ r \in Row /\ r.status = "pending"
      /\ \/ v = "approve" /\ r.votesFor = row.votesFor + 1 /\ r.votesAgainst = row.votesAgainst
         \/ v = "reject" /\ r.votesAgainst = row.votesAgainst + 1 /\ r.votesFor = row.votesFor
  <2>1. row.votesFor + 1 \in 0..3 /\ row.votesAgainst + 1 \in 0..3
    BY <1>1 DEF Row
  <2> QED
    BY <1>1, <2>1 DEF CountedRow, Row, Votes
<1>5. /\ row.votesFor \in Nat /\ row.votesAgainst \in Nat
      /\ r.votesFor \in Nat /\ r.votesAgainst \in Nat
  BY <1>1, <1>4 DEF Row
<1> HIDE DEF r
<1>6. \/ /\ r.votesFor >= 2 /\ row' = SettledRow(r, "approved", "none")
      \/ /\ r.votesFor < 2 /\ r.votesAgainst >= 2 /\ row' = SettledRow(r, "rejected", "none")
      \/ /\ r.votesFor < 2 /\ r.votesAgainst < 2 /\ row' = [r EXCEPT !.current = 0]
  BY <1>1 DEF VoteCommits, SaveAndGoTo, r, RequiredApprovals
<1>7. CASE r.votesFor >= 2 /\ row' = SettledRow(r, "approved", "none")
  <2>1. row' \in Row /\ row'.status = "approved" /\ row'.votesFor = r.votesFor /\ row'.votesAgainst = r.votesAgainst
    BY <1>4, <1>7, SettledRowIs
  <2> QED
    BY <1>1, <1>3, <1>4, <1>5, <1>7, <2>1
<1>8. CASE r.votesFor < 2 /\ r.votesAgainst >= 2 /\ row' = SettledRow(r, "rejected", "none")
  <2>1. row' \in Row /\ row'.status = "rejected" /\ row'.votesFor = r.votesFor /\ row'.votesAgainst = r.votesAgainst
    BY <1>4, <1>8, SettledRowIs
  <2> QED
    BY <1>1, <1>3, <1>4, <1>5, <1>8, <2>1
<1>9. CASE r.votesFor < 2 /\ r.votesAgainst < 2 /\ row' = [r EXCEPT !.current = 0]
  <2>1. row' \in Row /\ row'.status = "pending" /\ row'.votesFor = r.votesFor /\ row'.votesAgainst = r.votesAgainst
    BY <1>4, <1>9 DEF Row
  <2> QED
    BY <1>1, <1>3, <1>4, <1>5, <1>9, <2>1
<1> QED
  BY <1>6, <1>7, <1>8, <1>9

\* The answers of a committed vote are one more of its kind.
LEMMA SerialAnswers ==
    ASSUME CopiesInv, SerialInv, ExactInv, NEW h \in Handlers, VoteCommits(h),
           NEW i, i = loc[h].at, NEW v, v = loc[h].vote
    PROVE  \A w : Answers(responses', w) =
                    IF w = v THEN Answers(responses, w) \cup {i} ELSE Answers(responses, w)
<1> DEFINE S == responses \cup {[asg |-> i, vote |-> v]}
<1>1. responses' = S
  BY DEF VoteCommits
<1>2. ASSUME NEW w, w # v PROVE Answers(S, w) = Answers(responses, w)
  BY <1>2 DEF Answers
<1>3. Answers(S, v) = Answers(responses, v) \cup {i}
  <2> DEFINE x == [asg |-> i, vote |-> v]
  <2>1. x \in S /\ x.vote = v /\ x.asg = i
    OBVIOUS
  <2>2. \A y \in S : y \in responses \/ y = x
    OBVIOUS
  <2>3. responses \subseteq S
    OBVIOUS
  <2> HIDE DEF x, S
  <2> QED
    BY <2>1, <2>2, <2>3 DEF Answers
<1> QED
  BY <1>1, <1>2, <1>3

\* What is saved without a vote keeps the counters.
LEMMA SerialCounts ==
    ASSUME CopiesInv, SerialInv, ExactInv, NEW h \in Handlers,
           Advance(h) \/ CancelSaves(h) \/ ExecuteSaves(h)
    PROVE  ExactInv'
<1>1. loc[h].copy = row /\ row \in Row /\ UNCHANGED responses
  BY DEF Advance, CancelSaves, ExecuteSaves, At, SerialInv, AloneOK, CopiesInv, RowOK
<1>2. row'.votesFor = row.votesFor /\ row'.votesAgainst = row.votesAgainst
  <2>1. CASE Advance(h)
    <3>1. \/ row' = SettledRow(row, "rejected", "no_quorum")
          \/ row' = [row EXCEPT !.current = Len(asg) + 1]
      BY <1>1, <2>1 DEF Advance, SaveAndGoTo
    <3> QED
      BY <1>1, <3>1, SettledRowIs DEF Row
  <2>2. CASE CancelSaves(h)
    BY <1>1, <2>2 DEF CancelSaves, Row
  <2>3. CASE ExecuteSaves(h)
    BY <1>1, <2>3 DEF ExecuteSaves, Row
  <2> QED
    BY <2>1, <2>2, <2>3
<1> QED
  BY <1>1, <1>2 DEF ExactInv

\* Steps that leave row and votes alone.
LEMMA OtherSteps ==
    ASSUME NEW h \in Handlers,
           \/ VoteReadsAssignment(h) \/ Announce(h) \/ SweepRereads(h)
           \/ SweepTimesOut(h) \/ SweepReadsProposal(h)
           \/ VoteReadsProposal(h) \/ CancelReads(h) \/ ExecuteReads(h) \/ SweepFinds(h)
           \/ HandlerFails(h)
    PROVE  UNCHANGED <<pool, row, responses>>
BY DEF VoteReadsAssignment, Announce, SweepRereads, SweepTimesOut, SweepReadsProposal,
       VoteReadsProposal, CancelReads, ExecuteReads, SweepFinds, HandlerFails

\* Alone, the counters stay exact.
LEMMA ExactStep == CopiesInv /\ SerialInv /\ ExactInv /\ [Next]_vars => ExactInv'
<1> SUFFICES ASSUME CopiesInv, SerialInv, ExactInv, [Next]_vars PROVE ExactInv'
  OBVIOUS
<1>1. ASSUME UNCHANGED <<row, responses>> PROVE ExactInv'
  BY <1>1 DEF ExactInv
<1>2. ASSUME NEW h \in Handlers, VoteCommits(h) PROVE ExactInv'
  <2> DEFINE i == loc[h].at
             v == loc[h].vote
             Y == Answers(responses, "approve")
             N == Answers(responses, "reject")
  <2>1. \A w : Answers(responses', w) =
                 IF w = v THEN Answers(responses, w) \cup {i} ELSE Answers(responses, w)
    BY <1>2, SerialAnswers
  <2>2. /\ i \notin Y /\ i \notin N
        /\ \/ /\ v = "approve"
              /\ row'.votesFor = row.votesFor + 1 /\ row'.votesAgainst = row.votesAgainst
           \/ /\ v = "reject"
              /\ row'.votesAgainst = row.votesAgainst + 1 /\ row'.votesFor = row.votesFor
    BY <1>2, SerialVote
  <2>3. IsFiniteSet(Y) /\ IsFiniteSet(N)
    <3>1. Len(asg) \in Nat /\ responses \subseteq [asg: 1..Len(asg), vote: Votes]
      BY DEF CopiesInv, WorldOK
    <3> QED
      BY <3>1, AnswersFinite
  <2>4. /\ Cardinality(Y \cup {i}) = Cardinality(Y) + 1
        /\ Cardinality(N \cup {i}) = Cardinality(N) + 1
    BY <2>2, <2>3, FS_AddElement
  <2> HIDE DEF i, v
  <2> QED
    BY <2>1, <2>2, <2>4 DEF ExactInv
<1>3. ASSUME NEW h \in Handlers, Continue(h) \/ HandlerFails(h) PROVE ExactInv'
  BY <1>1, <1>2, <1>3, SerialCounts, OtherSteps DEF Continue
<1>4. ASSUME NEW h \in Requests, VoteReadsProposal(h) \/ CancelReads(h) \/ ExecuteReads(h)
      PROVE  ExactInv'
  BY <1>1, <1>4, OtherSteps DEF Handlers
<1>5. ASSUME NEW h \in Sweeps, SweepFinds(h) PROVE ExactInv'
  BY <1>1, <1>5, OtherSteps DEF Handlers
<1>6. CASE \/ \E i \in DOMAIN asg : Expire(i)
           \/ Crash
           \/ UNCHANGED vars
  BY <1>1, <1>6 DEF Expire, Crash, vars
<1> QED
  BY <1>3, <1>4, <1>5, <1>6 DEF Next

\* No vote has been counted in the beginning.
LEMMA ExactInit == Init => ExactInv
<1> SUFFICES ASSUME Init PROVE ExactInv
  OBVIOUS
<1>1. \A v : Answers(responses, v) = {}
  BY DEF Init, Answers
<1>2. row.votesFor = 0 /\ row.votesAgainst = 0
  BY DEF Init, FirstRow
<1> QED
  BY <1>1, <1>2, FS_EmptySet DEF ExactInv

\* Where no two handlers overlap every step of a proposal, restarts included,
\* is a step of Approval or leaves it alone: donors answer in turn, once, and
\* two alike decide at once.
THEOREM ImplementsApproval ==
    ASSUME Exclusive
    PROVE  Spec => IsAnApproval
<1> DEFINE Yes == DonorsVoting("approve")
           No == DonorsVoting("reject")
<1>1. ASSUME Init PROVE Consent!Init
  <2>1. \A v : DonorsVoting(v) = {}
    BY <1>1 DEF Init, DonorsVoting, Voting
  <2>2. Len(asg) - 1 = 0
    BY <1>1 DEF Init
  <2> QED
    BY <1>1, <2>1, <2>2, PoolAssumption DEF Consent!Init, Init, FirstRow
<1>2. ASSUME CopiesInv, SerialInv, ExactInv, CopiesInv', SerialInv', [Next]_vars
      PROVE  [Consent!Next]_<<pool, Len(asg) - 1, row.status, Yes, No>>
  <2>1. /\ Len(asg) \in Nat /\ Len(asg) >= 1 /\ row \in Row
        /\ \A v : Answers(responses, v) \subseteq 1..Len(asg)
        /\ \A i \in 1..Len(asg) : asg[i].sort = i - 1 /\ asg[i].sort < pool
    <3>1. /\ Len(asg) \in Nat /\ Len(asg) >= 1 /\ row \in Row
          /\ responses \subseteq [asg: 1..Len(asg), vote: Votes]
          /\ DOMAIN asg = 1..Len(asg)
          /\ \A i \in DOMAIN asg : asg[i].sort < pool
      BY <1>2 DEF CopiesInv, WorldOK, RowOK
    <3> QED
      BY <1>2, <3>1, AnswersFinite DEF SerialInv, InOrder
  <2>2. \A v : DonorsVoting(v) = {i - 1 : i \in Answers(responses, v)}
    BY <2>1, VotingIsAnswers DEF DonorsVoting
  <2>3. /\ Len(asg') \in Nat
        /\ \A v : Answers(responses', v) \subseteq 1..Len(asg')
        /\ \A i \in 1..Len(asg') : asg'[i].sort = i - 1
    <3>1. Len(asg') \in Nat /\ responses' \subseteq [asg: 1..Len(asg'), vote: Votes]
      BY <1>2 DEF CopiesInv, WorldOK
    <3> QED
      BY <1>2, <3>1, AnswersFinite DEF SerialInv, InOrder
  <2>4. /\ Yes' = {i - 1 : i \in Answers(responses', "approve")}
        /\ No' = {i - 1 : i \in Answers(responses', "reject")}
    <3>1. \A R, v : {x.asg : x \in {y \in R : y.vote = v}} = Answers(R, v)
      BY DEF Answers
    <3> QED
      BY <2>3, <3>1 DEF DonorsVoting, Voting
  <2>5. ExactInv'
    BY <1>2, ExactStep
  <2> HIDE DEF Yes, No
  <2>6. ASSUME NEW h \in Handlers, VoteCommits(h)
        PROVE  Consent!Approve \/ Consent!Reject
    <3> DEFINE i == loc[h].at
               v == loc[h].vote
               turn == Len(asg) - 1
    <3>1. /\ i = Len(asg) /\ i \in 1..Len(asg) /\ v \in Votes
          /\ row.status = "pending" /\ row' \in Row
          /\ i \notin Answers(responses, "approve") /\ i \notin Answers(responses, "reject")
          /\ \/ /\ v = "approve"
                /\ row'.votesFor = row.votesFor + 1 /\ row'.votesAgainst = row.votesAgainst
                /\ row'.status = IF row.votesFor + 1 >= 2 THEN "approved" ELSE "pending"
             \/ /\ v = "reject"
                /\ row'.votesAgainst = row.votesAgainst + 1 /\ row'.votesFor = row.votesFor
                /\ row'.status = IF row.votesAgainst + 1 >= 2 THEN "rejected" ELSE "pending"
      BY <1>2, <2>6, SerialVote
    <3>2. \A w : Answers(responses', w) =
                   IF w = v THEN Answers(responses, w) \cup {i} ELSE Answers(responses, w)
      BY <1>2, <2>6, SerialAnswers
    <3>3. Len(asg') = Len(asg) /\ UNCHANGED pool
      BY <1>2, <2>6 DEF VoteCommits, CopiesInv, WorldOK
    <3> HIDE DEF i, v
    <3>4. turn \notin Yes \cup No
      <4>1. \A w, t : t \in {k - 1 : k \in Answers(responses, w)} => t + 1 \in Answers(responses, w)
        BY <2>1
      <4>2. turn + 1 = i
        BY <2>1, <3>1
      <4>3. /\ Yes = {k - 1 : k \in Answers(responses, "approve")}
            /\ No = {k - 1 : k \in Answers(responses, "reject")}
        BY <2>2 DEF Yes, No
      <4> HIDE DEF turn
      <4> QED
        BY <3>1, <4>1, <4>2, <4>3
    <3>5. /\ row.votesFor \in 0..1 /\ row.votesAgainst \in 0..1
          /\ Yes = {} <=> row.votesFor = 0
          /\ No = {} <=> row.votesAgainst = 0
      <4>1. ASSUME NEW w
            PROVE  {k - 1 : k \in Answers(responses, w)} = {} <=> Cardinality(Answers(responses, w)) = 0
        <5>1. IsFiniteSet(Answers(responses, w))
          <6>1. responses \subseteq [asg: 1..Len(asg), vote: Votes]
            BY <1>2 DEF CopiesInv, WorldOK
          <6> QED
            BY <2>1, <6>1, AnswersFinite
        <5>2. Answers(responses, w) = {} <=> Cardinality(Answers(responses, w)) = 0
          BY <5>1, FS_EmptySet
        <5> QED
          BY <5>2
      <4>2. row.votesFor \in 0..3 /\ row.votesAgainst \in 0..3 /\ row.votesFor < 2 /\ row.votesAgainst < 2
        BY <1>2, <3>1 DEF CopiesInv, RowOK, Row
      <4>3. /\ Yes = {k - 1 : k \in Answers(responses, "approve")}
            /\ No = {k - 1 : k \in Answers(responses, "reject")}
        BY <2>2 DEF Yes, No
      <4>4. /\ Yes = {} <=> row.votesFor = 0
            /\ No = {} <=> row.votesAgainst = 0
        BY <1>2, <4>1, <4>3 DEF ExactInv
      <4> QED
        BY <4>2, <4>4
    <3>6. CASE v = "approve"
      <4>1. Yes' = Yes \cup {turn} /\ No' = No
        BY <2>2, <2>4, <3>1, <3>2, <3>6 DEF Yes, No
      <4>2. row'.status = IF Yes = {} THEN row.status ELSE "approved"
        BY <3>1, <3>5, <3>6
      <4> QED
        BY <3>1, <3>3, <3>4, <4>1, <4>2 DEF Consent!Approve, Consent!Open, Consent!Decide, Yes, No
    <3>7. CASE v = "reject"
      <4>1. No' = No \cup {turn} /\ Yes' = Yes
        BY <2>2, <2>4, <3>1, <3>2, <3>7 DEF Yes, No
      <4>2. row'.status = IF No = {} THEN row.status ELSE "rejected"
        BY <3>1, <3>5, <3>7
      <4> QED
        BY <3>1, <3>3, <3>4, <4>1, <4>2 DEF Consent!Reject, Consent!Open, Consent!Decide, Yes, No
    <3> QED
      BY <3>1, <3>6, <3>7
  <2>7. ASSUME UNCHANGED responses PROVE UNCHANGED <<Yes, No>>
    BY <2>2, <2>4, <2>7 DEF Yes, No
  <2>8. ASSUME NEW h \in Handlers, Advance(h)
        PROVE  Consent!AskNext \/ Consent!NoQuorum
    <3>1. /\ loc[h].copy = row /\ row.status = "pending" /\ loc[h].at = Len(asg)
          /\ asg[Len(asg)].sort = Len(asg) - 1 /\ asg[Len(asg)].sort < pool
          /\ UNCHANGED <<pool, responses>> /\ pool \in Nat
      BY <1>2, <2>1, <2>8, PoolAssumption
         DEF Advance, At, CopiesInv, WorldOK, LocalOK, SerialInv, AloneOK
    <3>2. UNCHANGED <<Yes, No>>
      BY <2>7, <3>1
    <3>3. CASE /\ asg[loc[h].at].sort + 1 >= pool
               /\ SaveAndGoTo(h, SettledRow(loc[h].copy, "rejected", "no_quorum"), "announce")
               /\ UNCHANGED asg
      <4>1. row'.status = "rejected"
        BY <2>1, <3>1, <3>3, SettledRowIs DEF SaveAndGoTo
      <4>2. Len(asg) - 1 + 1 = pool /\ UNCHANGED asg
        BY <2>1, <3>1, <3>3
      <4> QED
        BY <3>1, <3>2, <4>1, <4>2 DEF Consent!NoQuorum, Consent!Open, Yes, No
    <3>4. CASE /\ asg[loc[h].at].sort + 1 < pool
               /\ asg' = Append(asg, NewAssignment(asg[loc[h].at].sort + 1))
               /\ row' = [loc[h].copy EXCEPT !.current = Len(asg) + 1]
      <4>1. row'.status = row.status
        BY <2>1, <3>1, <3>4 DEF Row
      <4>2. Len(asg') = Len(asg) + 1
        BY <1>2, <3>4 DEF CopiesInv, WorldOK
      <4>3. Len(asg) - 1 + 1 < pool /\ Len(asg') - 1 = Len(asg) - 1 + 1
        BY <2>1, <3>1, <3>4, <4>2
      <4> QED
        BY <3>1, <3>2, <4>1, <4>3 DEF Consent!AskNext, Consent!Open, Yes, No
    <3> QED
      BY <2>8, <3>3, <3>4 DEF Advance
  <2>9. ASSUME NEW h \in Handlers, CancelSaves(h)
        PROVE  Consent!Withdraw
    <3>1. /\ loc[h].copy = row /\ row.status = "pending" /\ row'.status = "cancelled"
          /\ UNCHANGED <<pool, asg, responses>>
      BY <1>2, <2>1, <2>9 DEF CancelSaves, At, CopiesInv, LocalOK, SerialInv, AloneOK, Row
    <3> QED
      BY <2>7, <3>1 DEF Consent!Withdraw, Consent!Open, Yes, No
  <2>10. ASSUME NEW h \in Handlers, ExecuteSaves(h)
        PROVE  Consent!Execute
    <3>1. /\ loc[h].copy = row /\ row.status = "approved" /\ row'.status = "executed"
          /\ UNCHANGED <<pool, asg, responses>>
      BY <1>2, <2>1, <2>10 DEF ExecuteSaves, At, CopiesInv, LocalOK, SerialInv, AloneOK, Row
    <3> QED
      BY <2>7, <3>1 DEF Consent!Execute, Yes, No
  <2>11. ASSUME UNCHANGED <<pool, row, responses>>, Len(asg') = Len(asg)
         PROVE  UNCHANGED <<pool, Len(asg) - 1, row.status, Yes, No>>
    BY <2>7, <2>11
  <2>12. ASSUME NEW h \in Handlers,
               \/ VoteReadsAssignment(h) \/ Announce(h) \/ SweepRereads(h)
               \/ SweepTimesOut(h) \/ SweepReadsProposal(h)
               \/ VoteReadsProposal(h) \/ CancelReads(h) \/ ExecuteReads(h) \/ SweepFinds(h)
               \/ HandlerFails(h)
         PROVE  Len(asg') = Len(asg)
    <3>1. CASE SweepTimesOut(h)
      BY <1>2, <3>1 DEF SweepTimesOut, CopiesInv, WorldOK
    <3>2. CASE ~SweepTimesOut(h)
      <4>1. UNCHANGED asg
        BY <2>12, <3>2 DEF VoteReadsAssignment, Announce, SweepRereads, SweepReadsProposal,
           VoteReadsProposal, CancelReads, ExecuteReads, SweepFinds, HandlerFails
      <4> QED
        BY <4>1
    <3> QED
      BY <3>1, <3>2
  <2>13. CASE \/ \E i \in DOMAIN asg : Expire(i)
              \/ Crash
              \/ UNCHANGED vars
    <3>1. UNCHANGED <<pool, row, responses>> /\ Len(asg') = Len(asg)
      BY <1>2, <2>13 DEF Expire, Crash, vars, CopiesInv, WorldOK
    <3> QED
      BY <2>11, <3>1
  <2>14. ASSUME NEW h \in Handlers,
               \/ VoteReadsAssignment(h) \/ Announce(h) \/ SweepRereads(h)
               \/ SweepTimesOut(h) \/ SweepReadsProposal(h)
               \/ VoteReadsProposal(h) \/ CancelReads(h) \/ ExecuteReads(h) \/ SweepFinds(h)
               \/ HandlerFails(h)
         PROVE  UNCHANGED <<pool, Len(asg) - 1, row.status, Yes, No>>
    BY <2>11, <2>12, <2>14, OtherSteps
  <2>15. Requests \subseteq Handlers /\ Sweeps \subseteq Handlers
    BY DEF Handlers
  <2>16. \/ Consent!Next
         \/ UNCHANGED <<pool, Len(asg) - 1, row.status, Yes, No>>
    BY <1>2, <2>6, <2>8, <2>9, <2>10, <2>13, <2>14, <2>15 DEF Next, Continue, Consent!Next
  <2> QED
    BY <2>16
<1>3. CopiesInv /\ SerialInv /\ [Next]_vars => CopiesInv' /\ SerialInv'
  BY CopiesStep, SerialStep
<1> QED
  BY <1>1, <1>2, <1>3, ExactInit, ExactStep, Copies, Serial, PTL
     DEF Spec, IsAnApproval, Consent!Spec

-----------------------------------------------------------------------------
(* The page of an event *)

Service == [op : {"none", "edit", "insert", "update"}, seat : Seat \cup {NoSeat}, edit : Edit]
Seating == {"insert", "update"}

\* A seat under way is that of its row, of a page that was published; one to be inserted was
\* asked for before the start; an edit of the fifth page had its fields.
ServiceOK(k) ==
    /\ k.op \in Seating =>
        /\ k.seat \in Seat /\ k.seat.id \in usedIds /\ (page.published \/ unpublished)
        /\ \A s \in seats : s.id = k.seat.id => s = k.seat
    /\ k.op = "insert" => ~page.started \/ crossed
    /\ k.op = "edit" /\ k.edit.page5 =>
        k.edit.fills = "all" \/ (k.edit.fills = "nothing" /\ (page.filled \/ blanked))

SameSeat == \A r, q \in PageCalls :
    serving[r].op \in Seating /\ serving[q].op \in Seating /\ serving[r].seat.id = serving[q].seat.id
    => serving[r].seat = serving[q].seat

SeatsInv ==
    /\ seats \subseteq Seat /\ usedIds \subseteq SeatIds /\ Ids \subseteq usedIds
    /\ \A s, t \in seats : s.id = t.id => s = t
    /\ seats # {} => page.published \/ unpublished
    /\ OneSeatPerPerson

PeopleInv ==
    /\ DOMAIN organizers \subseteq People \cup {EventCreator} /\ owners \subseteq DOMAIN organizers
    /\ repeated \subseteq People /\ OneRowPerOrganizer

PageInv ==
    /\ page \in [filled : BOOLEAN, published : BOOLEAN, public : BOOLEAN, started : BOOLEAN]
    /\ {flagged, blanked, unpublished, crossed} \subseteq BOOLEAN /\ edits \in 0..MaxEdits
    /\ serving \in [PageCalls -> Service]
    /\ \A r \in PageCalls, k \in Service : serving[r] = k => ServiceOK(k)
    /\ SameSeat /\ SeatsInv /\ PeopleInv /\ PublishedIsComplete

\* Request r is now about k.
ServedAs(r, k) ==
    serving' \in [PageCalls -> Service] /\ \A q \in PageCalls : serving'[q] = IF q = r THEN k ELSE serving[q]

\* What the requests are about after one turned to k.
LEMMA ServingTaken ==
    ASSUME serving \in [PageCalls -> Service], NEW r \in PageCalls,
           NEW k \in Service, serving' = [serving EXCEPT ![r] = k]
    PROVE  ServedAs(r, k)
BY DEF ServedAs

\* A request about nothing.
LEMMA NoServiceOK == NoService \in Service /\ NoService.op = "none" /\ ServiceOK(NoService)
BY DEF NoService, NoEdit, NoSeat, NobodyAdded, Times, Service, Edit, ServiceOK, Seating

\* What a request is about, field by field.
LEMMA ServiceIs ==
    ASSUME NEW op, NEW x
    PROVE  /\ [NoService EXCEPT !.op = op, !.edit = x] = [op |-> op, seat |-> NoSeat, edit |-> x]
           /\ [NoService EXCEPT !.op = op, !.seat = x] = [op |-> op, seat |-> x, edit |-> NoEdit]
<1> DEFINE k == NoService
<1>1. /\ [k EXCEPT !.op = op, !.edit = x] = [f \in DOMAIN k |-> IF f = "op" THEN op ELSE IF f = "edit" THEN x ELSE k[f]]
      /\ [k EXCEPT !.op = op, !.seat = x] = [f \in DOMAIN k |-> IF f = "op" THEN op ELSE IF f = "seat" THEN x ELSE k[f]]
  OBVIOUS
<1>2. k = [op |-> "none", seat |-> NoSeat, edit |-> NoEdit]
  BY DEF NoService
<1> HIDE DEF k
<1> QED BY <1>1, <1>2 DEF k

\* At first there are no seats.
LEMMA PageInitOK == PageInit => PageInv
<1> SUFFICES ASSUME PageInit PROVE PageInv
  OBVIOUS
<1>1. serving \in [PageCalls -> Service] /\ \A r \in PageCalls, k \in Service : serving[r] = k => ServiceOK(k)
  BY NoServiceOK DEF PageInit
<1>2. SameSeat
  BY DEF PageInit, SameSeat, NoService, Seating
<1>3. SeatsInv
  BY DEF PageInit, SeatsInv, Ids, OneSeatPerPerson
<1>4. PeopleInv
  BY DEF PageInit, PeopleInv, OneRowPerOrganizer
<1>5. PublishedIsComplete
  BY DEF PageInit, PublishedIsComplete
<1>6. page \in [filled : BOOLEAN, published : BOOLEAN, public : BOOLEAN, started : BOOLEAN]
  BY DEF PageInit
<1>7. {flagged, blanked, unpublished, crossed} \subseteq BOOLEAN
  BY DEF PageInit
<1>8. edits \in 0..MaxEdits
  BY EditsAssumption DEF PageInit
<1> QED BY <1>1, <1>2, <1>3, <1>4, <1>5, <1>6, <1>7, <1>8 DEF PageInv

\* A request begins.
LEMMA ServiceStarts ==
    ASSUME PageInv, NEW r \in PageCalls, NEW k \in Service, serving' = [serving EXCEPT ![r] = k],
           usedIds \subseteq usedIds', usedIds' \subseteq SeatIds, edits' \in 0..MaxEdits,
           k.op \in Seating => /\ k.seat \in Seat /\ k.seat.id \in usedIds' /\ (page.published \/ unpublished)
                               /\ k.seat.id \notin usedIds \/ k.seat \in seats,
           k.op = "insert" => ~page.started,
           k.op = "edit" /\ k.edit.page5 => k.edit.fills = "all" \/ (k.edit.fills = "nothing" /\ page.filled),
           UNCHANGED <<page, organizers, owners, seats, flagged, blanked, unpublished, repeated, crossed>>
    PROVE  PageInv'
<1>1. ServedAs(r, k)
  BY ServingTaken DEF PageInv
<1>2. \A s \in seats : s.id \in usedIds
  BY DEF PageInv, SeatsInv, Ids
<1>3. \A q \in PageCalls, m \in Service : serving'[q] = m => ServiceOK(m)'
  <2> SUFFICES ASSUME NEW q \in PageCalls, NEW m \in Service, serving'[q] = m PROVE ServiceOK(m)'
    OBVIOUS
  <2>1. CASE q = r
    <3>1. m = k
      BY <1>1, <2>1 DEF ServedAs
    <3>2. k.op \in Seating => \A s \in seats : s.id = k.seat.id => s = k.seat
      BY <1>2 DEF PageInv, SeatsInv
    <3> QED BY <3>1, <3>2 DEF ServiceOK
  <2>2. CASE q # r
    <3>1. ServiceOK(m)
      BY <1>1, <2>2 DEF ServedAs, PageInv
    <3> QED BY <3>1 DEF ServiceOK
  <2> QED BY <2>1, <2>2
<1>4. SameSeat'
  <2>1. ASSUME NEW q \in PageCalls, serving[q].op \in Seating, k.op \in Seating, serving[q].seat.id = k.seat.id
        PROVE  serving[q].seat = k.seat
    <3>1. serving[q] \in Service /\ ServiceOK(serving[q])
      BY DEF PageInv
    <3> QED BY <2>1, <3>1 DEF ServiceOK
  <2> QED BY <1>1, <2>1 DEF SameSeat, PageInv, ServedAs
<1>5. SeatsInv' /\ PeopleInv' /\ PublishedIsComplete'
  BY DEF PageInv, SeatsInv, Ids, OneSeatPerPerson, PeopleInv, OneRowPerOrganizer, PublishedIsComplete
<1> QED BY <1>1, <1>3, <1>4, <1>5 DEF PageInv, ServedAs

\* An edit is written: what the fifth page publishes has its fields.
LEMMA WriteDraftOK ==
    ASSUME PageInv, NEW r \in PageCalls, WriteDraft(r) PROVE PageInv'
<1> DEFINE edit == serving[r].edit
           others == \E q \in PageCalls \ {r} : serving[q].op = "edit"
           publishes == edit.page5 \/ edit.flag = "yes"
<1>1. /\ serving[r].op = "edit" /\ serving' = [serving EXCEPT ![r] = NoService]
      /\ page' = [page EXCEPT
           !.filled = CASE edit.fills = "all" -> TRUE [] edit.fills = "blank" -> FALSE [] edit.fills = "nothing" -> page.filled,
           !.published = IF publishes THEN TRUE ELSE IF edit.flag = "no" THEN FALSE ELSE page.published,
           !.started = CASE edit.starts = "past" -> TRUE [] edit.starts = "future" -> FALSE
                         [] edit.starts = "absent" -> page.started]
      /\ AddOrganizers(edit.adds)
      /\ flagged' = (flagged \/ (edit.flag = "yes" /\ ~edit.page5))
      /\ blanked' = (blanked \/ (edit.fills = "blank" /\ (page'.published \/ others)))
      /\ unpublished' = (unpublished \/ (page.published /\ ~page'.published))
      /\ crossed' = (crossed \/ (page'.started /\ \E q \in PageCalls : serving[q].op \in {"insert", "update"}))
      /\ UNCHANGED <<seats, usedIds, edits>>
  BY DEF WriteDraft, ServedBy
<1>2. edit \in Edit /\ serving[r] \in Service /\ ServiceOK(serving[r])
  BY DEF PageInv, Service
<1>3. /\ edit.fills \in {"all", "nothing", "blank"} /\ edit.page5 \in BOOLEAN /\ edit.flag \in {"absent", "yes", "no"}
      /\ edit.starts \in {"absent", "past", "future"} /\ edit.adds \in [People -> Times]
  BY <1>2 DEF Edit
<1>4. edit.page5 => edit.fills = "all" \/ (edit.fills = "nothing" /\ (page.filled \/ blanked))
  BY <1>1, <1>2 DEF ServiceOK
<1>5. page \in [filled : BOOLEAN, published : BOOLEAN, public : BOOLEAN, started : BOOLEAN]
  BY DEF PageInv
<1> HIDE DEF edit, others
<1>6. /\ page'.filled = (CASE edit.fills = "all" -> TRUE [] edit.fills = "blank" -> FALSE [] edit.fills = "nothing" -> page.filled)
      /\ page'.published = (IF publishes THEN TRUE ELSE IF edit.flag = "no" THEN FALSE ELSE page.published)
      /\ page'.started = (CASE edit.starts = "past" -> TRUE [] edit.starts = "future" -> FALSE
                         [] edit.starts = "absent" -> page.started)
      /\ page'.public = page.public
  BY <1>1, <1>5
<1>9a. DOMAIN page' = DOMAIN page /\ page' = [x \in DOMAIN page |-> page'[x]]
  <2> DEFINE a == CASE edit.fills = "all" -> TRUE [] edit.fills = "blank" -> FALSE [] edit.fills = "nothing" -> page.filled
             b == IF publishes THEN TRUE ELSE IF edit.flag = "no" THEN FALSE ELSE page.published
             c == CASE edit.starts = "past" -> TRUE [] edit.starts = "future" -> FALSE [] edit.starts = "absent" -> page.started
  <2>1. page' = [page EXCEPT !.filled = a, !.published = b, !.started = c]
    BY <1>1
  <2> HIDE DEF a, b, c
  <2> QED BY <2>1
<1>7. /\ page'.filled \in BOOLEAN /\ page'.published \in BOOLEAN /\ page'.started \in BOOLEAN /\ page'.public \in BOOLEAN
      /\ edit.fills = "all" => page'.filled
      /\ edit.fills = "nothing" => page'.filled = page.filled
      /\ page'.published => page.published \/ publishes
      /\ page.published => page'.published \/ edit.flag = "no"
  BY <1>3, <1>5, <1>6
<1>8. page' \in [filled : BOOLEAN, published : BOOLEAN, public : BOOLEAN, started : BOOLEAN]
  <2>1. DOMAIN page = {"filled", "published", "public", "started"}
    BY <1>5
  <2>2. page' = [filled |-> page'.filled, published |-> page'.published, public |-> page'.public, started |-> page'.started]
    BY <1>9a, <2>1
  <2> QED BY <1>7, <2>2
<1>9. {flagged, blanked, unpublished, crossed}' \subseteq BOOLEAN
  BY <1>1 DEF PageInv
<1>10. ServedAs(r, NoService)
  BY <1>1, NoServiceOK, ServingTaken DEF PageInv
<1>11. \A q \in PageCalls, k \in Service : serving'[q] = k => ServiceOK(k)'
  <2> SUFFICES ASSUME NEW q \in PageCalls, NEW k \in Service, serving'[q] = k PROVE ServiceOK(k)'
    OBVIOUS
  <2>1. ServiceOK(k) /\ (k.op # "none" => q # r /\ serving[q] = k)
    BY <1>10, NoServiceOK DEF PageInv, ServedAs
  <2>2. k.op \in Seating =>
        /\ k.seat \in Seat /\ k.seat.id \in usedIds' /\ (page'.published \/ unpublished')
        /\ \A s \in seats' : s.id = k.seat.id => s = k.seat
    BY <1>1, <2>1 DEF ServiceOK
  <2>3. k.op = "insert" => ~page'.started \/ crossed'
    BY <1>1, <2>1
  <2>4. k.op = "edit" /\ k.edit.page5 =>
            k.edit.fills = "all" \/ (k.edit.fills = "nothing" /\ (page'.filled \/ blanked'))
    <3>1. k.op = "edit" => others
      BY <2>1 DEF others
    <3>2. k.op = "edit" /\ edit.fills = "blank" => blanked'
      BY <1>1, <3>1
    <3> QED BY <1>1, <1>3, <1>7, <2>1, <3>2 DEF ServiceOK
  <2> QED BY <2>2, <2>3, <2>4 DEF ServiceOK
<1>12. SameSeat'
  BY <1>10, NoServiceOK DEF SameSeat, PageInv, ServedAs, Seating
<1>13. SeatsInv'
  BY <1>1 DEF PageInv, SeatsInv, Ids, OneSeatPerPerson
<1>14. PeopleInv'
  <2> DEFINE new == {p \in People : edit.adds[p] > 0} \ DOMAIN organizers
  <2>1. PICK asOwner \in SUBSET new :
          /\ organizers' = [p \in DOMAIN organizers \cup new |-> IF p \in new THEN edit.adds[p] ELSE organizers[p]]
          /\ owners' = owners \cup asOwner
          /\ repeated' = repeated \cup {p \in People : edit.adds[p] > 1}
    BY <1>1 DEF AddOrganizers
  <2>2. new \subseteq People /\ \A p \in new : edit.adds[p] <= 1 \/ p \in repeated'
    BY <1>3, <2>1 DEF Times
  <2> HIDE DEF new
  <2> QED BY <2>1, <2>2 DEF PageInv, PeopleInv, OneRowPerOrganizer
<1>15. PublishedIsComplete'
  <2> SUFFICES ASSUME page'.published, ~flagged', ~blanked' PROVE page'.filled
    BY DEF PublishedIsComplete
  <2>1. ~flagged /\ ~blanked /\ edit.fills # "blank" /\ (edit.flag = "yes" => edit.page5)
    BY <1>1, <1>3, <1>5
  <2>2. CASE edit.page5
    BY <1>4, <1>7, <2>1, <2>2
  <2>3. CASE ~edit.page5
    <3>1. page.published
      BY <1>7, <2>1, <2>3
    <3>2. page.filled
      BY <2>1, <3>1 DEF PageInv, PublishedIsComplete
    <3> QED BY <1>3, <1>7, <2>1, <3>2
  <2> QED BY <2>2, <2>3
<1> QED BY <1>1, <1>8, <1>9, <1>10, <1>11, <1>12, <1>13, <1>14, <1>15 DEF PageInv, ServedAs

\* A seat is inserted, or saved again: nobody has two.
LEMMA SeatTaken ==
    ASSUME PageInv, NEW r \in PageCalls, serving[r].op \in Seating, serving' = [serving EXCEPT ![r] = NoService],
           \/ seats' = seats
           \/ /\ seats' = seats \cup {serving[r].seat}
              /\ serving[r].seat.id \in Ids \/ Unique(serving[r].seat),
           UNCHANGED <<page, organizers, owners, usedIds, flagged, blanked, unpublished, repeated, crossed, edits>>
    PROVE  PageInv'
<1>1. PICK t \in Service : t = serving[r] /\ ServiceOK(t)
  BY DEF PageInv
<1> DEFINE seat == t.seat
<1>2. /\ seat \in Seat /\ seat.id \in usedIds /\ (page.published \/ unpublished)
      /\ \A s \in seats : s.id = seat.id => s = seat
  BY <1>1 DEF ServiceOK
<1>3. seats' = seats \/ (seats' = seats \cup {seat} /\ Unique(seat))
  <2>1. seat.id \in Ids => seat \in seats
    BY <1>2 DEF Ids
  <2> QED BY <1>1, <2>1
<1>4. ServedAs(r, NoService)
  BY NoServiceOK, ServingTaken DEF PageInv
<1>5. \A q \in PageCalls : serving[q].op \in Seating /\ serving[q].seat.id = seat.id => serving[q].seat = seat
  BY <1>1 DEF PageInv, SameSeat
<1> HIDE DEF seat
<1>6. seats' \subseteq Seat /\ \A s \in seats' : s \in seats \/ s = seat
  BY <1>2, <1>3 DEF PageInv, SeatsInv
<1>7. \A q \in PageCalls, k \in Service : serving'[q] = k => ServiceOK(k)'
  <2> SUFFICES ASSUME NEW q \in PageCalls, NEW k \in Service, serving'[q] = k PROVE ServiceOK(k)'
    OBVIOUS
  <2>1. ServiceOK(k) /\ (k.op # "none" => q # r /\ serving[q] = k)
    BY <1>4, NoServiceOK DEF PageInv, ServedAs
  <2>2. k.op \in Seating /\ k.seat.id = seat.id => k.seat = seat
    BY <1>5, <2>1 DEF Seating
  <2> QED BY <1>6, <2>1, <2>2 DEF ServiceOK
<1>8. SameSeat'
  BY <1>4, NoServiceOK DEF SameSeat, PageInv, ServedAs, Seating
<1>9. Ids' \subseteq usedIds'
  BY <1>2, <1>6 DEF Ids, PageInv, SeatsInv
<1>10. \A s, u \in seats' : s.id = u.id => s = u
  BY <1>2, <1>6 DEF PageInv, SeatsInv
<1>11. OneSeatPerPerson'
  BY <1>3 DEF OneSeatPerPerson, Unique, PageInv, SeatsInv
<1>12. SeatsInv'
  BY <1>2, <1>6, <1>9, <1>10, <1>11 DEF PageInv, SeatsInv
<1>13. PeopleInv' /\ PublishedIsComplete'
  BY DEF PageInv, PeopleInv, OneRowPerOrganizer, PublishedIsComplete
<1> QED BY <1>4, <1>7, <1>8, <1>12, <1>13 DEF PageInv, ServedAs

\* Edits, seats and the start of the event, in any order.
LEMMA PageStep == PageInv /\ PageNext => PageInv' /\ ClosedAtStart
<1> SUFFICES ASSUME PageInv, PageNext PROVE PageInv' /\ ClosedAtStart
  OBVIOUS
<1>0. seats' \subseteq seats => ClosedAtStart
  BY DEF ClosedAtStart
<1>1. ASSUME NEW r \in PageCalls, updateEventDraft(r) PROVE PageInv' /\ ClosedAtStart
  <2>1. PICK edit \in Edits : assertDraftIsComplete(edit) /\ Start(r, [NoService EXCEPT !.op = "edit", !.edit = edit])
    BY <1>1 DEF updateEventDraft
  <2> DEFINE k == [op |-> "edit", seat |-> NoSeat, edit |-> edit]
  <2>2. /\ serving' = [serving EXCEPT ![r] = k]
        /\ UNCHANGED <<page, organizers, owners, seats, flagged, blanked, unpublished, repeated, crossed>>
    <3>1. [NoService EXCEPT !.op = "edit", !.edit = edit] = k
      BY ServiceIs
    <3> QED BY <2>1, <3>1 DEF Start
  <2>3. edit \in Edit
    <3>1. NobodyAdded \in [People -> Times]
      BY DEF NobodyAdded, Times
    <3>2. CASE \E a \in [People -> Times] : edit = [NoEdit EXCEPT !.adds = a]
      <4>1. PICK a \in [People -> Times] : edit = [NoEdit EXCEPT !.adds = a]
        BY <3>2
      <4> QED BY <4>1 DEF Edit, NoEdit
    <3>3. CASE ~\E a \in [People -> Times] : edit = [NoEdit EXCEPT !.adds = a]
      BY <3>1, <3>3 DEF Edits, Edit, NoEdit
    <3> QED BY <3>2, <3>3
  <2>4. k \in Service /\ ~(k.op \in Seating) /\ k.op # "insert" /\ k.edit = edit
    BY <2>3 DEF Service, Seating
  <2>5. edit.page5 => edit.fills = "all" \/ (edit.fills = "nothing" /\ page.filled)
    <3>1. edit.fills \in {"all", "nothing", "blank"}
      BY <2>3 DEF Edit
    <3> QED BY <2>1, <3>1 DEF assertDraftIsComplete
  <2>6. edits' \in 0..MaxEdits /\ usedIds' = usedIds /\ usedIds \subseteq SeatIds
    BY <1>1, EditsAssumption DEF updateEventDraft, PageInv, SeatsInv
  <2> HIDE DEF k
  <2>7. PageInv'
    BY <2>2, <2>4, <2>5, <2>6, ServiceStarts
  <2> QED BY <1>0, <2>2, <2>7
<1>2. ASSUME NEW r \in PageCalls, WriteDraft(r) PROVE PageInv' /\ ClosedAtStart
  BY <1>0, <1>2, WriteDraftOK DEF WriteDraft
<1>3. ASSUME NEW r \in PageCalls, InsertSeat(r) PROVE PageInv' /\ ClosedAtStart
  <2>1. PageInv'
    BY <1>3, SeatTaken DEF InsertSeat, ServedBy, Seating
  <2>2. ServiceOK(serving[r]) /\ serving[r].op = "insert"
    BY <1>3 DEF InsertSeat, ServedBy, PageInv
  <2>3. ClosedAtStart
    BY <2>2 DEF ServiceOK, ClosedAtStart
  <2> QED BY <2>1, <2>3
<1>4. ASSUME NEW r \in PageCalls, SaveSeat(r) PROVE PageInv' /\ ClosedAtStart
  <2>1. PageInv'
    BY <1>4, SeatTaken DEF SaveSeat, ServedBy, Seating
  <2>2. serving[r].op = "update"
    BY <1>4 DEF SaveSeat, ServedBy
  <2>3. ClosedAtStart
    BY <2>2 DEF ClosedAtStart
  <2> QED BY <2>1, <2>3
<1>5. ASSUME NEW r \in PageCalls, NEW p \in People, NEW kind \in SeatKind, page.published, ~page.started,
             NewSeat(r, p, kind)
      PROVE  PageInv' /\ ClosedAtStart
  <2>1. PICK i \in SeatIds \ usedIds :
            /\ usedIds' = usedIds \cup {i} /\ UNCHANGED edits
            /\ Start(r, [NoService EXCEPT !.op = "insert", !.seat = [id |-> i, owner |-> p, kind |-> kind]])
    BY <1>5 DEF NewSeat
  <2> DEFINE seat == [id |-> i, owner |-> p, kind |-> kind]
             k == [op |-> "insert", seat |-> seat, edit |-> NoEdit]
  <2>2. /\ serving' = [serving EXCEPT ![r] = k]
        /\ UNCHANGED <<page, organizers, owners, seats, flagged, blanked, unpublished, repeated, crossed>>
    <3>1. [NoService EXCEPT !.op = "insert", !.seat = seat] = k
      BY ServiceIs
    <3> QED BY <2>1, <3>1 DEF Start
  <2>3. seat \in Seat /\ seat.id = i
    BY <2>1 DEF Seat
  <2>4. NoEdit \in Edit
    BY DEF NoEdit, NobodyAdded, Times, Edit
  <2>5. k \in Service /\ k.op = "insert" /\ k.seat = seat
    BY <2>3, <2>4 DEF Service
  <2>6. edits' \in 0..MaxEdits /\ usedIds \subseteq usedIds' /\ usedIds' \subseteq SeatIds /\ i \in usedIds' /\ i \notin usedIds
    BY <2>1 DEF PageInv, SeatsInv
  <2> HIDE DEF k, seat
  <2>7. PageInv'
    BY <1>5, <2>2, <2>3, <2>5, <2>6, ServiceStarts
  <2> QED BY <1>0, <2>2, <2>7
<1>6. ASSUME NEW r \in PageCalls, NEW p \in People, rsvpAsUser(r, p) \/ rsvpAsGuest(r, p) PROVE PageInv' /\ ClosedAtStart
  BY <1>5, <1>6 DEF rsvpAsUser, rsvpAsGuest, getPublishedEvent, assertEventAcceptsRsvp, SeatKind
<1>7. ASSUME NEW r \in PageCalls, NEW s \in seats, updateRsvp(r, s) PROVE PageInv' /\ ClosedAtStart
  <2> DEFINE k == [op |-> "update", seat |-> s, edit |-> NoEdit]
  <2>1. /\ serving' = [serving EXCEPT ![r] = k]
        /\ UNCHANGED <<page, organizers, owners, seats, flagged, blanked, unpublished, repeated, crossed>>
        /\ UNCHANGED <<usedIds, edits>>
    <3>1. [NoService EXCEPT !.op = "update", !.seat = s] = k
      BY ServiceIs
    <3> QED BY <1>7, <3>1 DEF updateRsvp, Start
  <2>2. NoEdit \in Edit
    BY DEF NoEdit, NobodyAdded, Times, Edit
  <2>3. s \in Seat /\ s.id \in usedIds /\ (page.published \/ unpublished) /\ usedIds \subseteq SeatIds
    BY DEF PageInv, SeatsInv, Ids
  <2>4. k \in Service /\ k.op = "update" /\ k.seat = s
    BY <2>2, <2>3 DEF Service
  <2> HIDE DEF k
  <2>5. edits' \in 0..MaxEdits
    BY <2>1 DEF PageInv
  <2>6. PageInv'
    BY <2>1, <2>3, <2>4, <2>5, ServiceStarts
  <2> QED BY <1>0, <2>1, <2>6
<1>8. ASSUME NEW s \in seats, cancelRsvp(s) PROVE PageInv' /\ ClosedAtStart
  <2>1. /\ seats' \subseteq seats
        /\ UNCHANGED <<page, organizers, owners, serving, usedIds, flagged, blanked, unpublished, repeated, crossed, edits>>
    BY <1>8 DEF cancelRsvp
  <2>2. \A q \in PageCalls, k \in Service : serving'[q] = k => ServiceOK(k)'
    <3> SUFFICES ASSUME NEW q \in PageCalls, NEW k \in Service, serving'[q] = k PROVE ServiceOK(k)'
      OBVIOUS
    <3>1. ServiceOK(k)
      BY <2>1 DEF PageInv
    <3> QED BY <2>1, <3>1 DEF ServiceOK
  <2>3. SeatsInv'
    BY <2>1 DEF PageInv, SeatsInv, Ids, OneSeatPerPerson
  <2>4. SameSeat' /\ PeopleInv' /\ PublishedIsComplete'
    BY <2>1 DEF PageInv, SameSeat, PeopleInv, OneRowPerOrganizer, PublishedIsComplete
  <2> QED BY <1>0, <2>1, <2>2, <2>3, <2>4 DEF PageInv
<1>9. ASSUME EventStarts PROVE PageInv' /\ ClosedAtStart
  <2>1. /\ page' = [page EXCEPT !.started = TRUE]
        /\ crossed' = (crossed \/ \E r \in PageCalls : serving[r].op \in {"insert", "update"})
        /\ UNCHANGED <<organizers, owners, seats, serving, usedIds, flagged, blanked, unpublished, repeated, edits>>
    BY <1>9 DEF EventStarts
  <2>2. /\ page' \in [filled : BOOLEAN, published : BOOLEAN, public : BOOLEAN, started : BOOLEAN]
        /\ page'.published = page.published /\ page'.filled = page.filled
    BY <2>1 DEF PageInv
  <2>3. {flagged, blanked, unpublished, crossed}' \subseteq BOOLEAN
    BY <2>1 DEF PageInv
  <2>4. \A q \in PageCalls, k \in Service : serving'[q] = k => ServiceOK(k)'
    <3> SUFFICES ASSUME NEW q \in PageCalls, NEW k \in Service, serving'[q] = k PROVE ServiceOK(k)'
      OBVIOUS
    <3>1. ServiceOK(k) /\ serving[q] = k
      BY <2>1 DEF PageInv
    <3> QED BY <2>1, <2>2, <3>1 DEF ServiceOK
  <2>5. SeatsInv' /\ SameSeat' /\ PeopleInv' /\ PublishedIsComplete'
    BY <2>1, <2>2 DEF PageInv, SeatsInv, Ids, OneSeatPerPerson, SameSeat, PeopleInv, OneRowPerOrganizer, PublishedIsComplete
  <2> QED BY <1>0, <2>1, <2>2, <2>3, <2>4, <2>5 DEF PageInv
<1> QED BY <1>1, <1>2, <1>3, <1>4, <1>6, <1>7, <1>8, <1>9 DEF PageNext

\* The invariant speaks of the event's page alone.
LEMMA PageStays == PageInv /\ UNCHANGED pageVars => PageInv' /\ ClosedAtStart
<1> SUFFICES ASSUME PageInv, UNCHANGED pageVars PROVE PageInv' /\ ClosedAtStart
  OBVIOUS
<1>1. \A q \in PageCalls, k \in Service : serving'[q] = k => ServiceOK(k)'
  <2> SUFFICES ASSUME NEW q \in PageCalls, NEW k \in Service, serving'[q] = k PROVE ServiceOK(k)'
    OBVIOUS
  <2>1. ServiceOK(k)
    BY DEF pageVars, PageInv
  <2> QED BY <2>1 DEF pageVars, ServiceOK
<1>2. SeatsInv' /\ SameSeat' /\ PeopleInv' /\ PublishedIsComplete' /\ ClosedAtStart
  BY DEF pageVars, PageInv, SeatsInv, Ids, OneSeatPerPerson, SameSeat, PeopleInv, OneRowPerOrganizer,
         PublishedIsComplete, ClosedAtStart
<1> QED BY <1>1, <1>2 DEF pageVars, PageInv

\* What the run checks of the event's page follows.
LEMMA PageHolds ==
    PageInv => PageTypeOK /\ OneSeatPerPerson /\ OneRowPerOrganizer /\ PublishedIsComplete /\ SeatIsListed
<1> SUFFICES ASSUME PageInv PROVE PageTypeOK /\ SeatIsListed
  BY DEF PageInv, SeatsInv, PeopleInv
<1>1. SeatIsListed
  BY DEF PageInv, SeatsInv, SeatIsListed, getMyRsvpEvents
<1>2. PageTypeOK
  BY DEF PageInv, SeatsInv, PeopleInv, PageTypeOK, Service
<1> QED BY <1>1, <1>2

-----------------------------------------------------------------------------
(* Contributions to an event *)

\* A reference is one contribution's, and a card's is behind a payment.
GiftsInv ==
    /\ gifts \subseteq Gift /\ IsFiniteSet(gifts) /\ charges \subseteq Gift /\ referencesUsed \subseteq References
    /\ \A g \in gifts \cup charges : g.ref \in referencesUsed
    /\ \A g, c \in gifts \cup charges : g.ref = c.ref => g = c
    /\ \A c \in charges : c.by = "card"
    /\ \A g \in gifts : g.by = "card" => g \in charges

\* A contribution in the making keeps to its reference; one from the wallet is not booked yet,
\* nor in the making elsewhere.
MakingOK(r, g) ==
    /\ g.ref \in referencesUsed /\ \A c \in gifts \cup charges : c.ref = g.ref => c = g
    /\ g.by = "card" => g \in charges
    /\ g.by = "wallet" =>
        /\ g \notin gifts
        /\ \A q \in GiveCalls, h \in Gift : h \in giving[q] /\ h.ref = g.ref => q = r
        /\ ~overlapped => available[g.giver] >= g.amount

GivingInv ==
    /\ giving \in [GiveCalls -> SUBSET Gift]
    /\ \A r \in GiveCalls, g, h \in Gift : g \in giving[r] /\ h \in giving[r] => g = h
    /\ \A r \in GiveCalls, g \in Gift : g \in giving[r] => MakingOK(r, g)

BalancesInv ==
    /\ available \in [Givers -> Nat] /\ eventEscrow \in Nat /\ notFound \in Nat /\ overlapped \in BOOLEAN
    /\ raised \in Nat /\ (~overlapped => notFound = 0)

ByWallet(booked) == {g \in booked : g.by = "wallet"}
PaidBy(booked, giver) == {g \in booked : g.by = "wallet" /\ g.giver = giver}
CreditedTo(booked, person) == {g \in booked : g.credited = person}

SumsInv ==
    /\ raised = SumOfGifts(gifts)
    /\ raised = Sum([p \in Givers |-> SumOfGifts(CreditedTo(gifts, p))])
    /\ SumOfGifts(ByWallet(gifts)) = eventEscrow + notFound
    /\ \A giver \in Givers : available[giver] + SumOfGifts(PaidBy(gifts, giver)) <= Funds + notFound

MoneyInv == GiftsInv /\ GivingInv /\ BalancesInv /\ SumsInv

\* Contributions have positive amounts.
LEMMA GiftFields ==
    ASSUME NEW g \in Gift
    PROVE  /\ g.ref \in References /\ g.by \in {"wallet", "card"} /\ g.giver \in Givers /\ g.credited \in Givers
           /\ g.amount \in Nat /\ g.amount > 0
<1>1. /\ g.ref \in References /\ g.by \in {"wallet", "card"} /\ g.giver \in Givers /\ g.credited \in Givers
      /\ g.amount \in GiftAmounts
  BY DEF Gift
<1>2. g.amount \in Nat \ {0}
  BY <1>1, FundsAssumption
<1> QED BY <1>1, <1>2

\* What contributions add up to is a number.
LEMMA SumOfGiftsType ==
    ASSUME NEW T, IsFiniteSet(T), T \subseteq Gift PROVE SumOfGifts(T) \in Nat
<1>1. [g \in T |-> g.amount] \in [T -> Nat]
  BY GiftFields
<1> QED BY <1>1, SumNat DEF SumOfGifts, Sum, SumOf

\* No contributions add up to nothing.
LEMMA NoGifts == SumOfGifts({}) = 0
<1>1. [g \in {} |-> g.amount] = [g \in {} |-> 0]
  OBVIOUS
<1>2. SumOf([g \in {} |-> 0]) = 0
  BY FS_EmptySet, SumZero
<1> QED BY <1>1, <1>2 DEF SumOfGifts, Sum, SumOf

\* One more contribution adds its amount.
LEMMA GiftAdded ==
    ASSUME NEW T, IsFiniteSet(T), T \subseteq Gift, NEW x \in Gift, x \notin T
    PROVE  SumOfGifts(T \cup {x}) = SumOfGifts(T) + x.amount
<1> DEFINE d == [g \in T |-> g.amount]
           h == [g \in T \cup {x} |-> g.amount]
<1>1. OneMore(d, h, T, x)
  BY GiftFields DEF OneMore
<1>2. SumOf(h) = SumOf(d) + h[x]
  BY <1>1, SumInsert
<1> QED BY <1>2 DEF SumOfGifts, Sum, SumOf

\* A booked contribution counts in the totals it belongs to.
LEMMA BookAdds ==
    ASSUME GiftsInv, NEW x \in Gift, x \notin gifts, gifts' = gifts \cup {x}
    PROVE  /\ SumOfGifts(gifts') = SumOfGifts(gifts) + x.amount
           /\ SumOfGifts(ByWallet(gifts')) = SumOfGifts(ByWallet(gifts)) + (IF x.by = "wallet" THEN x.amount ELSE 0)
           /\ \A p \in Givers :
                /\ SumOfGifts(PaidBy(gifts', p)) =
                     SumOfGifts(PaidBy(gifts, p)) + (IF x.by = "wallet" /\ x.giver = p THEN x.amount ELSE 0)
                /\ SumOfGifts(CreditedTo(gifts', p)) =
                     SumOfGifts(CreditedTo(gifts, p)) + (IF x.credited = p THEN x.amount ELSE 0)
                /\ SumOfGifts(PaidBy(gifts, p)) \in Nat /\ SumOfGifts(CreditedTo(gifts, p)) \in Nat
<1>1. gifts \subseteq Gift /\ IsFiniteSet(gifts) /\ x.amount \in Nat
  BY GiftFields DEF GiftsInv
<1>2. ASSUME NEW T, NEW U, T \subseteq gifts, NEW b \in BOOLEAN, U = IF b THEN T \cup {x} ELSE T
      PROVE  SumOfGifts(U) = SumOfGifts(T) + (IF b THEN x.amount ELSE 0) /\ SumOfGifts(T) \in Nat
  <2>1. IsFiniteSet(T) /\ T \subseteq Gift /\ x \notin T
    BY <1>1, <1>2, FS_Subset
  <2>2. SumOfGifts(T) \in Nat
    BY <2>1, SumOfGiftsType
  <2>3. SumOfGifts(T \cup {x}) = SumOfGifts(T) + x.amount
    BY <2>1, GiftAdded
  <2> QED BY <1>1, <1>2, <2>2, <2>3
<1>3. SumOfGifts(gifts') = SumOfGifts(gifts) + x.amount
  BY <1>1, GiftAdded
<1>4. SumOfGifts(ByWallet(gifts')) = SumOfGifts(ByWallet(gifts)) + (IF x.by = "wallet" THEN x.amount ELSE 0)
  <2>1. /\ ByWallet(gifts) \subseteq gifts
        /\ ByWallet(gifts') = IF x.by = "wallet" THEN ByWallet(gifts) \cup {x} ELSE ByWallet(gifts)
    BY DEF ByWallet
  <2> QED BY <1>2, <2>1
<1>5. ASSUME NEW p \in Givers
      PROVE  /\ SumOfGifts(PaidBy(gifts', p)) =
                  SumOfGifts(PaidBy(gifts, p)) + (IF x.by = "wallet" /\ x.giver = p THEN x.amount ELSE 0)
             /\ SumOfGifts(PaidBy(gifts, p)) \in Nat
  <2>1. /\ PaidBy(gifts, p) \subseteq gifts
        /\ PaidBy(gifts', p) = IF x.by = "wallet" /\ x.giver = p THEN PaidBy(gifts, p) \cup {x} ELSE PaidBy(gifts, p)
    BY DEF PaidBy
  <2> QED BY <1>2, <2>1
<1>6. ASSUME NEW p \in Givers
      PROVE  /\ SumOfGifts(CreditedTo(gifts', p)) =
                  SumOfGifts(CreditedTo(gifts, p)) + (IF x.credited = p THEN x.amount ELSE 0)
             /\ SumOfGifts(CreditedTo(gifts, p)) \in Nat
  <2>1. /\ CreditedTo(gifts, p) \subseteq gifts
        /\ CreditedTo(gifts', p) = IF x.credited = p THEN CreditedTo(gifts, p) \cup {x} ELSE CreditedTo(gifts, p)
    BY DEF CreditedTo
  <2> QED BY <1>2, <2>1
<1> QED BY <1>3, <1>4, <1>5, <1>6

\* The leaderboard gains what the total gains.
LEMMA LeaderboardAdds ==
    ASSUME GiftsInv, NEW x \in Gift, x \notin gifts, gifts' = gifts \cup {x}
    PROVE  Sum([p \in Givers |-> SumOfGifts(CreditedTo(gifts', p))]) =
           Sum([p \in Givers |-> SumOfGifts(CreditedTo(gifts, p))]) + x.amount
<1> DEFINE f == [p \in Givers |-> SumOfGifts(CreditedTo(gifts, p))]
           h == [p \in Givers |-> SumOfGifts(CreditedTo(gifts', p))]
           y == x.credited
<1>1. y \in Givers /\ x.amount \in Nat
  BY GiftFields
<1>2. /\ \A p \in Givers : f[p] \in Nat /\ h[p] = f[p] + (IF y = p THEN x.amount ELSE 0)
      /\ f = [p \in Givers |-> f[p]] /\ h = [p \in Givers |-> h[p]]
  BY BookAdds
<1> HIDE DEF f, h, y
<1>3. f \in [Givers -> Int] /\ h \in [Givers -> Int]
  <2>1. \A p \in Givers : f[p] \in Int /\ h[p] \in Int
    BY <1>1, <1>2
  <2> QED BY <1>2, <2>1
<1>4. SameBut(f, h, Givers, y) /\ h[y] = f[y] + x.amount /\ f[y] \in Nat
  BY <1>1, <1>2 DEF SameBut
<1>5. SumOf(h) = SumOf(f) - f[y] + h[y]
  BY <1>1, <1>3, <1>4, GiversAssumption, SumUpdate
<1>6. SumOf(f) \in Int
  BY <1>3, GiversAssumption, SumType
<1>7. SumOf(h) = SumOf(f) + x.amount
  BY <1>1, <1>4, <1>5, <1>6
<1> QED BY <1>7 DEF Sum, SumOf, f, h

\* At first nobody gave.
LEMMA MoneyInitOK == MoneyInit => MoneyInv
<1> SUFFICES ASSUME MoneyInit PROVE MoneyInv
  OBVIOUS
<1>1. GiftsInv
  BY FS_EmptySet DEF MoneyInit, GiftsInv
<1>2. GivingInv
  BY DEF MoneyInit, GivingInv, NoGiving
<1>3. BalancesInv
  BY FundsAssumption DEF MoneyInit, BalancesInv
<1>4. /\ ByWallet(gifts) = {} /\ gifts = {} /\ \A p : PaidBy(gifts, p) = {} /\ CreditedTo(gifts, p) = {}
  BY DEF MoneyInit, ByWallet, PaidBy, CreditedTo
<1>5. Sum([p \in Givers |-> SumOfGifts(CreditedTo(gifts, p))]) = 0
  <2>1. [p \in Givers |-> SumOfGifts(CreditedTo(gifts, p))] = [p \in Givers |-> 0]
    BY <1>4, NoGifts
  <2> QED BY <2>1, GiversAssumption, SumZero DEF Sum, SumOf
<1>6. SumsInv
  <2>1. raised = 0 /\ eventEscrow = 0 /\ notFound = 0 /\ available = [g \in Givers |-> Funds] /\ Funds \in Nat
    BY FundsAssumption DEF MoneyInit
  <2>2. SumOfGifts(gifts) = 0 /\ SumOfGifts(ByWallet(gifts)) = 0
    BY <1>4, NoGifts
  <2>3. \A giver \in Givers : SumOfGifts(PaidBy(gifts, giver)) = 0
    BY <1>4, NoGifts
  <2> QED BY <1>5, <2>1, <2>2, <2>3 DEF SumsInv
<1> QED BY <1>1, <1>2, <1>3, <1>6 DEF MoneyInv

\* Request r now makes the contributions in G.
LEMMA Makes ==
    ASSUME giving \in [GiveCalls -> SUBSET Gift], NEW r \in GiveCalls, NEW G \in SUBSET Gift,
           giving' = [giving EXCEPT ![r] = G]
    PROVE  giving' \in [GiveCalls -> SUBSET Gift] /\ \A q \in GiveCalls : giving'[q] = IF q = r THEN G ELSE giving[q]
OBVIOUS

\* A contribution is begun.
LEMMA GiftBegins ==
    ASSUME MoneyInv, NEW r \in GiveCalls, NEW gift \in Gift, contribute(r, gift)
    PROVE  MoneyInv'
<1>1. /\ giving[r] = NoGiving /\ gift.ref \notin referencesUsed /\ referencesUsed' = referencesUsed \cup {gift.ref}
      /\ UNCHANGED <<raised, gifts, available, eventEscrow, notFound, overlapped>>
      /\ \/ gift.by = "card" /\ charges' = charges \cup {gift} /\ UNCHANGED giving
         \/ /\ gift.by = "wallet" /\ available[gift.giver] >= gift.amount
            /\ giving' = [giving EXCEPT ![r] = {gift}] /\ UNCHANGED charges
  BY GiftFields DEF contribute, NewReference
<1>2. GiftsInv'
  <2>1. gift.ref \in References
    BY GiftFields
  <2>2. charges' \subseteq charges \cup {gift} /\ charges \subseteq charges' /\ (gift \in charges' => gift \in charges \/ gift.by = "card")
    BY <1>1
  <2> QED BY <1>1, <2>1, <2>2 DEF MoneyInv, GiftsInv
<1>3. BalancesInv' /\ SumsInv'
  BY <1>1 DEF MoneyInv, BalancesInv, SumsInv
<1>4. GivingInv'
  <2>1. giving' \in [GiveCalls -> SUBSET Gift] /\ \A q \in GiveCalls : giving'[q] = giving[q] \/ (q = r /\ giving'[q] = {gift} /\ gift.by = "wallet")
    <3>1. CASE UNCHANGED giving
      BY <3>1 DEF MoneyInv, GivingInv
    <3>2. CASE gift.by = "wallet" /\ giving' = [giving EXCEPT ![r] = {gift}]
      BY <3>2, Makes DEF MoneyInv, GivingInv
    <3> QED BY <1>1, <3>1, <3>2
  <2>2. ASSUME NEW q \in GiveCalls, NEW g \in Gift, g \in giving'[q], g # gift PROVE MakingOK(q, g)'
    <3>1. g \in giving[q] /\ MakingOK(q, g)
      BY <2>1, <2>2 DEF MoneyInv, GivingInv
    <3>2. g.ref # gift.ref
      BY <1>1, <3>1 DEF MakingOK
    <3>3. \A p \in GiveCalls, h \in Gift : h \in giving'[p] /\ h.ref = g.ref => h \in giving[p]
      BY <2>1, <3>2
    <3> QED BY <1>1, <3>1, <3>2, <3>3 DEF MakingOK
  <2>3. \A q \in GiveCalls : gift \notin giving[q]
    BY <1>1 DEF MoneyInv, GivingInv, MakingOK
  <2>4. ASSUME NEW q \in GiveCalls, gift \in giving'[q] PROVE MakingOK(q, gift)'
    <3>1. q = r /\ gift.by = "wallet" /\ UNCHANGED charges /\ available[gift.giver] >= gift.amount
      BY <1>1, <2>1, <2>3, <2>4
    <3>2. \A c \in gifts \cup charges : c.ref # gift.ref
      BY <1>1 DEF MoneyInv, GiftsInv
    <3>3. \A p \in GiveCalls, h \in Gift : h \in giving[p] => h.ref # gift.ref
      BY <1>1 DEF MoneyInv, GivingInv, MakingOK
    <3>4. \A p \in GiveCalls, h \in Gift : h \in giving'[p] /\ h.ref = gift.ref => p = r
      BY <2>1, <3>3
    <3> QED BY <1>1, <3>1, <3>2, <3>4 DEF MakingOK
  <2>5. \A q \in GiveCalls, g, h \in Gift : g \in giving'[q] /\ h \in giving'[q] => g = h
    BY <2>1 DEF MoneyInv, GivingInv
  <2>6. \A q \in GiveCalls, g \in Gift : g \in giving'[q] => MakingOK(q, g)'
    BY <2>2, <2>4
  <2> QED BY <2>1, <2>5, <2>6 DEF GivingInv
<1> QED BY <1>2, <1>3, <1>4 DEF MoneyInv

\* A contribution is booked, and no more in the making.
LEMMA GiftBooked ==
    ASSUME MoneyInv, NEW r \in GiveCalls, NEW gift \in Gift, gift \in giving[r], gift \notin gifts,
           giving' = [giving EXCEPT ![r] = NoGiving], Book(gift), UNCHANGED <<charges, referencesUsed>>,
           ~overlapped' => ~overlapped, available' \in [Givers -> Nat],
           \A q \in GiveCalls \ {r}, g \in Gift : g \in giving[q] /\ g.by = "wallet" /\ ~overlapped' =>
               available'[g.giver] >= available[g.giver]
    PROVE  GiftsInv' /\ GivingInv'
<1>0. gifts' = gifts \cup {gift} /\ MakingOK(r, gift)
  BY DEF Book, MoneyInv, GivingInv
<1>1. GiftsInv'
  <2>1. IsFiniteSet(gifts')
    BY <1>0, FS_AddElement DEF MoneyInv, GiftsInv
  <2> QED BY <1>0, <2>1 DEF MoneyInv, GiftsInv, MakingOK
<1>2. giving' \in [GiveCalls -> SUBSET Gift] /\ \A q \in GiveCalls : giving'[q] = IF q = r THEN {} ELSE giving[q]
  BY Makes DEF MoneyInv, GivingInv, NoGiving
<1>3. ASSUME NEW q \in GiveCalls, NEW g \in Gift, g \in giving'[q] PROVE MakingOK(q, g)'
  <2>1. q # r /\ g \in giving[q] /\ MakingOK(q, g)
    BY <1>2, <1>3 DEF MoneyInv, GivingInv
  <2>2. g.by = "wallet" => g # gift
    BY <2>1 DEF MakingOK
  <2>3. gift.ref = g.ref => gift = g
    <3>1. g.by \in {"wallet", "card"} /\ gift.by \in {"wallet", "card"}
      BY GiftFields
    <3> QED BY <1>0, <2>1, <3>1 DEF MakingOK
  <2>4. g.by = "wallet" /\ ~overlapped' => available'[g.giver] >= g.amount
    <3>1. ASSUME g.by = "wallet", ~overlapped' PROVE available'[g.giver] >= g.amount
      <4>1. available'[g.giver] >= available[g.giver] /\ available[g.giver] >= g.amount
        BY <2>1, <3>1 DEF MakingOK
      <4>2. g.amount \in Nat /\ available[g.giver] \in Nat /\ available'[g.giver] \in Nat
        BY GiftFields DEF MoneyInv, BalancesInv
      <4> QED BY <4>1, <4>2
    <3> QED BY <3>1
  <2> QED BY <1>0, <1>2, <2>1, <2>2, <2>3, <2>4 DEF MakingOK
<1>4. \A q \in GiveCalls, g, h \in Gift : g \in giving'[q] /\ h \in giving'[q] => g = h
  BY <1>2 DEF MoneyInv, GivingInv
<1>5. GivingInv'
  BY <1>2, <1>3, <1>4 DEF GivingInv
<1> QED BY <1>1, <1>5

\* Totals after a contribution was booked.
LEMMA TotalsBooked ==
    ASSUME MoneyInv, NEW gift \in Gift, gift \notin gifts, Book(gift), BalancesInv',
           eventEscrow' + notFound' = eventEscrow + notFound + (IF gift.by = "wallet" THEN gift.amount ELSE 0),
           \A p \in Givers : available'[p] + (IF gift.by = "wallet" /\ gift.giver = p THEN gift.amount ELSE 0) - notFound'
                                <= available[p] - notFound
    PROVE  SumsInv'
<1>0. GiftsInv /\ gifts' = gifts \cup {gift} /\ raised' = raised + gift.amount /\ gift.amount \in Nat
  BY GiftFields DEF Book, MoneyInv
<1>1. raised' = SumOfGifts(gifts')
  BY <1>0, BookAdds DEF MoneyInv, SumsInv
<1>2. raised' = Sum([p \in Givers |-> SumOfGifts(CreditedTo(gifts', p))])
  BY <1>0, LeaderboardAdds DEF MoneyInv, SumsInv
<1>3. SumOfGifts(ByWallet(gifts')) = eventEscrow' + notFound'
  <2>1. SumOfGifts(ByWallet(gifts')) = SumOfGifts(ByWallet(gifts)) + (IF gift.by = "wallet" THEN gift.amount ELSE 0)
    BY <1>0, BookAdds
  <2> QED BY <2>1 DEF MoneyInv, SumsInv
<1>4. ASSUME NEW p \in Givers PROVE available'[p] + SumOfGifts(PaidBy(gifts', p)) <= Funds + notFound'
  <2> DEFINE more == IF gift.by = "wallet" /\ gift.giver = p THEN gift.amount ELSE 0
  <2>1. SumOfGifts(PaidBy(gifts', p)) = SumOfGifts(PaidBy(gifts, p)) + more /\ SumOfGifts(PaidBy(gifts, p)) \in Nat
    BY <1>0, BookAdds
  <2>2. available[p] \in Nat /\ available'[p] \in Nat /\ notFound \in Nat /\ notFound' \in Nat /\ more \in Nat /\ Funds \in Nat
    BY <1>0, FundsAssumption DEF MoneyInv, BalancesInv
  <2>3. available'[p] + more - notFound' <= available[p] - notFound
    OBVIOUS
  <2>4. available[p] + SumOfGifts(PaidBy(gifts, p)) <= Funds + notFound
    BY DEF MoneyInv, SumsInv
  <2> HIDE DEF more
  <2> QED BY <2>1, <2>2, <2>3, <2>4
<1> QED BY <1>1, <1>2, <1>3, <1>4 DEF SumsInv

\* A contribution from the wallet is paid, or the money is not found.
LEMMA GiftPaid == ASSUME MoneyInv, NEW r \in GiveCalls, PayGift(r) PROVE MoneyInv'
<1>1. PICK gift \in giving[r] :
        /\ gift.by = "wallet"
        /\ giving' = [giving EXCEPT ![r] = NoGiving]
        /\ IF available[gift.giver] >= gift.amount
           THEN /\ available' = [available EXCEPT ![gift.giver] = available[gift.giver] - gift.amount]
                /\ eventEscrow' = eventEscrow + gift.amount /\ UNCHANGED notFound
           ELSE notFound' = notFound + gift.amount /\ UNCHANGED <<available, eventEscrow>>
        /\ overlapped' = (overlapped \/ CheckedBy(gift.giver) # {r})
        /\ Book(gift) /\ UNCHANGED <<charges, referencesUsed>>
  BY DEF PayGift
<1>2. gift \in Gift
  BY DEF MoneyInv, GivingInv
<1>3. /\ gift.giver \in Givers /\ gift.amount \in Nat /\ MakingOK(r, gift)
      /\ available \in [Givers -> Nat] /\ eventEscrow \in Nat /\ notFound \in Nat
  BY <1>2, GiftFields DEF MoneyInv, GivingInv, BalancesInv
<1>4. gift \notin gifts
  BY <1>1, <1>3 DEF MakingOK
<1> DEFINE taken == available[gift.giver] >= gift.amount
<1>5. /\ available' \in [Givers -> Nat] /\ eventEscrow' \in Nat /\ notFound' \in Nat
      /\ \A p \in Givers : available'[p] = IF taken /\ p = gift.giver THEN available[p] - gift.amount ELSE available[p]
      /\ eventEscrow' = (IF taken THEN eventEscrow + gift.amount ELSE eventEscrow)
      /\ notFound' = (IF taken THEN notFound ELSE notFound + gift.amount)
  <2>1. CASE taken
    <3>1. available[gift.giver] - gift.amount \in Nat
      BY <1>3, <2>1
    <3> QED BY <1>1, <1>3, <2>1, <3>1
  <2>2. CASE ~taken
    BY <1>1, <1>3, <2>2
  <2> QED BY <2>1, <2>2
<1>6. ~overlapped' => ~overlapped /\ taken /\ CheckedBy(gift.giver) = {r}
  BY <1>1, <1>3 DEF MakingOK
<1>7. ASSUME NEW q \in GiveCalls \ {r}, NEW g \in Gift, g \in giving[q], g.by = "wallet", ~overlapped'
      PROVE  available'[g.giver] >= available[g.giver]
  <2>1. g.giver \in Givers
    BY GiftFields
  <2>2. g.giver # gift.giver
    BY <1>6, <1>7 DEF CheckedBy
  <2>3. available'[g.giver] = available[g.giver] /\ available[g.giver] \in Nat
    BY <1>3, <1>5, <2>1, <2>2
  <2> QED BY <2>3
<1>8. GiftsInv' /\ GivingInv'
  BY <1>1, <1>2, <1>4, <1>5, <1>6, <1>7, GiftBooked
<1>9. BalancesInv'
  <2>1. raised' \in Nat /\ overlapped' \in BOOLEAN
    BY <1>1, <1>3 DEF Book, MoneyInv, BalancesInv
  <2>2. ~overlapped' => notFound' = 0
    BY <1>5, <1>6 DEF MoneyInv, BalancesInv
  <2> QED BY <1>5, <2>1, <2>2 DEF BalancesInv
<1>10. SumsInv'
  <2>1. eventEscrow' + notFound' = eventEscrow + notFound + (IF gift.by = "wallet" THEN gift.amount ELSE 0)
    BY <1>1, <1>3, <1>5
  <2>2. ASSUME NEW p \in Givers
        PROVE  available'[p] + (IF gift.by = "wallet" /\ gift.giver = p THEN gift.amount ELSE 0) - notFound'
                 <= available[p] - notFound
    <3>1. available[p] \in Nat
      BY <1>3
    <3> HIDE DEF taken
    <3> QED BY <1>3, <1>5, <3>1
  <2> QED BY <1>1, <1>2, <1>4, <1>9, <2>1, <2>2, TotalsBooked
<1> QED BY <1>8, <1>9, <1>10 DEF MoneyInv

\* The wallet is spent on something else.
LEMMA SpentElsewhere ==
    ASSUME MoneyInv, NEW giver \in Givers, NEW amount \in GiftAmounts, SpendElsewhere(giver, amount)
    PROVE  MoneyInv'
<1>1. /\ available[giver] >= amount /\ available' = [available EXCEPT ![giver] = available[giver] - amount]
      /\ overlapped' = (overlapped \/ CheckedBy(giver) # {})
      /\ UNCHANGED <<raised, gifts, eventEscrow, charges, giving, notFound, referencesUsed>>
  BY DEF SpendElsewhere
<1>2. amount \in Nat /\ available \in [Givers -> Nat]
  BY FundsAssumption DEF MoneyInv, BalancesInv
<1>3. /\ available' \in [Givers -> Nat]
      /\ \A p \in Givers : available'[p] = IF p = giver THEN available[p] - amount ELSE available[p]
  BY <1>1, <1>2
<1>4. GiftsInv' /\ BalancesInv'
  BY <1>1, <1>3 DEF MoneyInv, GiftsInv, BalancesInv
<1>5. SumsInv'
  <2>1. ASSUME NEW p \in Givers PROVE available'[p] + SumOfGifts(PaidBy(gifts, p)) <= Funds + notFound
    <3>1. available[p] \in Nat /\ available'[p] \in Nat /\ available'[p] <= available[p]
      BY <1>2, <1>3
    <3>2. SumOfGifts(PaidBy(gifts, p)) \in Nat
      <4>1. PaidBy(gifts, p) \subseteq gifts /\ gifts \subseteq Gift /\ IsFiniteSet(gifts)
        BY DEF PaidBy, MoneyInv, GiftsInv
      <4> QED BY <4>1, FS_Subset, SumOfGiftsType
    <3>3. available[p] + SumOfGifts(PaidBy(gifts, p)) <= Funds + notFound
      BY DEF MoneyInv, SumsInv
    <3>4. Funds \in Nat /\ notFound \in Nat
      BY FundsAssumption DEF MoneyInv, BalancesInv
    <3> QED BY <3>1, <3>2, <3>3, <3>4
  <2> QED BY <1>1, <2>1 DEF MoneyInv, SumsInv
<1>6. ASSUME NEW r \in GiveCalls, NEW g \in Gift, g \in giving'[r] PROVE MakingOK(r, g)'
  <2>1. g \in giving[r] /\ MakingOK(r, g)
    BY <1>1, <1>6 DEF MoneyInv, GivingInv
  <2>2. g.giver \in Givers
    BY GiftFields
  <2>3. g.by = "wallet" /\ ~overlapped' => g.giver # giver /\ ~overlapped
    BY <1>1, <2>1 DEF CheckedBy
  <2> QED BY <1>1, <1>3, <2>1, <2>2, <2>3 DEF MakingOK
<1>7. GivingInv'
  BY <1>1, <1>6 DEF MoneyInv, GivingInv
<1> QED BY <1>4, <1>5, <1>7 DEF MoneyInv

\* A webhook finds a charge that is not booked.
LEMMA WebhookReceived ==
    ASSUME MoneyInv, NEW r \in GiveCalls, NEW gift \in charges, ReceiveWebhook(r, gift) PROVE MoneyInv'
<1>1. /\ giving[r] = NoGiving /\ giving' = [giving EXCEPT ![r] = {gift}]
      /\ UNCHANGED <<raised, gifts, available, eventEscrow, charges, notFound, overlapped, referencesUsed>>
  BY DEF ReceiveWebhook
<1>2. gift \in Gift /\ gift.by = "card" /\ gift.ref \in referencesUsed
  BY DEF MoneyInv, GiftsInv
<1>3. giving' \in [GiveCalls -> SUBSET Gift] /\ \A q \in GiveCalls : giving'[q] = IF q = r THEN {gift} ELSE giving[q]
  BY <1>1, <1>2, Makes DEF MoneyInv, GivingInv
<1>4. ASSUME NEW q \in GiveCalls, NEW g \in Gift, g \in giving'[q] PROVE MakingOK(q, g)'
  <2>1. CASE g = gift
    BY <1>1, <1>2, <2>1 DEF MakingOK, MoneyInv, GiftsInv
  <2>2. CASE g # gift
    <3>1. g \in giving[q] /\ MakingOK(q, g)
      BY <1>3, <1>4, <2>2 DEF MoneyInv, GivingInv
    <3>2. g.by = "wallet" => gift.ref # g.ref
      BY <1>2, <3>1, <2>2 DEF MakingOK
    <3>3. \A p \in GiveCalls, h \in Gift : g.by = "wallet" /\ h \in giving'[p] /\ h.ref = g.ref => h \in giving[p]
      BY <1>3, <3>2
    <3> QED BY <1>1, <3>1, <3>3 DEF MakingOK
  <2> QED BY <2>1, <2>2
<1>5. GivingInv'
  BY <1>3, <1>4 DEF MoneyInv, GivingInv
<1>6. GiftsInv' /\ BalancesInv' /\ SumsInv'
  BY <1>1 DEF MoneyInv, GiftsInv, BalancesInv, SumsInv
<1> QED BY <1>5, <1>6 DEF MoneyInv

\* A webhook books a charge, or finds that another one did.
LEMMA WebhookProcessed ==
    ASSUME MoneyInv, NEW r \in GiveCalls, processEventContributionWebhook(r) PROVE MoneyInv'
<1>1. PICK gift \in giving[r] :
        /\ gift.by = "card" /\ giving' = [giving EXCEPT ![r] = NoGiving]
        /\ IF \E g \in gifts : g.ref = gift.ref THEN UNCHANGED <<gifts, raised>> ELSE Book(gift)
        /\ UNCHANGED <<available, eventEscrow, charges, notFound, overlapped, referencesUsed>>
  BY DEF processEventContributionWebhook
<1>2. gift \in Gift
  BY DEF MoneyInv, GivingInv
<1>3. gift.amount \in Nat
  BY <1>2, GiftFields
<1>4. CASE \E g \in gifts : g.ref = gift.ref
  <2>1. UNCHANGED <<gifts, raised, available, eventEscrow, charges, notFound, overlapped, referencesUsed>>
    BY <1>1, <1>4
  <2>2. giving' \in [GiveCalls -> SUBSET Gift] /\ \A q \in GiveCalls : giving'[q] = IF q = r THEN {} ELSE giving[q]
    BY <1>1, Makes DEF MoneyInv, GivingInv, NoGiving
  <2>3. ASSUME NEW q \in GiveCalls, NEW g \in Gift, g \in giving'[q] PROVE MakingOK(q, g)'
    <3>1. MakingOK(q, g)
      BY <2>2, <2>3 DEF MoneyInv, GivingInv
    <3> QED BY <2>1, <2>2, <3>1 DEF MakingOK
  <2>4. GivingInv'
    BY <2>2, <2>3 DEF MoneyInv, GivingInv
  <2>5. GiftsInv' /\ BalancesInv' /\ SumsInv'
    BY <2>1 DEF MoneyInv, GiftsInv, BalancesInv, SumsInv
  <2> QED BY <2>4, <2>5 DEF MoneyInv
<1>5. CASE ~\E g \in gifts : g.ref = gift.ref
  <2>1. Book(gift) /\ gift \notin gifts /\ UNCHANGED <<available, eventEscrow, charges, notFound, overlapped, referencesUsed>>
    BY <1>1, <1>5
  <2>2. available \in [Givers -> Nat] /\ eventEscrow \in Nat /\ notFound \in Nat /\ raised \in Nat
    BY DEF MoneyInv, BalancesInv
  <2>3. ASSUME NEW g \in Gift PROVE available'[g.giver] >= available[g.giver]
    <3>1. available[g.giver] \in Nat
      BY <2>2, GiftFields
    <3> QED BY <2>1, <3>1
  <2>4. GiftsInv' /\ GivingInv'
    <3>1. /\ giving' = [giving EXCEPT ![r] = NoGiving] /\ UNCHANGED <<charges, referencesUsed>>
          /\ (~overlapped' => ~overlapped) /\ available' \in [Givers -> Nat]
      BY <1>1, <2>2
    <3>2. \A q \in GiveCalls \ {r}, g \in Gift : g \in giving[q] /\ g.by = "wallet" /\ ~overlapped' =>
             available'[g.giver] >= available[g.giver]
      BY <2>3
    <3> QED BY <1>2, <2>1, <3>1, <3>2, GiftBooked
  <2>5. BalancesInv'
    BY <1>3, <2>1, <2>2 DEF Book, MoneyInv, BalancesInv
  <2>6. ASSUME NEW p \in Givers
        PROVE  available'[p] + (IF gift.by = "wallet" /\ gift.giver = p THEN gift.amount ELSE 0) - notFound'
                 <= available[p] - notFound
    BY <1>1, <2>1, <2>2
  <2>7. eventEscrow' + notFound' = eventEscrow + notFound + (IF gift.by = "wallet" THEN gift.amount ELSE 0)
    BY <1>1, <2>1, <2>2
  <2>8. SumsInv'
    BY <1>2, <2>1, <2>5, <2>6, <2>7, TotalsBooked
  <2> QED BY <2>4, <2>5, <2>8 DEF MoneyInv
<1> QED BY <1>4, <1>5

\* Contributions, webhooks and other spending, in any order.
LEMMA MoneyStep == MoneyInv /\ MoneyNext => MoneyInv'
BY GiftBegins, WebhookReceived, GiftPaid, WebhookProcessed, SpentElsewhere DEF MoneyNext

\* The invariant speaks of the contributions alone.
LEMMA MoneyStays == MoneyInv /\ UNCHANGED moneyVars => MoneyInv'
<1> SUFFICES ASSUME MoneyInv, UNCHANGED moneyVars PROVE MoneyInv'
  OBVIOUS
<1>1. UNCHANGED <<raised, gifts, available, eventEscrow, charges, giving, notFound, overlapped, referencesUsed>>
  BY DEF moneyVars
<1>2. \A r \in GiveCalls, g \in Gift : g \in giving'[r] => MakingOK(r, g)'
  <2> SUFFICES ASSUME NEW r \in GiveCalls, NEW g \in Gift, g \in giving'[r] PROVE MakingOK(r, g)'
    OBVIOUS
  <2>1. MakingOK(r, g)
    BY <1>1 DEF MoneyInv, GivingInv
  <2> QED BY <1>1, <2>1 DEF MakingOK
<1> QED BY <1>1, <1>2 DEF MoneyInv, GiftsInv, GivingInv, BalancesInv, SumsInv

\* What some of the contributors are shown to have given is no more than was raised, and
\* what all of them are shown to have given is just that.
LEMMA BoardAddsUp ==
    ASSUME MoneyInv, NEW top, top \subseteq Contributors
    PROVE  /\ Sum([p \in top |-> Given(p)]) <= raised
           /\ top = Contributors => Sum([p \in top |-> Given(p)]) = raised
<1> DEFINE d == [p \in top |-> Given(p)]
           f == [p \in Givers |-> SumOfGifts(CreditedTo(gifts, p))]
           h == [p \in Givers |-> IF p \in top THEN Given(p) ELSE 0]
<1>1. gifts \subseteq Gift /\ IsFiniteSet(gifts) /\ raised = Sum(f)
  BY DEF MoneyInv, GiftsInv, SumsInv
<1>2. top \subseteq Givers /\ Contributors \subseteq Givers
  BY <1>1, GiftFields DEF Contributors
<1>3. ASSUME NEW p PROVE Given(p) = SumOfGifts(CreditedTo(gifts, p)) /\ Given(p) \in Nat
  <2>1. CreditedTo(gifts, p) \subseteq Gift /\ IsFiniteSet(CreditedTo(gifts, p))
    <3>1. CreditedTo(gifts, p) \subseteq gifts
      BY DEF CreditedTo
    <3> QED BY <1>1, <3>1, FS_Subset
  <2>2. Given(p) = SumOfGifts(CreditedTo(gifts, p))
    BY DEF Given, CreditedTo
  <2> QED BY <2>1, <2>2, SumOfGiftsType
<1>4. \A p \in Givers \ Contributors : Given(p) = 0
  <2>1. ASSUME NEW p \in Givers \ Contributors PROVE Given(p) = 0
    <3>1. {g \in gifts : g.credited = p} = {}
      BY DEF Contributors
    <3> QED BY <3>1, NoGifts DEF Given
  <2> QED BY <2>1
<1>5. /\ d \in [top -> Int] /\ f \in [Givers -> Int] /\ h \in [Givers -> Int]
      /\ \A p \in Givers : h[p] = (IF p \in top THEN d[p] ELSE 0) /\ h[p] <= f[p]
      /\ \A p \in Givers : f[p] = Given(p)
      /\ \A p \in top : d[p] = Given(p)
  BY <1>2, <1>3
<1> HIDE DEF d, f, h
<1>6. SumOf(h) = SumOf(d)
  BY <1>2, <1>5, GiversAssumption, SumExtend
<1>7. SumOf(h) <= SumOf(f)
  BY <1>5, GiversAssumption, SumMonotone
<1>8. ASSUME top = Contributors PROVE SumOf(d) = SumOf(f)
  <2>1. \A p \in Givers : f[p] = IF p \in top THEN d[p] ELSE 0
    BY <1>4, <1>5, <1>8
  <2> QED BY <1>2, <1>5, <2>1, GiversAssumption, SumExtend
<1>9. Sum(d) <= raised /\ (top = Contributors => Sum(d) = raised)
  BY <1>1, <1>6, <1>7, <1>8 DEF Sum, SumOf
<1> QED BY <1>9 DEF d

\* What the run checks of the contributions follows.
LEMMA MoneyHolds == MoneyInv => MoneyTypeOK /\ RaisedIsSum /\ MoneyBehindGifts /\ PaidByGiver
<1> SUFFICES ASSUME MoneyInv PROVE MoneyTypeOK /\ RaisedIsSum /\ MoneyBehindGifts /\ PaidByGiver
  OBVIOUS
<1>1. MoneyTypeOK
  BY DEF MoneyInv, GiftsInv, GivingInv, BalancesInv, MoneyTypeOK
<1>2. RaisedIsSum
  <2>1. raised = SumOfGifts(gifts)
    BY DEF MoneyInv, SumsInv
  <2>2. ASSUME NEW board \in getLeaderboard
        PROVE  Sum(board) <= raised /\ (DOMAIN board = Contributors => Sum(board) = raised)
    <3>1. PICK top \in Leaders : board = [p \in top |-> Given(p)]
      BY <2>2 DEF getLeaderboard
    <3>2. top \subseteq Contributors /\ DOMAIN board = top
      BY <3>1 DEF Leaders
    <3> QED BY <3>1, <3>2, BoardAddsUp
  <2> QED BY <2>1, <2>2 DEF RaisedIsSum
<1>3. MoneyBehindGifts
  BY DEF MoneyInv, SumsInv, GiftsInv, BalancesInv, MoneyBehindGifts, ByWallet
<1>4. PaidByGiver
  BY DEF MoneyInv, SumsInv, PaidByGiver, PaidBy
<1> QED BY <1>1, <1>2, <1>3, <1>4

-----------------------------------------------------------------------------
(* Share links *)

LinkRow == [campaign : Shared, ref : Codes \cup {NoCode}]

\* A request is about one campaign, and a code it carries is one of that campaign; once it
\* asks for the link, the code is an amplifier's.
CallOK(k, codes) ==
    k.op # "none" =>
        /\ k.campaign \in Shared
        /\ k.ref # NoCode => k.ref[1] = k.campaign
        /\ k.op = "claim" => k.ref \in Codes
        /\ k.op # "claim" /\ k.ref # NoCode => k.ref \in codes

\* While a request is about to insert a link, the ones there are were inserted meanwhile.
RacedOK(k) == k.op = "insert" => Cardinality(LinksOf(k.campaign)) <= doubled[k.campaign]

ShareOK(s) ==
    /\ s \in [code : Codes, link : 0..MaxLinks] /\ s.code \in amplifiers /\ s.link \in 0..Len(links)
    /\ s.link # NoLink => links[s.link].campaign = s.code[1]

LinkRowsInv ==
    /\ links \in Seq(LinkRow) /\ Len(links) <= MaxLinks
    /\ \A i \in DOMAIN links : links[i].ref # NoCode => links[i].ref[1] = links[i].campaign
    /\ amplifiers \subseteq Codes /\ linking \in [LinkCalls -> LinkCall]
    /\ \A r \in LinkCalls : CallOK(linking[r], amplifiers) /\ RacedOK(linking[r])
    /\ \A s \in shares : ShareOK(s)
    /\ doubled \in [Shared -> Nat] /\ \A c \in Shared : doubled[c] <= Len(links)
    /\ OneLinkUnlessRaced

\* Unless two reloads overlapped there is one at most, and what its query answered is so.
ReloadsInv ==
    /\ {active, loaded, crossedReload, reloadFailed} \subseteq BOOLEAN
    /\ switching \in [LinkCalls -> {"none", "saved", "on", "off"}] /\ switches \in 0..MaxSwitches
    /\ ~crossedReload =>
        /\ \A r, q \in LinkCalls : switching[r] # "none" /\ switching[q] # "none" => r = q
        /\ \A r \in LinkCalls : (switching[r] = "on" => active) /\ (switching[r] = "off" => ~active)
    /\ CacheFollowsTable

LinkInv == LinkRowsInv /\ ReloadsInv

\* There are finitely many links.
LEMMA LinksFinite ==
    ASSUME links \in Seq(LinkRow), NEW c
    PROVE  IsFiniteSet(LinksOf(c)) /\ Cardinality(LinksOf(c)) \in Nat
<1>1. DOMAIN links = 1..Len(links) /\ Len(links) \in Nat
  OBVIOUS
<1>2. IsFiniteSet(1..Len(links)) /\ LinksOf(c) \subseteq 1..Len(links)
  BY <1>1, FS_Interval DEF LinksOf
<1> QED BY <1>2, FS_Subset, FS_CardinalityType

\* At first there is no link.
LEMMA LinkInitOK == LinkInit => LinkInv
<1> SUFFICES ASSUME LinkInit PROVE LinkInv
  OBVIOUS
<1>1. \A c : Cardinality(LinksOf(c)) = 0
  <2> SUFFICES ASSUME NEW c PROVE Cardinality(LinksOf(c)) = 0
    OBVIOUS
  <2>1. LinksOf(c) = {}
    BY DEF LinkInit, LinksOf
  <2> QED BY <2>1, FS_EmptySet
<1>2. linking \in [LinkCalls -> LinkCall]
  BY DEF LinkInit, NoCall, LinkCall
<1>3. \A r \in LinkCalls : CallOK(linking[r], amplifiers) /\ RacedOK(linking[r])
  BY DEF LinkInit, NoCall, CallOK, RacedOK
<1>4. OneLinkUnlessRaced
  BY <1>1 DEF LinkInit, OneLinkUnlessRaced
<1>5. links \in Seq(LinkRow) /\ Len(links) = 0 /\ DOMAIN links = {}
  BY DEF LinkInit
<1>6. LinkRowsInv
  BY <1>2, <1>3, <1>4, <1>5, LinksAssumption DEF LinkInit, LinkRowsInv
<1>7. ReloadsInv
  <2>1. CacheFollowsTable /\ switches \in 0..MaxSwitches
    BY LinksAssumption DEF LinkInit, CacheFollowsTable
  <2>2. {active, loaded, crossedReload, reloadFailed} \subseteq BOOLEAN
    BY DEF LinkInit
  <2>3. /\ switching \in [LinkCalls -> {"none", "saved", "on", "off"}]
        /\ \A r \in LinkCalls : switching[r] = "none"
    BY DEF LinkInit
  <2> QED BY <2>1, <2>2, <2>3 DEF ReloadsInv
<1> QED BY <1>6, <1>7 DEF LinkInv

\* Request r now does k.
Puts(r, k) ==
    linking' \in [LinkCalls -> LinkCall] /\ \A q \in LinkCalls : linking'[q] = IF q = r THEN k ELSE linking[q]

\* A request begins, or goes on, with the links as they are.
LEMMA CallGoesOn ==
    ASSUME LinkRowsInv, NEW r \in LinkCalls, NEW k \in LinkCall, Puts(r, k),
           amplifiers \subseteq amplifiers', amplifiers' \subseteq Codes, CallOK(k, amplifiers'), RacedOK(k),
           \A s \in shares' : s \in shares \/ ShareOK(s),
           UNCHANGED <<links, doubled>>
    PROVE  LinkRowsInv'
<1>1. linking' \in [LinkCalls -> LinkCall] /\ \A q \in LinkCalls : linking'[q] = IF q = r THEN k ELSE linking[q]
  BY DEF Puts
<1>2. \A q \in LinkCalls : (CallOK(linking[q], amplifiers) /\ RacedOK(linking[q]))'
  <2> SUFFICES ASSUME NEW q \in LinkCalls PROVE (CallOK(linking[q], amplifiers) /\ RacedOK(linking[q]))'
    OBVIOUS
  <2>1. CASE q = r
    BY <1>1, <2>1 DEF CallOK, RacedOK, LinksOf
  <2>2. CASE q # r
    <3>1. CallOK(linking[q], amplifiers) /\ RacedOK(linking[q]) /\ linking'[q] = linking[q]
      BY <1>1, <2>2 DEF LinkRowsInv
    <3> QED BY <3>1 DEF CallOK, RacedOK, LinksOf
  <2> QED BY <2>1, <2>2
<1>3. \A s \in shares' : ShareOK(s)'
  <2> SUFFICES ASSUME NEW s \in shares' PROVE ShareOK(s)'
    OBVIOUS
  <2>1. ShareOK(s)
    BY DEF LinkRowsInv
  <2> QED BY <2>1 DEF ShareOK
<1>4. OneLinkUnlessRaced'
  BY DEF LinkRowsInv, OneLinkUnlessRaced, LinksOf
<1> QED BY <1>1, <1>2, <1>3, <1>4 DEF LinkRowsInv

\* What a request that asked for the link answers.
LEMMA AnswerOK ==
    ASSUME LinkRowsInv, NEW r \in LinkCalls, NEW link, Answer(r, link), linking[r].op \in {"generate", "insert"},
           link = NoLink \/ link \in LinksOf(linking[r].campaign), UNCHANGED <<links, amplifiers, doubled>>
    PROVE  LinkRowsInv'
<1> DEFINE s == [code |-> linking[r].ref, link |-> link]
<1>1. linking[r] \in LinkCall /\ CallOK(linking[r], amplifiers)
  BY DEF LinkRowsInv
<1>2. link \in 0..Len(links) /\ Len(links) \in Nat /\ Len(links) <= MaxLinks
  BY DEF LinkRowsInv, LinksOf, NoLink
<1>3. ASSUME linking[r].ref # NoCode PROVE ShareOK(s)
  <2>1. linking[r].ref \in Codes /\ linking[r].ref \in amplifiers /\ linking[r].ref[1] = linking[r].campaign
    BY <1>1, <1>3 DEF LinkCall, CallOK
  <2>2. link # NoLink => links[link].campaign = linking[r].ref[1]
    BY <2>1 DEF LinksOf
  <2> QED BY <1>2, <2>1, <2>2, LinksAssumption DEF ShareOK
<1>4. \A t \in shares' : t \in shares \/ ShareOK(t)
  BY <1>3 DEF Answer
<1>5. NoCall \in LinkCall /\ CallOK(NoCall, amplifiers') /\ RacedOK(NoCall)
  BY DEF NoCall, LinkCall, CallOK, RacedOK
<1>6. Puts(r, NoCall) /\ amplifiers \subseteq amplifiers' /\ amplifiers' \subseteq Codes
  BY <1>5 DEF Answer, LinkRowsInv, Puts
<1> QED BY <1>4, <1>5, <1>6, CallGoesOn

\* A new link: the first of its campaign, unless another request was inserting one too.
LEMMA InsertOK ==
    ASSUME LinkRowsInv, NEW r \in LinkCalls, linking[r].op = "insert", Len(links) < MaxLinks,
           NEW c, c = linking[r].campaign,
           links' = Append(links, [campaign |-> c, ref |-> linking[r].ref]),
           NEW others \in BOOLEAN, others <=> (\E q \in LinkCalls \ {r} : linking[q].op = "insert" /\ linking[q].campaign = c),
           doubled' = [doubled EXCEPT ![c] = IF others THEN doubled[c] + 1 ELSE doubled[c]],
           Answer(r, Len(links) + 1), UNCHANGED amplifiers
    PROVE  LinkRowsInv'
<1> DEFINE entry == [campaign |-> c, ref |-> linking[r].ref]
           n == Len(links) + 1
           s == [code |-> linking[r].ref, link |-> n]
<1>1. linking[r] \in LinkCall /\ CallOK(linking[r], amplifiers) /\ RacedOK(linking[r])
  BY DEF LinkRowsInv
<1>2. c \in Shared /\ linking[r].ref \in Codes \cup {NoCode} /\ entry \in LinkRow
  BY <1>1 DEF CallOK, LinkCall, LinkRow
<1>3. /\ links' \in Seq(LinkRow) /\ Len(links') = n /\ DOMAIN links' = 1..n /\ n \in Nat /\ n <= MaxLinks
      /\ links'[n] = entry /\ \A i \in DOMAIN links : i \in 1..n /\ i # n /\ links'[i] = links[i]
      /\ \A i \in 1..n : i = n \/ i \in DOMAIN links
  <2>1. links \in Seq(LinkRow) /\ Len(links) \in Nat /\ MaxLinks \in Nat
    BY LinksAssumption DEF LinkRowsInv
  <2> HIDE DEF entry
  <2>2. links' = Append(links, entry)
    BY DEF entry
  <2> QED BY <1>2, <2>1, <2>2
<1>4. \A i \in DOMAIN links' : links'[i].ref # NoCode => links'[i].ref[1] = links'[i].campaign
  <2>1. entry.ref # NoCode => entry.ref[1] = entry.campaign
    BY <1>1 DEF CallOK
  <2> HIDE DEF entry, n
  <2> QED BY <1>3, <2>1 DEF LinkRowsInv
<1>5. /\ linking' = [linking EXCEPT ![r] = NoCall] /\ linking' \in [LinkCalls -> LinkCall]
      /\ linking'[r] = NoCall /\ \A q \in LinkCalls \ {r} : linking'[q] = linking[q]
  BY DEF Answer, NoCall, LinkCall, LinkRowsInv
<1>6. \A t \in shares' : ShareOK(t)'
  <2> SUFFICES ASSUME NEW t \in shares' PROVE ShareOK(t)'
    OBVIOUS
  <2>1. CASE t \in shares
    <3>1. ShareOK(t)
      BY <2>1 DEF LinkRowsInv
    <3>2. t.link \in 0..Len(links) /\ t.link \in 0..n
      BY <1>3, <3>1 DEF ShareOK
    <3>3. t.link # NoLink => t.link \in DOMAIN links
      BY <3>2 DEF NoLink, LinkRowsInv
    <3> HIDE DEF n
    <3> QED BY <1>3, <3>1, <3>2, <3>3 DEF ShareOK
  <2>2. CASE linking[r].ref # NoCode /\ t = s
    <3>1. linking[r].ref \in Codes /\ linking[r].ref \in amplifiers /\ linking[r].ref[1] = c
      BY <1>1, <2>2 DEF LinkCall, CallOK
    <3>2. t.code = linking[r].ref /\ t.link = n /\ t \in [code : Codes, link : 0..MaxLinks]
      BY <1>3, <2>2, <3>1, LinksAssumption
    <3>3. links'[n].campaign = c
      BY <1>3
    <3> HIDE DEF n, s
    <3> QED BY <1>3, <3>1, <3>2, <3>3 DEF ShareOK
  <2> QED BY <2>1, <2>2 DEF Answer
<1>7. \A x \in Shared : /\ x # c => LinksOf(x)' = LinksOf(x) /\ doubled'[x] = doubled[x]
                        /\ x = c => LinksOf(x)' = LinksOf(x) \cup {n} /\ n \notin LinksOf(x)
  <2> HIDE DEF n
  <2>1. \A i \in 1..n : links'[i].campaign = c \/ i # n
    BY <1>3
  <2> QED BY <1>2, <1>3 DEF LinksOf, LinkRowsInv
<1>8. /\ Cardinality(LinksOf(c)) \in Nat /\ Cardinality(LinksOf(c))' = Cardinality(LinksOf(c)) + 1
      /\ doubled[c] \in Nat /\ doubled'[c] = IF others THEN doubled[c] + 1 ELSE doubled[c]
      /\ Cardinality(LinksOf(c)) <= doubled[c]
  <2>1. IsFiniteSet(LinksOf(c)) /\ Cardinality(LinksOf(c)) \in Nat
    BY LinksFinite DEF LinkRowsInv
  <2>2. LinksOf(c)' = LinksOf(c) \cup {n} /\ n \notin LinksOf(c)
    BY <1>2, <1>7
  <2> HIDE DEF n
  <2>3. Cardinality(LinksOf(c) \cup {n}) = Cardinality(LinksOf(c)) + 1
    BY <2>1, <2>2, FS_AddElement
  <2>4. doubled[c] \in Nat /\ doubled'[c] = IF others THEN doubled[c] + 1 ELSE doubled[c]
    BY <1>2 DEF LinkRowsInv
  <2>5. Cardinality(LinksOf(c)) <= doubled[c]
    BY <1>1 DEF RacedOK
  <2> QED BY <2>1, <2>2, <2>3, <2>4, <2>5
<1>9. OneLinkUnlessRaced'
  <2> SUFFICES ASSUME NEW x \in Shared PROVE Cardinality(LinksOf(x))' <= 1 + doubled'[x]
    BY DEF OneLinkUnlessRaced
  <2>1. CASE x = c
    BY <1>8, <2>1
  <2>2. CASE x # c
    BY <1>7, <2>2 DEF LinkRowsInv, OneLinkUnlessRaced
  <2> QED BY <2>1, <2>2
<1>10. \A q \in LinkCalls : (CallOK(linking[q], amplifiers) /\ RacedOK(linking[q]))'
  <2> SUFFICES ASSUME NEW q \in LinkCalls PROVE (CallOK(linking[q], amplifiers) /\ RacedOK(linking[q]))'
    OBVIOUS
  <2>1. CASE q = r
    BY <1>5, <2>1 DEF CallOK, RacedOK, NoCall
  <2>2. CASE q # r
    <3>1. linking'[q] = linking[q] /\ CallOK(linking[q], amplifiers) /\ RacedOK(linking[q]) /\ linking[q] \in LinkCall
      BY <1>5, <2>2 DEF LinkRowsInv
    <3>2. CallOK(linking[q], amplifiers)'
      BY <3>1 DEF CallOK
    <3>3. ASSUME linking[q].op = "insert", NEW x, x = linking[q].campaign
          PROVE  Cardinality(LinksOf(x))' <= doubled'[x]
      <4>1. x \in Shared /\ Cardinality(LinksOf(x)) <= doubled[x]
        BY <3>1, <3>3 DEF CallOK, RacedOK
      <4>2. CASE x = c
        <5>1. others
          BY <2>2, <3>3, <4>2
        <5>2. Cardinality(LinksOf(c))' <= doubled'[c]
          BY <1>8, <5>1
        <5> QED BY <4>2, <5>2
      <4>3. CASE x # c
        <5>1. LinksOf(x)' = LinksOf(x) /\ doubled'[x] = doubled[x]
          BY <1>7, <4>1, <4>3
        <5> QED BY <4>1, <5>1
      <4> QED BY <4>2, <4>3
    <3>4. RacedOK(linking[q])'
      <4> SUFFICES ASSUME linking'[q].op = "insert"
                   PROVE  Cardinality(LinksOf(linking[q].campaign))' <= doubled'[linking'[q].campaign]
        BY DEF RacedOK
      <4>1. PICK x : x = linking[q].campaign
        OBVIOUS
      <4>2. Cardinality(LinksOf(x))' <= doubled'[x]
        BY <3>1, <3>3, <4>1
      <4> QED BY <3>1, <4>1, <4>2 DEF LinksOf
    <3> QED BY <3>2, <3>4
  <2> QED BY <2>1, <2>2
<1>11. doubled' \in [Shared -> Nat] /\ \A x \in Shared : doubled'[x] <= n
  <2>1. \A x \in Shared : doubled[x] \in Nat /\ doubled[x] <= Len(links) /\ Len(links) \in Nat
    BY DEF LinkRowsInv
  <2>2. doubled' \in [Shared -> Nat]
    BY <1>2, <1>8 DEF LinkRowsInv
  <2>3. \A x \in Shared : x # c => doubled'[x] = doubled[x]
    BY <1>7
  <2> QED BY <1>8, <2>1, <2>2, <2>3
<1> HIDE DEF entry, n, s
<1> QED BY <1>3, <1>4, <1>5, <1>6, <1>9, <1>10, <1>11 DEF LinkRowsInv

\* Claims, links and reloads, in any order.
LEMMA LinkStep == LinkInv /\ LinkNext => LinkInv'
<1> SUFFICES ASSUME LinkRowsInv, ReloadsInv, NEW r \in LinkCalls,
                    \/ generate(r) \/ InsertLink(r) \/ SaveAmplifier(r) \/ QueryProject(r) \/ ReloadFails(r)
                    \/ reloadProject(r)
                    \/ \E c \in Shared : forCampaign(r, c)
                    \/ \E code \in Codes : claim(r, code)
                    \/ \E on \in BOOLEAN : SetActive(r, on)
             PROVE  LinkRowsInv' /\ ReloadsInv'
  BY DEF LinkInv, LinkNext
<1>0. linking[r] \in LinkCall /\ CallOK(linking[r], amplifiers)
  BY DEF LinkRowsInv
<1>1. ASSUME UNCHANGED projectVars PROVE ReloadsInv'
  BY <1>1 DEF projectVars, ReloadsInv, CacheFollowsTable
<1>2. ASSUME UNCHANGED ResourceVars PROVE LinkRowsInv'
  BY <1>2 DEF ResourceVars, LinkRowsInv, CallOK, RacedOK, ShareOK, LinksOf, OneLinkUnlessRaced
<1>3. CASE generate(r)
  <2>1. linking[r].op = "generate" /\ UNCHANGED <<links, amplifiers, doubled, projectVars>>
    BY <1>3 DEF generate
  <2>2. CASE Answer(r, NoLink)
    BY <1>1, <2>1, <2>2, AnswerOK
  <2>3. CASE \E i \in LinksOf(linking[r].campaign) : Answer(r, i)
    BY <1>1, <2>1, <2>3, AnswerOK
  <2>4. CASE /\ LinksOf(linking[r].campaign) = {}
             /\ linking' = [linking EXCEPT ![r].op = "insert"] /\ UNCHANGED shares
    <3> DEFINE k == [op |-> "insert", campaign |-> linking[r].campaign, ref |-> linking[r].ref]
    <3>1. Puts(r, k) /\ k \in LinkCall
      <4>1. k \in LinkCall
        BY <1>0 DEF LinkCall
      <4>2. linking'[r] = k
        BY <1>0, <2>4 DEF LinkCall, LinkRowsInv
      <4>3. \A q \in LinkCalls : q # r => linking'[q] = linking[q]
        BY <2>4 DEF LinkRowsInv
      <4>4. linking' = [q \in LinkCalls |-> linking'[q]]
        BY <2>4 DEF LinkRowsInv
      <4> HIDE DEF k
      <4> QED BY <4>1, <4>2, <4>3, <4>4 DEF LinkRowsInv, Puts
    <3>2. CallOK(k, amplifiers')
      BY <1>0, <2>1 DEF CallOK
    <3>3. linking[r].campaign \in Shared /\ doubled[linking[r].campaign] \in Nat
      BY <1>0, <2>1 DEF CallOK, LinkRowsInv
    <3>4. RacedOK(k)
      BY <2>4, <3>3, FS_EmptySet DEF RacedOK
    <3>5. amplifiers \subseteq amplifiers' /\ amplifiers' \subseteq Codes
      BY <2>1 DEF LinkRowsInv
    <3> HIDE DEF k
    <3> QED BY <1>1, <2>1, <2>4, <3>1, <3>2, <3>4, <3>5, CallGoesOn
  <2> QED BY <1>3, <2>2, <2>3, <2>4 DEF generate
<1>4. CASE InsertLink(r)
  <2>1. linking[r].op = "insert" /\ UNCHANGED <<amplifiers, projectVars>>
    BY <1>4 DEF InsertLink
  <2>2. CASE Answer(r, NoLink) /\ UNCHANGED <<links, doubled>>
    BY <1>1, <2>1, <2>2, AnswerOK
  <2>3. CASE ~(Answer(r, NoLink) /\ UNCHANGED <<links, doubled>>)
    <3> DEFINE c == linking[r].campaign
               others == \E q \in LinkCalls \ {r} : linking[q].op = "insert" /\ linking[q].campaign = c
    <3>1. /\ Len(links) < MaxLinks
          /\ links' = Append(links, [campaign |-> c, ref |-> linking[r].ref])
          /\ doubled' = [doubled EXCEPT ![c] = IF others THEN doubled[c] + 1 ELSE doubled[c]]
          /\ Answer(r, Len(links) + 1)
      BY <1>4, <2>3 DEF InsertLink
    <3>2. LinkRowsInv'
      BY <2>1, <3>1, InsertOK
    <3> QED BY <1>1, <2>1, <3>2
  <2> QED BY <2>2, <2>3
<1>5. CASE SaveAmplifier(r)
  <2>1. linking[r].op = "claim" /\ UNCHANGED <<links, shares, doubled, projectVars>>
    BY <1>5 DEF SaveAmplifier
  <2>2. linking[r].ref \in Codes
    BY <1>0, <2>1 DEF CallOK
  <2>3. CASE linking' = [linking EXCEPT ![r] = NoCall] /\ UNCHANGED amplifiers
    <3>1. NoCall \in LinkCall /\ CallOK(NoCall, amplifiers') /\ RacedOK(NoCall)
      BY DEF NoCall, LinkCall, CallOK, RacedOK
    <3>3. Puts(r, NoCall)
      BY <2>3, <3>1 DEF LinkRowsInv, Puts
    <3>2. amplifiers \subseteq amplifiers' /\ amplifiers' \subseteq Codes
      BY <2>3 DEF LinkRowsInv
    <3> QED BY <1>1, <2>1, <2>3, <3>1, <3>2, <3>3, CallGoesOn
  <2>4. CASE linking' = [linking EXCEPT ![r].op = "generate"] /\ amplifiers' = amplifiers \cup {linking[r].ref}
    <3> DEFINE k == [op |-> "generate", campaign |-> linking[r].campaign, ref |-> linking[r].ref]
    <3>1. Puts(r, k) /\ k \in LinkCall
      <4>1. k \in LinkCall
        BY <1>0 DEF LinkCall
      <4>2. linking'[r] = k
        BY <1>0, <2>4 DEF LinkCall, LinkRowsInv
      <4>3. \A q \in LinkCalls : q # r => linking'[q] = linking[q]
        BY <2>4 DEF LinkRowsInv
      <4>4. linking' = [q \in LinkCalls |-> linking'[q]]
        BY <2>4 DEF LinkRowsInv
      <4> HIDE DEF k
      <4> QED BY <4>1, <4>2, <4>3, <4>4 DEF LinkRowsInv, Puts
    <3>2. CallOK(k, amplifiers') /\ RacedOK(k)
      BY <1>0, <2>1, <2>4 DEF CallOK, RacedOK
    <3>3. amplifiers \subseteq amplifiers' /\ amplifiers' \subseteq Codes
      BY <2>2, <2>4 DEF LinkRowsInv
    <3> HIDE DEF k
    <3> QED BY <1>1, <2>1, <3>1, <3>2, <3>3, CallGoesOn
  <2> QED BY <1>5, <2>3, <2>4 DEF SaveAmplifier
<1>6. CASE \E c \in Shared : forCampaign(r, c)
  <2>1. PICK c \in Shared : forCampaign(r, c)
    BY <1>6
  <2> DEFINE k == [op |-> "generate", campaign |-> c, ref |-> NoCode]
  <2>2. linking' = [linking EXCEPT ![r] = k] /\ UNCHANGED <<links, amplifiers, shares, doubled, projectVars>>
    BY <2>1 DEF forCampaign
  <2>3. k \in LinkCall /\ CallOK(k, amplifiers') /\ RacedOK(k)
    BY DEF LinkCall, CallOK, RacedOK
  <2>4. amplifiers \subseteq amplifiers' /\ amplifiers' \subseteq Codes
    BY <2>2 DEF LinkRowsInv
  <2> HIDE DEF k
  <2>5. Puts(r, k)
    BY <2>2, <2>3 DEF LinkRowsInv, Puts
  <2> QED BY <1>1, <2>2, <2>3, <2>4, <2>5, CallGoesOn
<1>7. CASE \E code \in Codes : claim(r, code)
  <2>1. PICK code \in Codes : claim(r, code)
    BY <1>7
  <2> DEFINE k == [op |-> IF code \in amplifiers THEN "generate" ELSE "claim", campaign |-> code[1], ref |-> code]
  <2>2. linking' = [linking EXCEPT ![r] = k] /\ UNCHANGED <<links, amplifiers, shares, doubled, projectVars>>
    BY <2>1 DEF claim
  <2>3. code[1] \in Shared
    BY DEF Codes
  <2>4. k \in LinkCall /\ CallOK(k, amplifiers') /\ RacedOK(k)
    BY <2>2, <2>3 DEF LinkCall, CallOK, RacedOK
  <2>5. amplifiers \subseteq amplifiers' /\ amplifiers' \subseteq Codes
    BY <2>2 DEF LinkRowsInv
  <2> HIDE DEF k
  <2>6. Puts(r, k)
    BY <2>2, <2>4 DEF LinkRowsInv, Puts
  <2> QED BY <1>1, <2>2, <2>4, <2>5, <2>6, CallGoesOn
<1>8. CASE \E on \in BOOLEAN : SetActive(r, on)
  <2>1. PICK on \in BOOLEAN : SetActive(r, on)
    BY <1>8
  <2>2. switches' \in 0..MaxSwitches
    BY <2>1, LinksAssumption DEF SetActive, ReloadsInv
  <2>3. ReloadsInv'
    BY <2>1, <2>2 DEF SetActive, ReloadsInv, CacheFollowsTable
  <2> QED BY <1>2, <2>1, <2>3 DEF SetActive
<1>9. CASE QueryProject(r)
  <2>1. ReloadsInv'
    BY <1>9 DEF QueryProject, ReloadsInv, CacheFollowsTable
  <2> QED BY <1>2, <1>9, <2>1 DEF QueryProject
<1>10. CASE reloadProject(r)
  <2>1. ReloadsInv'
    BY <1>10 DEF reloadProject, ReloadsInv, CacheFollowsTable
  <2> QED BY <1>2, <1>10, <2>1 DEF reloadProject
<1>11. CASE ReloadFails(r)
  <2>1. ReloadsInv'
    BY <1>11 DEF ReloadFails, ReloadsInv, CacheFollowsTable
  <2> QED BY <1>2, <1>11, <2>1 DEF ReloadFails
<1> QED BY <1>3, <1>4, <1>5, <1>6, <1>7, <1>8, <1>9, <1>10, <1>11

\* The invariant speaks of the links alone.
LEMMA LinksStay == LinkInv /\ UNCHANGED linkVars => LinkInv'
<1> SUFFICES ASSUME LinkRowsInv, ReloadsInv, UNCHANGED linkVars PROVE LinkRowsInv' /\ ReloadsInv'
  BY DEF LinkInv
<1>1. LinkRowsInv'
  BY DEF linkVars, LinkRowsInv, CallOK, RacedOK, ShareOK, LinksOf, OneLinkUnlessRaced
<1>2. ReloadsInv'
  BY DEF linkVars, ReloadsInv, CacheFollowsTable
<1> QED BY <1>1, <1>2

\* What the run checks of the links follows.
LEMMA LinksHold == LinkInv => LinkTypeOK /\ LinkLeadsHome /\ OneLinkUnlessRaced /\ CacheFollowsTable
<1> SUFFICES ASSUME LinkRowsInv, ReloadsInv PROVE LinkTypeOK /\ LinkLeadsHome
  BY DEF LinkInv, LinkRowsInv, ReloadsInv
<1>1. \A s \in shares : /\ s \in [code : Codes, link : 0..MaxLinks] /\ s.code \in amplifiers /\ s.link \in 0..Len(links)
                        /\ s.link # NoLink => links[s.link].campaign = s.code[1]
  BY DEF LinkRowsInv, ShareOK
<1>2. doubled \in [Shared -> 0..MaxLinks]
  <2>1. \A c \in Shared : doubled[c] \in 0..MaxLinks
    BY LinksAssumption DEF LinkRowsInv
  <2> QED BY <2>1 DEF LinkRowsInv
<1>3. LinkTypeOK
  BY <1>1, <1>2 DEF LinkTypeOK, LinkRowsInv, ReloadsInv, LinkRow
<1>4. LinkLeadsHome
  <2> SUFFICES ASSUME NEW s \in shares, s.link # NoLink
               PROVE  /\ links[s.link].campaign = s.code[1]
                      /\ links[s.link].ref # NoCode => links[s.link].ref[1] = s.code[1]
    BY DEF LinkLeadsHome
  <2>1. s.link \in DOMAIN links
    BY <1>1 DEF LinkRowsInv, NoLink
  <2> QED BY <1>1, <2>1 DEF LinkRowsInv
<1> QED BY <1>3, <1>4

-----------------------------------------------------------------------------
(* The organisers of a campaign *)

TeamCall == [op : {"none", "insert", "accept", "reject", "update", "follow", "unfollow"},
             id : OrganizerIds \cup FollowIds \cup {NoId},
             user : Invitees \cup {Unlinked}, status : OrganizerInvitationStatus]
Loads == {"accept", "reject", "update"}

\* A row in hand: the invitee's answer is to an invitation that was pending; the user is the
\* row's, the status too unless another save came in between.
LoadOK(k) ==
    k.op \in Loads =>
        /\ k.id \in rowsUsed
        /\ k.op # "update" => k.status = "pending" /\ k.user # Unlinked
        /\ k.op = "update" /\ k.status = "accepted" /\ k.user # Unlinked => k.id \in accepted
        /\ k.id \in DOMAIN team =>
            team[k.id].user = k.user /\ (k.id \notin spanned => team[k.id].status = k.status)

\* Who is about to be invited, or to follow, has no row yet that nobody raced for.
InviteOK(k) ==
    k.op = "insert" /\ k.user # Unlinked =>
        k.status = "pending" /\ (k.user \notin invitedTwice => RowOf(k.user) \subseteq spanned)
FollowOK(k) ==
    k.op = "follow" => k.user \in Invitees /\ (k.user \notin invitedTwice => FollowsOf(k.id, k.user) = {})

DutyOK(k) == LoadOK(k) /\ InviteOK(k) /\ FollowOK(k)

SameUser == \A r, q \in TeamCalls :
    teaming[r].op \in Loads /\ teaming[q].op \in Loads /\ teaming[r].id = teaming[q].id
    => teaming[r].user = teaming[q].user

OneRowEach == \A u \in Invitees \ invitedTwice : \A i, j \in RowOf(u) \ spanned : i = j
OneFollowEach == \A u \in Invitees \ invitedTwice, i \in DOMAIN team : \A f, g \in FollowsOf(i, u) : f = g

TeamShapes ==
    /\ DOMAIN team \subseteq rowsUsed /\ rowsUsed \subseteq OrganizerIds
    /\ \A i \in DOMAIN team : team[i] \in Organizer
    /\ DOMAIN follows \subseteq followsUsed /\ followsUsed \subseteq FollowIds
    /\ \A f \in DOMAIN follows : follows[f] \in [row : DOMAIN team, user : Invitees]
    /\ accepted \subseteq OrganizerIds /\ spanned \subseteq OrganizerIds /\ invitedTwice \subseteq Invitees

TeamInv ==
    /\ TeamShapes /\ teaming \in [TeamCalls -> TeamCall]
    /\ \A r \in TeamCalls, k \in TeamCall : teaming[r] = k => DutyOK(k)
    /\ SameUser /\ ListedByInvitee /\ OneRowEach /\ OneFollowEach

\* Request r now does k.
Serves(r, k) ==
    teaming' \in [TeamCalls -> TeamCall] /\ \A q \in TeamCalls : teaming'[q] = IF q = r THEN k ELSE teaming[q]

\* A request that has loaded nothing.
LEMMA UnloadedOK == Unloaded \in TeamCall /\ Unloaded.op = "none" /\ DutyOK(Unloaded)
BY DEF Unloaded, TeamCall, OrganizerInvitationStatus, DutyOK, LoadOK, InviteOK, FollowOK, Loads

\* At first there is no team.
LEMMA TeamInitOK == TeamInit => TeamInv
<1> SUFFICES ASSUME TeamInit PROVE TeamInv
  OBVIOUS
<1>1. teaming \in [TeamCalls -> TeamCall] /\ \A r \in TeamCalls, k \in TeamCall : teaming[r] = k => DutyOK(k)
  BY UnloadedOK DEF TeamInit
<1>2. TeamShapes
  BY DEF TeamInit, TeamShapes
<1>3. SameUser
  BY DEF TeamInit, SameUser, Unloaded, Loads
<1>4. ListedByInvitee /\ OneRowEach /\ OneFollowEach
  BY DEF TeamInit, ListedByInvitee, list, OneRowEach, OneFollowEach, RowOf
<1> QED BY <1>1, <1>2, <1>3, <1>4 DEF TeamInv

\* A request begins.
LEMMA BeginServes ==
    ASSUME teaming \in [TeamCalls -> TeamCall], NEW r \in TeamCalls,
           NEW k \in TeamCall, teaming' = [teaming EXCEPT ![r] = k]
    PROVE  Serves(r, k)
BY DEF Serves

\* A request takes a row in hand, or is about to insert one; or answers.
LEMMA TeamBegins ==
    ASSUME TeamInv, NEW r \in TeamCalls, NEW k \in TeamCall, Serves(r, k), DutyOK(k),
           k.op \in Loads => k.id \in DOMAIN team,
           UNCHANGED <<team, follows, accepted, spanned, invitedTwice, rowsUsed, followsUsed>>
    PROVE  TeamInv'
<1>1. \A q \in TeamCalls, m \in TeamCall : teaming'[q] = m => DutyOK(m)'
  <2> SUFFICES ASSUME NEW q \in TeamCalls, NEW m \in TeamCall, teaming'[q] = m PROVE DutyOK(m)'
    OBVIOUS
  <2>1. DutyOK(m)
    BY DEF TeamInv, Serves
  <2> QED BY <2>1 DEF DutyOK, LoadOK, InviteOK, FollowOK, RowOf, FollowsOf
<1>2. SameUser'
  <2>1. ASSUME NEW q \in TeamCalls, teaming[q].op \in Loads, k.op \in Loads, teaming[q].id = k.id
        PROVE  teaming[q].user = k.user
    <3>1. teaming[q] \in TeamCall /\ LoadOK(teaming[q]) /\ LoadOK(k)
      BY DEF TeamInv, DutyOK
    <3> QED BY <2>1, <3>1 DEF LoadOK
  <2> QED BY <2>1 DEF SameUser, TeamInv, Serves
<1>3. TeamShapes' /\ ListedByInvitee' /\ OneRowEach' /\ OneFollowEach'
  BY DEF TeamInv, TeamShapes, ListedByInvitee, list, OneRowEach, OneFollowEach, RowOf, FollowsOf
<1> QED BY <1>1, <1>2, <1>3 DEF TeamInv, Serves

\* An invitation, or a name the creator typed, gets a row of its own.
LEMMA InsertOrganizerOK ==
    ASSUME TeamInv, NEW r \in TeamCalls, InsertOrganizer(r) PROVE TeamInv' /\ FirstAnswerStands
<1>1. PICK i \in OrganizerIds \ rowsUsed :
        /\ teaming[r].op = "insert"
        /\ team' = With(team, i, [user |-> teaming[r].user, status |-> teaming[r].status])
        /\ rowsUsed' = rowsUsed \cup {i} /\ Respond(r)
        /\ invitedTwice' = invitedTwice \cup
              {u \in Invitees : u = teaming[r].user /\ \E q \in TeamCalls \ {r} : teaming[q].op = "insert" /\ teaming[q].user = u}
        /\ UNCHANGED <<follows, accepted, spanned, followsUsed>>
  BY DEF InsertOrganizer
<1>2. PICK t \in TeamCall : t = teaming[r] /\ t.op = "insert" /\ DutyOK(t)
  BY <1>1 DEF TeamInv
<1>3. Serves(r, Unloaded)
  BY <1>1, UnloadedOK, BeginServes DEF Respond, TeamInv
<1>4. /\ DOMAIN team' = DOMAIN team \cup {i} /\ i \notin DOMAIN team
      /\ \A j \in DOMAIN team : team'[j] = team[j]
      /\ team'[i] = [user |-> t.user, status |-> t.status]
      /\ team'[i] \in Organizer /\ team'[i].user = t.user /\ team'[i].status = t.status
  BY <1>1, <1>2 DEF With, TeamInv, TeamShapes, TeamCall, Organizer
<1>5. \A u : u # t.user => RowOf(u)' = RowOf(u)
  BY <1>4 DEF RowOf
<1>6. RowOf(t.user)' = RowOf(t.user) \cup {i}
  BY <1>4 DEF RowOf
<1>7. \A q \in TeamCalls, k \in TeamCall : teaming'[q] = k => DutyOK(k)'
  <2> SUFFICES ASSUME NEW q \in TeamCalls, NEW k \in TeamCall, teaming'[q] = k PROVE DutyOK(k)'
    OBVIOUS
  <2>1. DutyOK(k) /\ (k.op = "insert" => q # r /\ teaming[q] = k)
    BY <1>3, UnloadedOK DEF TeamInv, Serves
  <2>2. LoadOK(k)'
    BY <1>1, <1>4, <2>1 DEF DutyOK, LoadOK
  <2>3. InviteOK(k)'
    <3> SUFFICES ASSUME k.op = "insert", k.user # Unlinked
                 PROVE  k.status = "pending" /\ (k.user \notin invitedTwice' => RowOf(k.user)' \subseteq spanned')
      BY DEF InviteOK, RowOf
    <3>1. k.status = "pending" /\ (k.user \notin invitedTwice => RowOf(k.user) \subseteq spanned)
      BY <2>1 DEF DutyOK, InviteOK
    <3>2. CASE k.user = t.user
      <4>1. k.user \in Invitees
        BY DEF TeamCall
      <4>2. k.user \in invitedTwice'
        BY <1>1, <1>2, <2>1, <3>2, <4>1
      <4> QED BY <3>1, <4>2
    <3>3. CASE k.user # t.user
      <4>1. RowOf(k.user)' = RowOf(k.user)
        BY <1>5, <3>3
      <4> QED BY <1>1, <3>1, <4>1
    <3> QED BY <3>2, <3>3
  <2>4. FollowOK(k)'
    BY <1>1, <2>1 DEF DutyOK, FollowOK, FollowsOf
  <2> QED BY <2>2, <2>3, <2>4 DEF DutyOK
<1>8. SameUser'
  BY <1>3, UnloadedOK DEF SameUser, TeamInv, Serves, Loads
<1>9. ListedByInvitee'
  <2>1. t.user # Unlinked => t.status = "pending"
    BY <1>2 DEF DutyOK, InviteOK
  <2> QED BY <1>1, <1>4, <2>1 DEF TeamInv, ListedByInvitee, list
<1>10. OneRowEach'
  <2> SUFFICES ASSUME NEW u \in Invitees, u \notin invitedTwice', NEW j \in RowOf(u)' \ spanned', NEW l \in RowOf(u)' \ spanned'
               PROVE  j = l
    BY DEF OneRowEach, RowOf
  <2>1. u \notin invitedTwice /\ spanned' = spanned
    BY <1>1
  <2>2. CASE u = t.user
    <3>1. t.user # Unlinked
      BY <2>2, InviteesAssumption
    <3>2. RowOf(u) \subseteq spanned
      BY <1>2, <2>1, <2>2, <3>1 DEF DutyOK, InviteOK
    <3> QED BY <1>6, <2>1, <2>2, <3>2
  <2>3. CASE u # t.user
    <3>1. RowOf(u)' = RowOf(u)
      BY <1>5, <2>3
    <3> QED BY <2>1, <3>1 DEF TeamInv, OneRowEach
  <2> QED BY <2>2, <2>3
<1>11. OneFollowEach'
  <2> SUFFICES ASSUME NEW u \in Invitees, u \notin invitedTwice', NEW j \in DOMAIN team',
                      NEW f \in FollowsOf(j, u)', NEW g \in FollowsOf(j, u)'
               PROVE  f = g
    BY DEF OneFollowEach, FollowsOf
  <2>1. u \notin invitedTwice /\ FollowsOf(j, u)' = FollowsOf(j, u)
    BY <1>1 DEF FollowsOf
  <2>2. j \in DOMAIN team
    BY <1>4, <2>1 DEF FollowsOf, TeamInv, TeamShapes
  <2> QED BY <2>1, <2>2 DEF TeamInv, OneFollowEach
<1>12. TeamShapes'
  <2>1. invitedTwice' \subseteq Invitees
    BY <1>1 DEF TeamInv, TeamShapes
  <2>2. \A f \in DOMAIN follows' : follows'[f] \in [row : DOMAIN team', user : Invitees]
    BY <1>1, <1>4 DEF TeamInv, TeamShapes
  <2> QED BY <1>1, <1>4, <2>1, <2>2 DEF TeamInv, TeamShapes
<1>13. FirstAnswerStands
  BY <1>4 DEF FirstAnswerStands
<1> QED BY <1>3, <1>7, <1>8, <1>9, <1>10, <1>11, <1>12, <1>13 DEF TeamInv, Serves

\* The row in hand is saved: it is the one there was, unless it had gone or was saved twice.
LEMMA SaveOrganizerOK ==
    ASSUME TeamInv, NEW r \in TeamCalls, SaveOrganizer(r) PROVE TeamInv' /\ FirstAnswerStands
<1>1. PICK t \in TeamCall : t = teaming[r] /\ t.op \in Loads /\ DutyOK(t)
  BY DEF SaveOrganizer, TeamInv, Loads
<1> DEFINE i == t.id
           others == \E q \in TeamCalls \ {r} : teaming[q].op \in Loads /\ teaming[q].id = i
           status == CASE t.op = "accept" -> "accepted"
                       [] t.op = "reject" -> "rejected"
                       [] t.op = "update" -> t.status
<1>2. /\ team' = With(team, i, [user |-> t.user, status |-> status])
      /\ accepted' = (IF t.op = "accept" THEN accepted \cup {i} ELSE accepted)
      /\ spanned' = (IF i \notin DOMAIN team \/ others THEN spanned \cup {i} ELSE spanned)
      /\ Respond(r) /\ UNCHANGED <<follows, invitedTwice, rowsUsed, followsUsed>>
  BY <1>1 DEF SaveOrganizer, Loads
<1>3. Serves(r, Unloaded)
  BY <1>2, UnloadedOK, BeginServes DEF Respond, TeamInv
<1>4. /\ i \in rowsUsed /\ i \in OrganizerIds
      /\ t.op # "update" => t.status = "pending" /\ t.user # Unlinked
      /\ t.op = "update" /\ t.status = "accepted" /\ t.user # Unlinked => i \in accepted
      /\ i \in DOMAIN team => team[i].user = t.user /\ (i \notin spanned => team[i].status = t.status)
  BY <1>1 DEF DutyOK, LoadOK, TeamInv, TeamShapes
<1>5. /\ status \in OrganizerInvitationStatus
      /\ t.op = "update" => status = t.status
      /\ status = "accepted" => t.op = "accept" \/ (t.op = "update" /\ t.status = "accepted")
  BY <1>1 DEF Loads, TeamCall, OrganizerInvitationStatus
<1> HIDE DEF status, i
<1>6. /\ DOMAIN team' = DOMAIN team \cup {i}
      /\ \A j \in DOMAIN team : j # i => team'[j] = team[j]
      /\ team'[i] = [user |-> t.user, status |-> status]
      /\ team'[i] \in Organizer /\ team'[i].user = t.user /\ team'[i].status = status
      /\ i \in DOMAIN team => team[i].user = t.user
  BY <1>1, <1>2, <1>4, <1>5 DEF With, TeamInv, TeamShapes, TeamCall, Organizer
<1>7. /\ spanned \subseteq spanned' /\ accepted \subseteq accepted' /\ spanned' \subseteq OrganizerIds
      /\ accepted' \subseteq OrganizerIds /\ (i \notin DOMAIN team => i \in spanned')
  BY <1>2, <1>4 DEF TeamInv, TeamShapes
<1>8. \A u : RowOf(u)' \ spanned' \subseteq RowOf(u) \ spanned /\ (RowOf(u) \subseteq spanned => RowOf(u)' \subseteq spanned')
  BY <1>6, <1>7 DEF RowOf
<1>9. \A q \in TeamCalls, k \in TeamCall : teaming'[q] = k => DutyOK(k)'
  <2> SUFFICES ASSUME NEW q \in TeamCalls, NEW k \in TeamCall, teaming'[q] = k PROVE DutyOK(k)'
    OBVIOUS
  <2>1. DutyOK(k) /\ (k.op # "none" => q # r /\ teaming[q] = k)
    BY <1>3, UnloadedOK DEF TeamInv, Serves
  <2>2. LoadOK(k)'
    <3> SUFFICES ASSUME k.op \in Loads PROVE LoadOK(k)'
      BY DEF LoadOK
    <3>1. LoadOK(k) /\ q # r /\ teaming[q] = k
      BY <2>1 DEF DutyOK, Loads
    <3>2. CASE k.id = i
      <4>1. i \in spanned'
        BY <1>2, <3>1, <3>2
      <4>2. k.user = t.user
        BY <1>1, <3>1, <3>2 DEF TeamInv, SameUser, i
      <4> QED BY <1>2, <1>6, <1>7, <3>1, <3>2, <4>1, <4>2 DEF LoadOK
    <3>3. CASE k.id # i
      BY <1>2, <1>6, <1>7, <3>1, <3>3 DEF LoadOK
    <3> QED BY <3>2, <3>3
  <2>3. InviteOK(k)'
    <3>1. k.user \notin invitedTwice /\ RowOf(k.user) \subseteq spanned => RowOf(k.user)' \subseteq spanned'
      BY <1>8
    <3> QED BY <1>2, <2>1, <3>1 DEF DutyOK, InviteOK, RowOf
  <2>4. FollowOK(k)'
    BY <1>2, <2>1 DEF DutyOK, FollowOK, FollowsOf
  <2> QED BY <2>2, <2>3, <2>4 DEF DutyOK
<1>10. SameUser'
  BY <1>3, UnloadedOK DEF SameUser, TeamInv, Serves, Loads
<1>11. ListedByInvitee'
  <2> SUFFICES ASSUME NEW j \in DOMAIN team', team'[j].status = "accepted", team'[j].user # Unlinked PROVE j \in accepted'
    BY DEF ListedByInvitee, list
  <2>1. CASE j = i
    BY <1>2, <1>4, <1>5, <1>6, <1>7, <2>1
  <2>2. CASE j # i
    BY <1>6, <1>7, <2>2 DEF TeamInv, ListedByInvitee, list
  <2> QED BY <2>1, <2>2
<1>12. OneRowEach'
  <2> SUFFICES ASSUME NEW u \in Invitees, u \notin invitedTwice', NEW j \in RowOf(u)' \ spanned', NEW l \in RowOf(u)' \ spanned'
               PROVE  j = l
    BY DEF OneRowEach, RowOf
  <2>1. j \in RowOf(u) \ spanned /\ l \in RowOf(u) \ spanned /\ u \notin invitedTwice
    BY <1>2, <1>8
  <2> QED BY <2>1 DEF TeamInv, OneRowEach
<1>13. OneFollowEach'
  <2> SUFFICES ASSUME NEW u \in Invitees, u \notin invitedTwice', NEW j \in DOMAIN team',
                      NEW f \in FollowsOf(j, u)', NEW g \in FollowsOf(j, u)'
               PROVE  f = g
    BY DEF OneFollowEach, FollowsOf
  <2>1. u \notin invitedTwice /\ FollowsOf(j, u)' = FollowsOf(j, u)
    BY <1>2 DEF FollowsOf
  <2>2. j \in DOMAIN team
    BY <2>1 DEF FollowsOf, TeamInv, TeamShapes
  <2> QED BY <2>1, <2>2 DEF TeamInv, OneFollowEach
<1>14. TeamShapes'
  <2>1. \A f \in DOMAIN follows' : follows'[f] \in [row : DOMAIN team', user : Invitees]
    BY <1>2, <1>6 DEF TeamInv, TeamShapes
  <2>2. \A j \in DOMAIN team' : team'[j] \in Organizer
    BY <1>6 DEF TeamInv, TeamShapes
  <2> QED BY <1>2, <1>4, <1>6, <1>7, <2>1, <2>2 DEF TeamInv, TeamShapes
<1>15. FirstAnswerStands
  <2> SUFFICES ASSUME NEW j \in DOMAIN team \cap DOMAIN team', team[j].status # "pending",
                      team'[j].status # team[j].status
               PROVE  j \in spanned
    BY DEF FirstAnswerStands
  <2>1. j = i
    BY <1>6
  <2> QED BY <1>1, <1>4, <1>5, <1>6, <2>1 DEF Loads
<1> QED BY <1>3, <1>9, <1>10, <1>11, <1>12, <1>13, <1>14, <1>15 DEF TeamInv, Serves

\* A row goes with its followers; what the requests have in hand stays theirs.
LEMMA RemoveOK ==
    ASSUME TeamInv, NEW i \in DOMAIN team, remove(i) PROVE TeamInv' /\ FirstAnswerStands
<1>1. /\ team' = Without(team, {i})
      /\ follows' = Without(follows, {f \in DOMAIN follows : follows[f].row = i})
      /\ UNCHANGED <<teaming, accepted, spanned, invitedTwice, rowsUsed, followsUsed>>
  BY DEF remove
<1>2. DOMAIN team' = DOMAIN team \ {i} /\ \A j \in DOMAIN team' : team'[j] = team[j]
  BY <1>1 DEF Without
<1>3. /\ DOMAIN follows' = {f \in DOMAIN follows : follows[f].row # i}
      /\ \A f \in DOMAIN follows' : follows'[f] = follows[f]
  BY <1>1 DEF Without
<1>4. \A u : RowOf(u)' \subseteq RowOf(u)
  BY <1>2 DEF RowOf
<1>5. \A j, u : FollowsOf(j, u)' \subseteq FollowsOf(j, u)
  BY <1>3 DEF FollowsOf
<1>6. \A q \in TeamCalls, k \in TeamCall : teaming'[q] = k => DutyOK(k)'
  <2> SUFFICES ASSUME NEW q \in TeamCalls, NEW k \in TeamCall, teaming'[q] = k PROVE DutyOK(k)'
    OBVIOUS
  <2>1. DutyOK(k)
    BY <1>1 DEF TeamInv
  <2>2. LoadOK(k)'
    BY <1>1, <1>2, <2>1 DEF DutyOK, LoadOK
  <2>3. InviteOK(k)'
    <3>1. RowOf(k.user)' \subseteq RowOf(k.user)
      BY <1>4
    <3> QED BY <1>1, <2>1, <3>1 DEF DutyOK, InviteOK, RowOf
  <2>4. FollowOK(k)'
    <3>1. FollowsOf(k.id, k.user)' \subseteq FollowsOf(k.id, k.user)
      BY <1>5
    <3> QED BY <1>1, <2>1, <3>1 DEF DutyOK, FollowOK, FollowsOf
  <2> QED BY <2>2, <2>3, <2>4 DEF DutyOK
<1>7. SameUser' /\ ListedByInvitee'
  BY <1>1, <1>2 DEF TeamInv, SameUser, ListedByInvitee, list
<1>8. OneRowEach'
  <2> SUFFICES ASSUME NEW u \in Invitees, u \notin invitedTwice', NEW j \in RowOf(u)' \ spanned', NEW l \in RowOf(u)' \ spanned'
               PROVE  j = l
    BY DEF OneRowEach, RowOf
  <2> QED BY <1>1, <1>4 DEF TeamInv, OneRowEach
<1>9. OneFollowEach'
  <2> SUFFICES ASSUME NEW u \in Invitees, u \notin invitedTwice', NEW j \in DOMAIN team',
                      NEW f \in FollowsOf(j, u)', NEW g \in FollowsOf(j, u)'
               PROVE  f = g
    BY DEF OneFollowEach, FollowsOf
  <2> QED BY <1>1, <1>2, <1>5 DEF TeamInv, OneFollowEach
<1>10. TeamShapes'
  <2>1. \A f \in DOMAIN follows' : follows'[f] \in [row : DOMAIN team', user : Invitees]
    <3> SUFFICES ASSUME NEW f \in DOMAIN follows' PROVE follows'[f] \in [row : DOMAIN team', user : Invitees]
      OBVIOUS
    <3>1. follows[f] \in [row : DOMAIN team, user : Invitees] /\ follows[f].row # i /\ follows'[f] = follows[f]
      BY <1>3 DEF TeamInv, TeamShapes
    <3> QED BY <1>2, <3>1
  <2> QED BY <1>1, <1>2, <1>3, <2>1 DEF TeamInv, TeamShapes
<1>11. FirstAnswerStands
  BY <1>2 DEF FirstAnswerStands
<1> QED BY <1>1, <1>6, <1>7, <1>8, <1>9, <1>10, <1>11 DEF TeamInv

\* A follow is one row more, and the second one only of a request that raced.
LEMMA InsertFollowOK ==
    ASSUME TeamInv, NEW r \in TeamCalls, InsertFollow(r) PROVE TeamInv'
<1>1. PICK t \in TeamCall : t = teaming[r] /\ t.op = "follow" /\ DutyOK(t)
  BY DEF InsertFollow, TeamInv
<1>2. /\ Respond(r) /\ UNCHANGED <<team, accepted, spanned, rowsUsed>>
      /\ invitedTwice' = invitedTwice \cup
          {u \in {t.user} : \E q \in TeamCalls \ {r} : teaming[q].op = "follow" /\ teaming[q].user = u}
  BY <1>1 DEF InsertFollow
<1>3. Serves(r, Unloaded)
  BY <1>2, UnloadedOK, BeginServes DEF Respond, TeamInv
<1>4. t.user \in Invitees /\ (t.user \notin invitedTwice => FollowsOf(t.id, t.user) = {})
  BY <1>1 DEF DutyOK, FollowOK
<1>5. /\ DOMAIN follows' \subseteq followsUsed' /\ followsUsed' \subseteq FollowIds
      /\ \A f \in DOMAIN follows' : follows'[f] \in [row : DOMAIN team', user : Invitees]
      /\ \A j, u : j # t.id \/ u # t.user => FollowsOf(j, u)' = FollowsOf(j, u)
      /\ \E f : FollowsOf(t.id, t.user)' \subseteq FollowsOf(t.id, t.user) \cup {f}
  <2>1. CASE UNCHANGED <<follows, followsUsed>>
    BY <1>2, <2>1 DEF FollowsOf, TeamInv, TeamShapes
  <2>2. CASE \E f \in FollowIds \ followsUsed :
            /\ t.id \in DOMAIN team
            /\ follows' = With(follows, f, [row |-> t.id, user |-> t.user])
            /\ followsUsed' = followsUsed \cup {f}
    <3>1. PICK f \in FollowIds \ followsUsed :
            /\ t.id \in DOMAIN team
            /\ follows' = With(follows, f, [row |-> t.id, user |-> t.user])
            /\ followsUsed' = followsUsed \cup {f}
      BY <2>2
    <3>2. /\ DOMAIN follows' = DOMAIN follows \cup {f} /\ f \notin DOMAIN follows
          /\ \A g \in DOMAIN follows : follows'[g] = follows[g]
          /\ follows'[f] = [row |-> t.id, user |-> t.user]
      BY <3>1 DEF With, TeamInv, TeamShapes
    <3>3. \A j, u : FollowsOf(j, u)' \subseteq FollowsOf(j, u) \cup {f}
      BY <3>2 DEF FollowsOf
    <3>4. \A j, u : j # t.id \/ u # t.user => FollowsOf(j, u)' = FollowsOf(j, u)
      BY <3>2 DEF FollowsOf
    <3>5. \A g \in DOMAIN follows' : follows'[g] \in [row : DOMAIN team', user : Invitees]
      BY <1>2, <1>4, <3>1, <3>2 DEF TeamInv, TeamShapes
    <3>6. DOMAIN follows' \subseteq followsUsed' /\ followsUsed' \subseteq FollowIds
      BY <3>1, <3>2 DEF TeamInv, TeamShapes
    <3> QED BY <3>3, <3>4, <3>5, <3>6
  <2> QED BY <1>1, <2>1, <2>2 DEF InsertFollow
<1>6. invitedTwice \subseteq invitedTwice' /\ invitedTwice' \subseteq Invitees
  BY <1>2, <1>4 DEF TeamInv, TeamShapes
<1>7. \A q \in TeamCalls, k \in TeamCall : teaming'[q] = k => DutyOK(k)'
  <2> SUFFICES ASSUME NEW q \in TeamCalls, NEW k \in TeamCall, teaming'[q] = k PROVE DutyOK(k)'
    OBVIOUS
  <2>1. DutyOK(k) /\ (k.op # "none" => q # r /\ teaming[q] = k)
    BY <1>3, UnloadedOK DEF TeamInv, Serves
  <2>2. LoadOK(k)'
    BY <1>2, <2>1 DEF DutyOK, LoadOK
  <2>3. InviteOK(k)'
    BY <1>2, <1>6, <2>1 DEF DutyOK, InviteOK, RowOf
  <2>4. FollowOK(k)'
    <3> SUFFICES ASSUME k.op = "follow"
                 PROVE  k.user \in Invitees /\ (k.user \notin invitedTwice' => FollowsOf(k.id, k.user)' = {})
      BY DEF FollowOK, FollowsOf
    <3>1. k.user \in Invitees /\ (k.user \notin invitedTwice => FollowsOf(k.id, k.user) = {})
      BY <2>1 DEF DutyOK, FollowOK
    <3>2. CASE k.user = t.user
      <4>1. k.user \in invitedTwice'
        BY <1>2, <2>1, <3>2
      <4> QED BY <3>1, <4>1
    <3>3. CASE k.user # t.user
      <4>1. FollowsOf(k.id, k.user)' = FollowsOf(k.id, k.user)
        BY <1>5, <3>3
      <4> QED BY <1>6, <3>1, <4>1
    <3> QED BY <3>2, <3>3
  <2> QED BY <2>2, <2>3, <2>4 DEF DutyOK
<1>8. SameUser'
  BY <1>3, UnloadedOK DEF SameUser, TeamInv, Serves, Loads
<1>9. ListedByInvitee' /\ OneRowEach'
  BY <1>2, <1>6 DEF TeamInv, ListedByInvitee, list, OneRowEach, RowOf
<1>10. OneFollowEach'
  <2> SUFFICES ASSUME NEW u \in Invitees, u \notin invitedTwice', NEW j \in DOMAIN team',
                      NEW f \in FollowsOf(j, u)', NEW g \in FollowsOf(j, u)'
               PROVE  f = g
    BY DEF OneFollowEach, FollowsOf
  <2>1. CASE j = t.id /\ u = t.user
    <3>1. FollowsOf(j, u) = {}
      BY <1>4, <1>6, <2>1
    <3>2. PICK h : FollowsOf(t.id, t.user)' \subseteq FollowsOf(t.id, t.user) \cup {h}
      BY <1>5
    <3> QED BY <2>1, <3>1, <3>2
  <2>2. CASE j # t.id \/ u # t.user
    <3>1. FollowsOf(j, u)' = FollowsOf(j, u)
      BY <1>5, <2>2
    <3> QED BY <1>2, <1>6, <3>1 DEF TeamInv, OneFollowEach
  <2> QED BY <2>1, <2>2
<1>11. TeamShapes'
  BY <1>2, <1>5, <1>6 DEF TeamInv, TeamShapes
<1> QED BY <1>3, <1>7, <1>8, <1>9, <1>10, <1>11 DEF TeamInv, Serves

\* A follow that is removed leaves the others.
LEMMA RemoveFollowOK ==
    ASSUME TeamInv, NEW r \in TeamCalls, RemoveFollow(r) PROVE TeamInv'
<1>1. /\ follows' = Without(follows, {teaming[r].id}) /\ Respond(r)
      /\ UNCHANGED <<team, accepted, spanned, invitedTwice, rowsUsed, followsUsed>>
  BY DEF RemoveFollow
<1>2. Serves(r, Unloaded)
  BY <1>1, UnloadedOK, BeginServes DEF Respond, TeamInv
<1>3. DOMAIN follows' \subseteq DOMAIN follows /\ \A f \in DOMAIN follows' : follows'[f] = follows[f]
  BY <1>1 DEF Without
<1>4. \A j, u : FollowsOf(j, u)' \subseteq FollowsOf(j, u)
  BY <1>3 DEF FollowsOf
<1>5. \A q \in TeamCalls, k \in TeamCall : teaming'[q] = k => DutyOK(k)'
  <2> SUFFICES ASSUME NEW q \in TeamCalls, NEW k \in TeamCall, teaming'[q] = k PROVE DutyOK(k)'
    OBVIOUS
  <2>1. DutyOK(k)
    BY <1>2, UnloadedOK DEF TeamInv, Serves
  <2>2. LoadOK(k)' /\ InviteOK(k)'
    BY <1>1, <2>1 DEF DutyOK, LoadOK, InviteOK, RowOf
  <2>3. FollowOK(k)'
    <3>1. FollowsOf(k.id, k.user)' \subseteq FollowsOf(k.id, k.user)
      BY <1>4
    <3> QED BY <1>1, <2>1, <3>1 DEF DutyOK, FollowOK, FollowsOf
  <2> QED BY <2>2, <2>3 DEF DutyOK
<1>6. SameUser'
  BY <1>2, UnloadedOK DEF SameUser, TeamInv, Serves, Loads
<1>7. ListedByInvitee' /\ OneRowEach'
  BY <1>1 DEF TeamInv, ListedByInvitee, list, OneRowEach, RowOf
<1>8. OneFollowEach'
  <2> SUFFICES ASSUME NEW u \in Invitees, u \notin invitedTwice', NEW j \in DOMAIN team',
                      NEW f \in FollowsOf(j, u)', NEW g \in FollowsOf(j, u)'
               PROVE  f = g
    BY DEF OneFollowEach, FollowsOf
  <2> QED BY <1>1, <1>4 DEF TeamInv, OneFollowEach
<1>9. TeamShapes'
  BY <1>1, <1>3 DEF TeamInv, TeamShapes
<1> QED BY <1>2, <1>5, <1>6, <1>7, <1>8, <1>9 DEF TeamInv, Serves

\* Whatever requests overlap, the team is who agreed, once each, and the first answer stands.
LEMMA TeamStep == TeamInv /\ TeamNext => TeamInv' /\ FirstAnswerStands
<1> SUFFICES ASSUME TeamInv, TeamNext PROVE TeamInv' /\ FirstAnswerStands
  OBVIOUS
<1>0. UNCHANGED team => FirstAnswerStands
  BY DEF FirstAnswerStands
<1>1. ASSUME NEW r \in TeamCalls, NEW u \in Invitees \cup {Unlinked}, createOrganizer(r, u) PROVE TeamInv'
  <2> DEFINE k == [op |-> "insert", id |-> NoId, user |-> u, status |-> IF u = Unlinked THEN "accepted" ELSE "pending"]
  <2>1. k \in TeamCall
    BY DEF TeamCall, OrganizerInvitationStatus
  <2>2. DutyOK(k) /\ ~(k.op \in Loads)
    BY <1>1 DEF createOrganizer, DutyOK, LoadOK, InviteOK, FollowOK, Loads
  <2>3. /\ teaming' = [teaming EXCEPT ![r] = k]
        /\ UNCHANGED <<team, follows, accepted, spanned, invitedTwice, rowsUsed, followsUsed>>
    BY <1>1 DEF createOrganizer, Begin
  <2> HIDE DEF k
  <2>4. Serves(r, k)
    BY <2>1, <2>3, BeginServes DEF TeamInv
  <2> QED BY <2>1, <2>2, <2>3, <2>4, TeamBegins
<1>2. ASSUME NEW r \in TeamCalls, NEW i \in DOMAIN team, NEW op \in Loads, Begin(r, op, i, team[i].user, team[i].status),
             op # "update" => team[i].status = "pending" /\ team[i].user # Unlinked,
             UNCHANGED <<team, follows, accepted, spanned, invitedTwice, rowsUsed, followsUsed>>
      PROVE  TeamInv'
  <2> DEFINE k == [op |-> op, id |-> i, user |-> team[i].user, status |-> team[i].status]
  <2>1. k \in TeamCall /\ i \in rowsUsed
    BY DEF TeamCall, TeamInv, TeamShapes, Organizer, Loads
  <2>2. team[i].status = "accepted" /\ team[i].user # Unlinked => i \in accepted
    BY DEF TeamInv, ListedByInvitee, list
  <2>3. DutyOK(k)
    BY <1>2, <2>1, <2>2 DEF DutyOK, LoadOK, InviteOK, FollowOK, Loads
  <2>4. teaming' = [teaming EXCEPT ![r] = k]
    BY <1>2 DEF Begin
  <2>5. k.id \in DOMAIN team
    OBVIOUS
  <2> HIDE DEF k
  <2>6. Serves(r, k)
    BY <2>1, <2>4, BeginServes DEF TeamInv
  <2> QED BY <1>2, <2>1, <2>3, <2>5, <2>6, TeamBegins
<1>3. ASSUME NEW r \in TeamCalls, NEW i \in OrganizerIds, accept(r, i) \/ reject(r, i) \/ updateOrganizer(r, i)
      PROVE  TeamInv' /\ UNCHANGED team
  <2>1. CASE accept(r, i)
    BY <1>2, <2>1 DEF accept, AnswerInvitation, Loads
  <2>2. CASE reject(r, i)
    BY <1>2, <2>2 DEF reject, AnswerInvitation, Loads
  <2>3. CASE updateOrganizer(r, i)
    BY <1>2, <2>3 DEF updateOrganizer, Loads
  <2> QED BY <1>3, <2>1, <2>2, <2>3
<1>4. ASSUME NEW r \in TeamCalls, NEW i \in OrganizerIds, NEW u \in Invitees, follow(r, i, u) PROVE TeamInv'
  <2> DEFINE k == [op |-> "follow", id |-> i, user |-> u, status |-> "pending"]
  <2>1. k \in TeamCall
    BY DEF TeamCall, OrganizerInvitationStatus
  <2>2. DutyOK(k) /\ ~(k.op \in Loads)
    BY <1>4 DEF follow, DutyOK, LoadOK, InviteOK, FollowOK, Loads
  <2>3. /\ teaming' = [teaming EXCEPT ![r] = k]
        /\ UNCHANGED <<team, follows, accepted, spanned, invitedTwice, rowsUsed, followsUsed>>
    BY <1>4 DEF follow, Begin
  <2> HIDE DEF k
  <2>4. Serves(r, k)
    BY <2>1, <2>3, BeginServes DEF TeamInv
  <2> QED BY <2>1, <2>2, <2>3, <2>4, TeamBegins
<1>5. ASSUME NEW r \in TeamCalls, NEW i \in OrganizerIds, NEW u \in Invitees, unfollow(r, i, u) PROVE TeamInv'
  <2>1. PICK f \in FollowsOf(i, u) : Begin(r, "unfollow", f, u, "pending")
    BY <1>5 DEF unfollow
  <2> DEFINE k == [op |-> "unfollow", id |-> f, user |-> u, status |-> "pending"]
  <2>2. k \in TeamCall
    BY DEF TeamCall, OrganizerInvitationStatus, FollowsOf, TeamInv, TeamShapes
  <2>3. DutyOK(k) /\ ~(k.op \in Loads)
    BY DEF DutyOK, LoadOK, InviteOK, FollowOK, Loads
  <2>4. /\ teaming' = [teaming EXCEPT ![r] = k]
        /\ UNCHANGED <<team, follows, accepted, spanned, invitedTwice, rowsUsed, followsUsed>>
    BY <1>5, <2>1 DEF unfollow, Begin
  <2> HIDE DEF k
  <2>5. Serves(r, k)
    BY <2>2, <2>4, BeginServes DEF TeamInv
  <2> QED BY <2>2, <2>3, <2>4, <2>5, TeamBegins
<1>6. ASSUME NEW r \in TeamCalls, InsertFollow(r) \/ RemoveFollow(r) PROVE TeamInv' /\ UNCHANGED team
  BY <1>6, InsertFollowOK, RemoveFollowOK DEF InsertFollow, RemoveFollow
<1>7. ASSUME NEW i \in OrganizerIds, remove(i) PROVE TeamInv' /\ FirstAnswerStands
  BY <1>7, RemoveOK DEF remove
<1>8. ASSUME NEW r \in TeamCalls, InsertOrganizer(r) \/ SaveOrganizer(r) PROVE TeamInv' /\ FirstAnswerStands
  BY <1>8, InsertOrganizerOK, SaveOrganizerOK
<1>9. ASSUME NEW r \in TeamCalls, NEW u \in Invitees \cup {Unlinked}, createOrganizer(r, u) PROVE UNCHANGED team
  BY <1>9 DEF createOrganizer
<1>10. ASSUME NEW r \in TeamCalls, NEW i \in OrganizerIds, NEW u \in Invitees, follow(r, i, u) \/ unfollow(r, i, u)
       PROVE  UNCHANGED team
  BY <1>10 DEF follow, unfollow
<1> QED BY <1>0, <1>1, <1>3, <1>4, <1>5, <1>6, <1>7, <1>8, <1>9, <1>10 DEF TeamNext

\* The invariant speaks of the team alone.
LEMMA TeamStays == TeamInv /\ UNCHANGED teamVars => TeamInv' /\ FirstAnswerStands
<1> SUFFICES ASSUME TeamInv, UNCHANGED teamVars PROVE TeamInv' /\ FirstAnswerStands
  OBVIOUS
<1>1. \A q \in TeamCalls, k \in TeamCall : teaming'[q] = k => DutyOK(k)'
  <2> SUFFICES ASSUME NEW q \in TeamCalls, NEW k \in TeamCall, teaming'[q] = k PROVE DutyOK(k)'
    OBVIOUS
  <2>1. DutyOK(k)
    BY DEF teamVars, TeamInv
  <2> QED BY <2>1 DEF teamVars, DutyOK, LoadOK, InviteOK, FollowOK, RowOf, FollowsOf
<1>2. TeamShapes' /\ SameUser' /\ ListedByInvitee' /\ OneRowEach' /\ OneFollowEach' /\ FirstAnswerStands
  BY DEF teamVars, TeamInv, TeamShapes, SameUser, ListedByInvitee, list, OneRowEach, OneFollowEach, RowOf, FollowsOf,
         FirstAnswerStands
<1> QED BY <1>1, <1>2 DEF teamVars, TeamInv

\* A set all of whose elements are one counts at most one.
LEMMA AtMostOneCounts ==
    ASSUME NEW S, \A x, y \in S : x = y PROVE ~(Cardinality(S) > 1)
<1>1. CASE S = {}
  <2>1. Cardinality({}) = 0
    BY FS_EmptySet
  <2> QED BY <1>1, <2>1
<1>2. CASE S # {}
  <2>1. PICK x \in S : TRUE
    BY <1>2
  <2>2. S = {x}
    BY <2>1
  <2>3. Cardinality({x}) = 1
    BY FS_Singleton
  <2> QED BY <2>2, <2>3
<1> QED BY <1>1, <1>2

\* What the run checks of the team follows.
LEMMA TeamHolds == TeamInv => TeamTypeOK /\ InvitedOnce /\ FollowedOnce /\ ListedByInvitee
<1> SUFFICES ASSUME TeamInv PROVE TeamTypeOK /\ InvitedOnce /\ FollowedOnce
  BY DEF TeamInv
<1>1. TeamTypeOK
  BY DEF TeamInv, TeamShapes, TeamTypeOK, TeamCall
<1>2. InvitedOnce
  <2> SUFFICES ASSUME NEW u \in Invitees, u \notin invitedTwice, RowOf(u) \cap spanned = {}
               PROVE  ~(Cardinality(RowOf(u)) > 1)
    BY DEF InvitedOnce
  <2>1. \A i, j \in RowOf(u) : i = j
    BY DEF TeamInv, OneRowEach
  <2> QED BY <2>1, AtMostOneCounts
<1>3. FollowedOnce
  <2> SUFFICES ASSUME NEW i \in DOMAIN team, NEW u \in Invitees, u \notin invitedTwice
               PROVE  ~(Cardinality(FollowsOf(i, u)) > 1)
    BY DEF FollowedOnce
  <2>1. \A f, g \in FollowsOf(i, u) : f = g
    BY DEF TeamInv, OneFollowEach
  <2> QED BY <2>1, AtMostOneCounts
<1> QED BY <1>1, <1>2, <1>3

-----------------------------------------------------------------------------
(* The vendors and expenditures of a campaign *)

\* A request serves nothing, or it has a row in hand that was inserted some time.
BookingOK(b) ==
    \/ b = NoBooking
    \/ b.op = "remove" /\ b.id \in idsUsed
    \/ b.op = "save" /\ b.id \in idsUsed /\ b.set \subseteq Fields /\ b.new \in BookRow

\* Where no two requests had the row loaded, it is still there, and an edit differs from it
\* only in the fields it sets.
InHandOK(b) ==
    b.op # "none" /\ b.id \notin crossedRows =>
        /\ b.id \in DOMAIN rows
        /\ b.op = "save" => \A f \in Fields \ b.set : b.new[f] = rows[b.id][f]

OneHolds == \A r, q \in BookCalls :
    r # q /\ booking[r].op # "none" /\ booking[q].op # "none" /\ booking[r].id = booking[q].id
    => booking[r].id \in crossedRows

BooksInv ==
    /\ idsUsed \subseteq BookIds /\ DOMAIN rows \subseteq idsUsed /\ DOMAIN wanted = idsUsed
    /\ \A i \in DOMAIN rows : rows[i] \in BookRow
    /\ \A i \in idsUsed : wanted[i] \in BookRow
    /\ removed \subseteq idsUsed /\ crossedRows \subseteq idsUsed
    /\ DOMAIN booking = BookCalls /\ \A r \in BookCalls : BookingOK(booking[r]) /\ InHandOK(booking[r])
    /\ OneHolds /\ RemovedIsGone /\ EditsAddUp

\* What a request has in hand, after the step of another.
LEMMA BookingKinds ==
    ASSUME NEW b, BookingOK(b)
    PROVE  /\ b.op \in {"none", "remove", "save"}
           /\ b.op # "none" => b.id \in idsUsed
           /\ b.op = "save" => b.set \subseteq Fields /\ b.new \in BookRow
BY DEF BookingOK, NoBooking

\* The tables are empty at first.
LEMMA BooksInitOK == BooksInit => BooksInv
BY DEF BooksInit, BooksInv, BookingOK, InHandOK, OneHolds, RemovedIsGone, EditsAddUp, NoBooking

\* Every request of the creator's keeps the rows what was asked for, but where two had one
\* row loaded.
LEMMA BooksStep == BooksInv /\ BooksNext => BooksInv'
<1> SUFFICES ASSUME BooksInv, BooksNext PROVE BooksInv'
  OBVIOUS
<1>0. \A r \in BookCalls : BookingOK(booking[r]) /\ InHandOK(booking[r])
  BY DEF BooksInv
<1>1. ASSUME NEW entry \in BookRow, NEW n \in 1..2, createMany(n, entry) PROVE BooksInv'
  <2> DEFINE new == NextIds(n)
  <2>1. new \subseteq BookIds \ idsUsed
    BY DEF NextIds
  <2>2. /\ idsUsed' = idsUsed \cup new
        /\ rows' = [i \in DOMAIN rows \cup new |-> IF i \in new THEN entry ELSE rows[i]]
        /\ wanted' = [i \in DOMAIN wanted \cup new |-> IF i \in new THEN entry ELSE wanted[i]]
        /\ booking' = booking /\ removed' = removed /\ crossedRows' = crossedRows
    BY <1>1 DEF createMany
  <2> HIDE DEF new
  <2>3. \A r \in BookCalls : (BookingOK(booking[r]) /\ InHandOK(booking[r]))'
    <3> SUFFICES ASSUME NEW r \in BookCalls PROVE (BookingOK(booking[r]) /\ InHandOK(booking[r]))'
      OBVIOUS
    <3>1. BookingOK(booking[r]) /\ InHandOK(booking[r])
      BY <1>0
    <3> DEFINE b == booking[r]
    <3>2. b = booking'[r] /\ (b.op # "none" => b.id \in idsUsed)
      BY <2>2, <3>1, BookingKinds
    <3> HIDE DEF b
    <3>3. BookingOK(b)'
      BY <2>2, <3>1, <3>2 DEF BookingOK, b
    <3>4. InHandOK(b)'
      BY <2>1, <2>2, <3>1, <3>2 DEF InHandOK, BooksInv, b
    <3> QED BY <3>3, <3>4 DEF b
  <2>4. OneHolds'
    BY <2>2 DEF OneHolds, BooksInv
  <2>5. RemovedIsGone' /\ EditsAddUp'
    BY <2>1, <2>2 DEF RemovedIsGone, EditsAddUp, BooksInv
  <2> QED BY <2>1, <2>2, <2>3, <2>4, <2>5 DEF BooksInv
<1>2. ASSUME NEW r \in BookCalls, SaveBook(r) PROVE BooksInv'
  <2> DEFINE b == booking[r]
             i == b.id
  <2>1. BookingOK(b) /\ InHandOK(b) /\ b.op = "save"
    BY <1>0, <1>2 DEF SaveBook
  <2>2. i \in idsUsed /\ b.set \subseteq Fields /\ b.new \in BookRow
    BY <2>1, BookingKinds
  <2>3. /\ rows' = [j \in DOMAIN rows \cup {i} |-> IF j = i THEN b.new ELSE rows[j]]
        /\ wanted' = [wanted EXCEPT ![i] = [f \in Fields |-> IF f \in b.set THEN b.new[f] ELSE wanted[i][f]]]
        /\ booking' = [booking EXCEPT ![r] = NoBooking]
        /\ idsUsed' = idsUsed /\ removed' = removed /\ crossedRows' = crossedRows
    BY <1>2 DEF SaveBook, Put
  <2>4. wanted[i] \in BookRow /\ DOMAIN wanted = idsUsed
    BY <2>2 DEF BooksInv
  <2>5. wanted'[i] = [f \in Fields |-> IF f \in b.set THEN b.new[f] ELSE wanted[i][f]] /\ wanted'[i] \in BookRow
    BY <2>2, <2>3, <2>4 DEF BookRow
  <2>6. i \notin crossedRows => wanted'[i] = b.new
    <3> SUFFICES ASSUME i \notin crossedRows PROVE wanted'[i] = b.new
      OBVIOUS
    <3>1. i \in DOMAIN rows /\ \A f \in Fields \ b.set : b.new[f] = rows[i][f]
      BY <2>1 DEF InHandOK
    <3>2. rows[i] = wanted[i]
      BY <3>1 DEF BooksInv, EditsAddUp
    <3>3. \A f \in Fields : wanted'[i][f] = b.new[f]
      BY <2>5, <3>1, <3>2
    <3> QED BY <2>2, <2>5, <3>3 DEF BookRow
  <2>7. \A q \in BookCalls \ {r} : booking'[q] = booking[q]
    BY <2>3 DEF BooksInv
  <2>8. booking'[r] = NoBooking /\ DOMAIN booking' = BookCalls
    BY <2>3 DEF BooksInv
  <2>9. \A q \in BookCalls \ {r} : booking[q].op # "none" /\ booking[q].id = i => i \in crossedRows
    BY <2>1 DEF BooksInv, OneHolds
  <2> HIDE DEF b, i
  <2>10. \A q \in BookCalls : (BookingOK(booking[q]) /\ InHandOK(booking[q]))'
    <3> SUFFICES ASSUME NEW q \in BookCalls PROVE (BookingOK(booking[q]) /\ InHandOK(booking[q]))'
      OBVIOUS
    <3>1. CASE q = r
      BY <2>8, <3>1 DEF BookingOK, InHandOK, NoBooking
    <3>2. CASE q # r
      <4>1. BookingOK(booking[q]) /\ InHandOK(booking[q]) /\ booking'[q] = booking[q]
        BY <1>0, <2>7, <3>2
      <4>2. BookingOK(booking[q])'
        BY <2>3, <4>1 DEF BookingOK
      <4>3. InHandOK(booking[q])'
        BY <2>3, <2>9, <3>2, <4>1 DEF InHandOK
      <4> QED BY <4>2, <4>3
    <3> QED BY <3>1, <3>2
  <2>11. OneHolds'
    BY <2>3, <2>7, <2>8 DEF OneHolds, BooksInv, NoBooking
  <2>12. RemovedIsGone'
    <3>1. i \in removed => i \in crossedRows
      BY <2>1 DEF RemovedIsGone, BooksInv, InHandOK, i
    <3> QED BY <2>3, <3>1 DEF RemovedIsGone, BooksInv
  <2>13. EditsAddUp'
    BY <2>3, <2>4, <2>6 DEF EditsAddUp, BooksInv
  <2>14. /\ \A j \in DOMAIN rows' : rows'[j] \in BookRow
         /\ \A j \in idsUsed : wanted'[j] \in BookRow
         /\ DOMAIN wanted' = idsUsed /\ DOMAIN rows' \subseteq idsUsed
    BY <2>2, <2>3, <2>4, <2>5 DEF BooksInv
  <2> QED BY <2>3, <2>8, <2>10, <2>11, <2>12, <2>13, <2>14 DEF BooksInv
<1>3. ASSUME NEW r \in BookCalls, DeleteBook(r) PROVE BooksInv'
  <2> DEFINE i == booking[r].id
  <2>1. BookingOK(booking[r]) /\ InHandOK(booking[r]) /\ booking[r].op = "remove"
    BY <1>0, <1>3 DEF DeleteBook
  <2>2. i \in idsUsed
    BY <2>1, BookingKinds
  <2>3. /\ rows' = [j \in DOMAIN rows \ {i} |-> rows[j]] /\ removed' = removed \cup {i}
        /\ booking' = [booking EXCEPT ![r] = NoBooking]
        /\ idsUsed' = idsUsed /\ wanted' = wanted /\ crossedRows' = crossedRows
    BY <1>3 DEF DeleteBook
  <2>4. /\ \A q \in BookCalls \ {r} : booking'[q] = booking[q]
        /\ booking'[r] = NoBooking /\ DOMAIN booking' = BookCalls
    BY <2>3 DEF BooksInv
  <2>5. \A q \in BookCalls \ {r} : booking[q].op # "none" /\ booking[q].id = i => i \in crossedRows
    BY <2>1 DEF BooksInv, OneHolds
  <2> HIDE DEF i
  <2>6. \A q \in BookCalls : (BookingOK(booking[q]) /\ InHandOK(booking[q]))'
    <3> SUFFICES ASSUME NEW q \in BookCalls PROVE (BookingOK(booking[q]) /\ InHandOK(booking[q]))'
      OBVIOUS
    <3>1. CASE q = r
      BY <2>4, <3>1 DEF BookingOK, InHandOK, NoBooking
    <3>2. CASE q # r
      <4>1. BookingOK(booking[q]) /\ InHandOK(booking[q]) /\ booking'[q] = booking[q]
        BY <1>0, <2>4, <3>2
      <4>2. BookingOK(booking[q])'
        BY <2>3, <4>1 DEF BookingOK
      <4>3. InHandOK(booking[q])'
        BY <2>3, <2>5, <3>2, <4>1 DEF InHandOK
      <4> QED BY <4>2, <4>3
    <3> QED BY <3>1, <3>2
  <2>7. OneHolds'
    BY <2>3, <2>4 DEF OneHolds, BooksInv, NoBooking
  <2>8. RemovedIsGone' /\ EditsAddUp'
    BY <2>3 DEF RemovedIsGone, EditsAddUp, BooksInv
  <2> QED BY <2>2, <2>3, <2>4, <2>6, <2>7, <2>8 DEF BooksInv
<1>4. ASSUME NEW r \in BookCalls, NEW i \in DOMAIN rows, NEW b, b.op # "none", b.id = i,
             BookingOK(b), b.op = "save" => \A f \in Fields \ b.set : b.new[f] = rows[i][f],
             booking[r].op = "none", booking' = [booking EXCEPT ![r] = b],
             crossedRows' = (IF Others(r, i) THEN crossedRows \cup {i} ELSE crossedRows),
             UNCHANGED <<rows, idsUsed, wanted, removed>>
      PROVE  BooksInv'
  <2>1. /\ \A q \in BookCalls \ {r} : booking'[q] = booking[q]
        /\ booking'[r] = b /\ DOMAIN booking' = BookCalls
    BY <1>4 DEF BooksInv
  <2>2. i \in idsUsed /\ crossedRows \subseteq crossedRows' /\ crossedRows' \subseteq idsUsed
    BY <1>4 DEF BooksInv
  <2>3. \A q \in BookCalls : (BookingOK(booking[q]) /\ InHandOK(booking[q]))'
    <3> SUFFICES ASSUME NEW q \in BookCalls PROVE (BookingOK(booking[q]) /\ InHandOK(booking[q]))'
      OBVIOUS
    <3>1. CASE q = r
      BY <1>4, <2>1, <3>1 DEF BookingOK, InHandOK
    <3>2. CASE q # r
      <4>1. BookingOK(booking[q]) /\ InHandOK(booking[q]) /\ booking'[q] = booking[q]
        BY <1>0, <2>1, <3>2
      <4>2. BookingOK(booking[q])'
        BY <1>4, <4>1 DEF BookingOK
      <4>3. InHandOK(booking[q])'
        BY <1>4, <2>2, <4>1 DEF InHandOK
      <4> QED BY <4>2, <4>3
    <3> QED BY <3>1, <3>2
  <2>4. \A q \in BookCalls \ {r} : booking[q].op # "none" /\ booking[q].id = i => i \in crossedRows'
    BY <1>4, <2>2 DEF Others
  <2>5. OneHolds'
    BY <1>4, <2>1, <2>2, <2>4 DEF OneHolds, BooksInv
  <2>6. RemovedIsGone' /\ EditsAddUp'
    BY <1>4, <2>2 DEF RemovedIsGone, EditsAddUp, BooksInv
  <2> QED BY <1>4, <2>1, <2>2, <2>3, <2>5, <2>6 DEF BooksInv
<1>5. ASSUME NEW r \in BookCalls, NEW i \in BookIds, removeBook(r, i) PROVE BooksInv'
  <2> DEFINE b == [op |-> "remove", id |-> i]
  <2>1. i \in DOMAIN rows /\ i \in idsUsed
    BY <1>5 DEF removeBook, BooksInv
  <2>2. b.op # "none" /\ b.id = i /\ BookingOK(b) /\ b.op # "save"
    BY <2>1 DEF BookingOK
  <2>3. /\ booking[r].op = "none" /\ booking' = [booking EXCEPT ![r] = b]
        /\ crossedRows' = (IF Others(r, i) THEN crossedRows \cup {i} ELSE crossedRows)
        /\ UNCHANGED <<rows, idsUsed, wanted, removed>>
    BY <1>5 DEF removeBook
  <2> HIDE DEF b
  <2> QED BY <1>4, <2>1, <2>2, <2>3
<1>6. ASSUME NEW r \in BookCalls, NEW i \in BookIds, NEW S \in SUBSET Fields, NEW patch \in [S -> Values],
             updateBook(r, i, patch)
      PROVE  BooksInv'
  <2> DEFINE new == [f \in Fields |-> IF f \in S THEN patch[f] ELSE rows[i][f]]
             b == [op |-> "save", id |-> i, set |-> S, new |-> new]
  <2>1. i \in DOMAIN rows /\ i \in idsUsed /\ rows[i] \in BookRow
    BY <1>6 DEF updateBook, BooksInv
  <2>2. new \in BookRow /\ \A f \in Fields \ S : new[f] = rows[i][f]
    BY <2>1 DEF BookRow
  <2>3. /\ booking[r].op = "none" /\ booking' = [booking EXCEPT ![r] = b]
        /\ crossedRows' = (IF Others(r, i) THEN crossedRows \cup {i} ELSE crossedRows)
        /\ UNCHANGED <<rows, idsUsed, wanted, removed>>
    BY <1>6 DEF updateBook
  <2> HIDE DEF new
  <2>4. /\ b.op # "none" /\ b.id = i /\ BookingOK(b)
        /\ b.op = "save" => \A f \in Fields \ b.set : b.new[f] = rows[i][f]
    BY <2>1, <2>2 DEF BookingOK
  <2> HIDE DEF b
  <2> QED BY <1>4, <2>1, <2>3, <2>4
<1> QED BY <1>1, <1>2, <1>3, <1>5, <1>6 DEF BooksNext

\* The invariant speaks of the books alone.
LEMMA BooksStay == BooksInv /\ UNCHANGED bookVars => BooksInv'
BY DEF bookVars, BooksInv, BookingOK, InHandOK, OneHolds, RemovedIsGone, EditsAddUp

\* What the run checks of the books follows.
LEMMA BooksHold == BooksInv => BooksTypeOK /\ RemovedIsGone /\ EditsAddUp
<1> SUFFICES ASSUME BooksInv PROVE BooksTypeOK
  BY DEF BooksInv
<1>1. \A r \in BookCalls :
        booking[r].op \in {"none", "remove"} \/ (booking[r].op = "save" /\ booking[r].new \in BookRow)
  BY BookingKinds DEF BooksInv
<1> QED BY <1>1 DEF BooksInv, BooksTypeOK

-----------------------------------------------------------------------------
(* The row of a campaign *)

\* A copy of the row that an edit has loaded: no more than what was given, and as the row
\* is now in every column nobody wrote over it.
CopyOK(e) ==
    e # << >> =>
        /\ campaign # << >> /\ e \in Campaign /\ e.amount <= given
        /\ \A c \in Watched \ crossedColumns : e[c] = campaign[c]

RowInv ==
    /\ given \in 0..MaxGiven /\ creating \in {"no", "saved", "tagged", "done"}
    /\ campaign = << >> <=> creating = "no"
    /\ campaign = << >> => given = 0
    /\ campaign # << >> => campaign \in Campaign /\ campaign.amount <= given
    /\ tagging = {} \/ (tagging \in Titles /\ campaign # << >>)
    /\ DOMAIN editing = PageEditors /\ \A r \in PageEditors : CopyOK(editing[r])
    /\ donating \in [Donors -> GiftSizes \cup {0}]
    /\ \A d \in Donors : donating[d] # 0 => campaign # << >>
    /\ crossedColumns \subseteq Watched /\ missed \in BOOLEAN
    /\ told = << >> \/ told \in {50, 100} \X (0..MaxGiven)
    /\ RaisedIsGiven /\ TagsAreThere

\* A row is not the empty one.
LEMMA RowIs ==
    \A c \in Campaign :
        /\ c # << >> /\ DOMAIN c = Columns
        /\ c.status \in CampaignStatus /\ c.amount \in 0..MaxGiven /\ c.title \in Titles
        /\ c.tags \in Titles \cup {NoTags} /\ c.link \in BOOLEAN
<1> SUFFICES ASSUME NEW c \in Campaign
             PROVE  /\ c # << >> /\ DOMAIN c = Columns
                    /\ c.status \in CampaignStatus /\ c.amount \in 0..MaxGiven /\ c.title \in Titles
                    /\ c.tags \in Titles \cup {NoTags} /\ c.link \in BOOLEAN
  OBVIOUS
<1>1. DOMAIN c = Columns
  BY DEF Campaign, Columns
<1>2. c # << >>
  <2>1. "amount" \in DOMAIN c /\ "amount" \notin DOMAIN << >>
    BY <1>1 DEF Columns
  <2> QED BY <2>1
<1> QED BY <1>1, <1>2 DEF Campaign

\* No row, no edit and no money at first.
LEMMA RowInitOK == CampaignInit => RowInv
<1> SUFFICES ASSUME CampaignInit PROVE RowInv
  OBVIOUS
<1>1. 0 \in 0..MaxGiven
  BY GiftsAssumption
<1>2. \A r \in PageEditors : CopyOK(editing[r])
  BY DEF CampaignInit, CopyOK
<1>3. RaisedIsGiven /\ TagsAreThere
  BY DEF CampaignInit, RaisedIsGiven, TagsAreThere
<1> QED BY <1>1, <1>2, <1>3 DEF CampaignInit, RowInv

\* What a step that writes some columns of the row leaves of the copies of the others.
LEMMA CopiesKept ==
    ASSUME RowInv, campaign # << >>, campaign' \in Campaign, given' >= given, given' \in Nat,
           NEW by, Crossing(by), NEW q \in PageEditors, q \notin by, editing'[q] = editing[q]
    PROVE  CopyOK(editing[q])'
<1>1. CopyOK(editing[q]) /\ given \in Nat
  BY GiftsAssumption DEF RowInv
<1> SUFFICES ASSUME editing[q] # << >>
             PROVE  /\ campaign' # << >> /\ editing[q] \in Campaign /\ editing[q].amount <= given'
                    /\ \A c \in Watched \ crossedColumns' : editing[q][c] = campaign'[c]
  BY DEF CopyOK
<1>2. /\ editing[q] \in Campaign /\ editing[q].amount <= given
      /\ \A c \in Watched \ crossedColumns : editing[q][c] = campaign[c]
  BY <1>1 DEF CopyOK
<1>3. crossedColumns' = crossedColumns \cup {c \in Watched : campaign'[c] # campaign[c]}
  BY DEF Crossing
<1>4. editing[q].amount \in Nat /\ campaign' # << >>
  BY <1>2, RowIs, GiftsAssumption
<1> QED BY <1>1, <1>2, <1>3, <1>4

\* The columns crossed are watched ones, and more than before.
LEMMA CrossedGrow ==
    ASSUME crossedColumns \subseteq Watched, NEW by, Crossing(by)
    PROVE  crossedColumns \subseteq crossedColumns' /\ crossedColumns' \subseteq Watched
BY DEF Crossing

\* Creation, tagging, edits, restarts and donations keep the row in step with what was given.
LEMMA RowStep == RowInv /\ CampaignNext => RowInv' /\ LinkStays
<1> SUFFICES ASSUME RowInv, CampaignNext PROVE RowInv' /\ LinkStays
  OBVIOUS
<1> USE GiftsAssumption
<1>0. /\ given \in Nat /\ \A r \in PageEditors : CopyOK(editing[r])
      /\ campaign # << >> => campaign \in Campaign /\ campaign.amount \in Nat
  BY RowIs DEF RowInv
<1>1. ASSUME NEW t \in Titles, create(t) PROVE RowInv' /\ LinkStays
  <2> DEFINE c == [status |-> "active", amount |-> 0, title |-> t, tags |-> NoTags, link |-> FALSE]
  <2>1. c \in Campaign /\ c.amount = 0 /\ c.tags = NoTags
    BY StatusAssumption DEF Campaign
  <2>2. campaign' = c /\ campaign = << >>
    BY <1>1 DEF create
  <2> HIDE DEF c
  <2>3. campaign' # << >>
    BY <2>1, <2>2, RowIs
  <2>4. \A r \in PageEditors : CopyOK(editing[r])'
    BY <1>0, <1>1, <2>2 DEF create, CopyOK
  <2>5. given = 0 /\ given' = 0
    BY <1>1, <2>2 DEF create, RowInv
  <2>6. RaisedIsGiven' /\ TagsAreThere'
    BY <1>1, <2>1, <2>2, <2>5 DEF create, RaisedIsGiven, TagsAreThere
  <2>7. creating' = "saved" /\ UNCHANGED <<tagging, editing, donating, given, crossedColumns, missed, told>>
    BY <1>1 DEF create
  <2>8. given' \in 0..MaxGiven /\ campaign' \in Campaign /\ campaign'.amount <= given'
    BY <2>1, <2>2, <2>5
  <2>9. LinkStays
    BY <2>2 DEF LinkStays
  <2>10. RowInv'
    BY <2>3, <2>4, <2>6, <2>7, <2>8 DEF RowInv
  <2> QED BY <2>9, <2>10
<1>2. ASSUME retagCampaign PROVE RowInv' /\ LinkStays
  <2>1. \A r \in PageEditors : CopyOK(editing[r])'
    BY <1>0, <1>2 DEF retagCampaign, CopyOK
  <2>2. campaign # << >> /\ campaign.title \in Titles /\ campaign.title # {}
    <3>1. creating = "saved" /\ campaign # << >> /\ campaign \in Campaign
      BY <1>2 DEF retagCampaign, RowInv
    <3>2. campaign.title \in Titles
      BY <3>1, RowIs
    <3> QED BY <3>1, <3>2, TitlesAssumption
  <2>3. RaisedIsGiven' /\ TagsAreThere'
    BY <1>2, <2>2 DEF retagCampaign, RaisedIsGiven, TagsAreThere, RowInv
  <2>4. /\ creating' = "tagged" /\ missed' \in BOOLEAN /\ tagging' \in {tagging, campaign.title}
        /\ UNCHANGED <<campaign, editing, donating, given, crossedColumns, told>>
    BY <1>2 DEF retagCampaign, RowInv
  <2>5. LinkStays
    BY <2>4 DEF LinkStays
  <2>6. RowInv'
    BY <2>1, <2>2, <2>3, <2>4 DEF RowInv
  <2> QED BY <2>5, <2>6
<1>3. ASSUME WriteTags PROVE RowInv' /\ LinkStays
  <2>1. campaign # << >> /\ campaign \in Campaign /\ tagging \in Titles
    BY <1>3 DEF WriteTags, RowInv
  <2>2. campaign' = [campaign EXCEPT !.tags = tagging] /\ Crossing({})
    BY <1>3 DEF WriteTags
  <2>3. /\ campaign' \in Campaign /\ campaign'.tags = tagging /\ campaign'.amount = campaign.amount
        /\ campaign'.link = campaign.link
    BY <2>1, <2>2 DEF Campaign
  <2>4. campaign' # << >>
    BY <2>3, RowIs
  <2>5. \A r \in PageEditors : CopyOK(editing[r])'
    BY <1>0, <1>3, <2>1, <2>2, <2>3, CopiesKept DEF WriteTags
  <2>6. crossedColumns \subseteq crossedColumns' /\ crossedColumns' \subseteq Watched
    BY <2>2, CrossedGrow DEF RowInv
  <2>7. RaisedIsGiven' /\ TagsAreThere' /\ LinkStays
    BY <1>3, <2>1, <2>3, <2>6, TitlesAssumption DEF WriteTags, RaisedIsGiven, TagsAreThere, LinkStays, RowInv, NoTags
  <2> QED BY <1>3, <2>1, <2>3, <2>4, <2>5, <2>6, <2>7 DEF WriteTags, RowInv
<1>4. ASSUME StoreLink PROVE RowInv' /\ LinkStays
  <2>1. campaign # << >> /\ campaign \in Campaign
    BY <1>4 DEF StoreLink, RowInv
  <2>2. CASE UNCHANGED <<campaign, crossedColumns>>
    <3>1. \A r \in PageEditors : CopyOK(editing[r])'
      BY <1>0, <1>4, <2>2 DEF StoreLink, CopyOK
    <3>2. RaisedIsGiven' /\ TagsAreThere' /\ LinkStays
      BY <1>4, <2>1, <2>2 DEF StoreLink, RaisedIsGiven, TagsAreThere, LinkStays, RowInv
    <3> QED BY <1>4, <2>1, <2>2, <3>1, <3>2 DEF StoreLink, RowInv
  <2>3. CASE campaign' = [campaign EXCEPT !.link = TRUE] /\ Crossing({})
    <3>1. /\ campaign' \in Campaign /\ campaign'.tags = campaign.tags /\ campaign'.amount = campaign.amount
          /\ campaign'.link = TRUE
      BY <2>1, <2>3 DEF Campaign
    <3>2. campaign' # << >>
      BY <3>1, RowIs
    <3>3. \A r \in PageEditors : CopyOK(editing[r])'
      BY <1>0, <1>4, <2>1, <2>3, <3>1, CopiesKept DEF StoreLink
    <3>4. crossedColumns \subseteq crossedColumns' /\ crossedColumns' \subseteq Watched
      BY <2>3, CrossedGrow DEF RowInv
    <3>5. RaisedIsGiven' /\ TagsAreThere' /\ LinkStays
      BY <1>4, <2>1, <3>1, <3>4 DEF StoreLink, RaisedIsGiven, TagsAreThere, LinkStays, RowInv
    <3> QED BY <1>4, <2>1, <3>1, <3>2, <3>3, <3>4, <3>5 DEF StoreLink, RowInv
  <2> QED BY <1>4, <2>2, <2>3 DEF StoreLink
<1>5. ASSUME Restart PROVE RowInv' /\ LinkStays
  <2>1. \A r \in PageEditors : CopyOK(editing[r])' /\ editing' = [q \in PageEditors |-> << >>]
    BY <1>5 DEF Restart, CopyOK
  <2>2. campaign # << >> /\ campaign' = campaign /\ creating # "no"
    BY <1>5 DEF Restart, RowInv
  <2>3. RaisedIsGiven' /\ TagsAreThere' /\ LinkStays
    BY <1>5, <2>2 DEF Restart, RaisedIsGiven, TagsAreThere, LinkStays, RowInv
  <2> QED BY <1>5, <2>1, <2>2, <2>3 DEF Restart, RowInv
<1>6. ASSUME backfillMissingTags PROVE RowInv' /\ LinkStays
  <2>1. \A r \in PageEditors : CopyOK(editing[r])'
    BY <1>0, <1>6 DEF backfillMissingTags, CopyOK
  <2>2. campaign # << >> /\ campaign.title \in Titles /\ campaign.title # {}
    <3>1. creating = "done" /\ campaign # << >> /\ campaign \in Campaign
      BY <1>6 DEF backfillMissingTags, RowInv
    <3>2. campaign.title \in Titles
      BY <3>1, RowIs
    <3> QED BY <3>1, <3>2, TitlesAssumption
  <2>3. RaisedIsGiven' /\ TagsAreThere' /\ LinkStays
    BY <1>6, <2>2 DEF backfillMissingTags, RaisedIsGiven, TagsAreThere, LinkStays, RowInv
  <2> QED BY <1>6, <2>1, <2>2, <2>3 DEF backfillMissingTags, RowInv
<1>7. ASSUME NEW r \in PageEditors, SaveCampaign(r) PROVE RowInv' /\ LinkStays
  <2>1. /\ editing[r] # << >> /\ campaign' = editing[r] /\ editing' = [editing EXCEPT ![r] = << >>]
        /\ Crossing({r})
        /\ UNCHANGED <<creating, tagging, donating, given, missed, told>>
    BY <1>7 DEF SaveCampaign
  <2>2. /\ campaign # << >> /\ campaign \in Campaign /\ campaign' \in Campaign /\ campaign'.amount <= given
        /\ \A c \in Watched \ crossedColumns : campaign'[c] = campaign[c]
    BY <1>0, <2>1 DEF CopyOK
  <2>3. campaign' # << >>
    BY <2>2, RowIs
  <2>4. crossedColumns \subseteq crossedColumns' /\ crossedColumns' \subseteq Watched
    BY <2>1, CrossedGrow DEF RowInv
  <2>5. \A q \in PageEditors : CopyOK(editing[q])'
    <3> SUFFICES ASSUME NEW q \in PageEditors PROVE CopyOK(editing[q])'
      OBVIOUS
    <3>1. CASE q = r
      BY <2>1, <3>1 DEF CopyOK, RowInv
    <3>2. CASE q # r
      <4>1. editing'[q] = editing[q] /\ q \notin {r}
        BY <2>1, <3>2 DEF RowInv
      <4> QED BY <1>0, <2>1, <2>2, <4>1, CopiesKept
    <3> QED BY <3>1, <3>2
  <2>6. RaisedIsGiven' /\ TagsAreThere' /\ LinkStays
    <3>1. /\ "amount" \notin crossedColumns => campaign'.amount = campaign.amount
          /\ "tags" \notin crossedColumns => campaign'.tags = campaign.tags
          /\ "link" \notin crossedColumns => campaign'.link = campaign.link
      BY <2>2 DEF Watched
    <3> QED BY <2>1, <2>2, <2>4, <3>1 DEF RaisedIsGiven, TagsAreThere, LinkStays, RowInv
  <2> QED BY <2>1, <2>2, <2>3, <2>4, <2>5, <2>6 DEF RowInv
<1>8. ASSUME NEW r \in PageEditors, NEW change, LoadForEdit(r, change),
             \A c \in DOMAIN change : \/ c = "status" /\ change[c] \in CampaignStatus
                                      \/ c = "title" /\ change[c] \in Titles
      PROVE  RowInv' /\ LinkStays
  <2> DEFINE e == [c \in Columns |-> IF c \in DOMAIN change THEN change[c] ELSE campaign[c]]
  <2>1. campaign # << >> /\ campaign \in Campaign /\ editing' = [editing EXCEPT ![r] = e]
    BY <1>8 DEF LoadForEdit, RowInv
  <2>2. UNCHANGED <<campaign, creating, tagging, donating, given, crossedColumns, missed, told>>
    BY <1>8 DEF LoadForEdit
  <2>3. \A c \in Watched : e[c] = campaign[c]
    BY <1>8 DEF Watched, Columns
  <2>4. e \in Campaign
    <3>1. /\ e.status \in CampaignStatus /\ e.amount \in 0..MaxGiven /\ e.title \in Titles
          /\ e.tags \in Titles \cup {NoTags} /\ e.link \in BOOLEAN
      BY <1>8, <2>1, RowIs DEF Columns
    <3>2. e = [status |-> e.status, amount |-> e.amount, title |-> e.title, tags |-> e.tags, link |-> e.link]
      BY DEF Columns
    <3> HIDE DEF e
    <3> QED BY <3>1, <3>2 DEF Campaign
  <2>5. e.amount <= given
    BY <2>1, <2>3 DEF Watched, RowInv
  <2> HIDE DEF e
  <2>6. \A q \in PageEditors : CopyOK(editing[q])'
    <3> SUFFICES ASSUME NEW q \in PageEditors PROVE CopyOK(editing[q])'
      OBVIOUS
    <3>1. CASE q = r
      BY <2>1, <2>2, <2>3, <2>4, <2>5, <3>1 DEF CopyOK, RowInv
    <3>2. CASE q # r
      BY <1>0, <2>1, <2>2, <3>2 DEF CopyOK, RowInv
    <3> QED BY <3>1, <3>2
  <2>7. RaisedIsGiven' /\ TagsAreThere' /\ LinkStays
    BY <2>2 DEF RaisedIsGiven, TagsAreThere, LinkStays, RowInv
  <2> QED BY <2>1, <2>2, <2>6, <2>7 DEF RowInv
<1>9. ASSUME NEW r \in PageEditors, NEW s \in CampaignStatus, updateStatus(r, s) PROVE RowInv' /\ LinkStays
  BY <1>8, <1>9 DEF updateStatus
<1>10. ASSUME NEW r \in PageEditors, NEW t \in Titles, update(r, t) PROVE RowInv' /\ LinkStays
  BY <1>8, <1>10 DEF update
<1>11. ASSUME NEW d \in Donors, NEW a \in GiftSizes, donate(d, a) PROVE RowInv' /\ LinkStays
  <2>1. \A r \in PageEditors : CopyOK(editing[r])'
    BY <1>0, <1>11 DEF donate, CopyOK
  <2>2. RaisedIsGiven' /\ TagsAreThere' /\ LinkStays
    BY <1>11 DEF donate, RaisedIsGiven, TagsAreThere, LinkStays, RowInv
  <2>3. donating' \in [Donors -> GiftSizes \cup {0}] /\ \A q \in Donors : donating'[q] # 0 => campaign # << >>
    BY <1>11 DEF donate, RowInv
  <2> QED BY <1>11, <2>1, <2>2, <2>3 DEF donate, RowInv
<1>12. ASSUME NEW d \in Donors, CommitDonation(d) PROVE RowInv' /\ LinkStays
  <2>1. /\ donating[d] # 0 /\ given' = given + donating[d] /\ given' <= MaxGiven
        /\ campaign' = [campaign EXCEPT !.amount = @ + donating[d]] /\ donating' = [donating EXCEPT ![d] = 0]
        /\ triggerDonationEvents(campaign'.amount, donating[d]) /\ Crossing({})
        /\ UNCHANGED <<creating, tagging, editing, missed>>
    BY <1>12 DEF CommitDonation
  <2>2. donating[d] \in Nat /\ campaign # << >> /\ campaign \in Campaign /\ campaign.amount \in Nat
    BY <1>0, <2>1 DEF RowInv
  <2>3. given' \in 0..MaxGiven /\ given' >= given /\ campaign.amount + donating[d] \in 0..MaxGiven
    BY <1>0, <2>1, <2>2 DEF RowInv
  <2>4. /\ campaign' \in Campaign /\ campaign'.tags = campaign.tags /\ campaign'.link = campaign.link
        /\ campaign'.amount = campaign.amount + donating[d]
    BY <2>1, <2>2, <2>3 DEF Campaign
  <2>5. campaign' # << >>
    BY <2>4, RowIs
  <2>6. crossedColumns \subseteq crossedColumns' /\ crossedColumns' \subseteq Watched
    BY <2>1, CrossedGrow DEF RowInv
  <2>7. \A r \in PageEditors : CopyOK(editing[r])'
    <3> SUFFICES ASSUME NEW r \in PageEditors PROVE CopyOK(editing[r])'
      OBVIOUS
    <3>1. editing'[r] = editing[r] /\ r \notin {} /\ given' \in Nat
      BY <2>1, <2>3
    <3> QED BY <2>1, <2>2, <2>3, <2>4, <3>1, CopiesKept
  <2>8. RaisedIsGiven' /\ TagsAreThere' /\ LinkStays
    BY <1>0, <2>1, <2>2, <2>4, <2>6 DEF RaisedIsGiven, TagsAreThere, LinkStays, RowInv
  <2>9. campaign'.amount \in 0..MaxGiven /\ campaign'.amount <= given'
    BY <1>0, <2>1, <2>2, <2>3, <2>4 DEF RowInv
  <2>10. told' = << >> \/ told' \in {50, 100} \X (0..MaxGiven)
    BY <2>1, <2>9 DEF triggerDonationEvents, RowInv
  <2>11. donating' \in [Donors -> GiftSizes \cup {0}] /\ \A q \in Donors : donating'[q] # 0 => campaign' # << >>
    BY <2>1, <2>5 DEF RowInv
  <2> QED BY <2>1, <2>2, <2>3, <2>4, <2>5, <2>6, <2>7, <2>8, <2>9, <2>10, <2>11 DEF RowInv
<1> QED BY <1>1, <1>2, <1>3, <1>4, <1>5, <1>6, <1>7, <1>9, <1>10, <1>11, <1>12 DEF CampaignNext

\* The invariant speaks of the campaign's row alone.
LEMMA PageRowStays == RowInv /\ UNCHANGED campaignVars => RowInv' /\ LinkStays
BY DEF campaignVars, RowInv, CopyOK, RaisedIsGiven, TagsAreThere, LinkStays

\* What the run checks of the row follows.
LEMMA RowHolds == RowInv => CampaignTypeOK /\ RaisedIsGiven /\ TagsAreThere
<1> SUFFICES ASSUME RowInv PROVE CampaignTypeOK
  BY DEF RowInv
<1>1. \A r \in PageEditors : editing[r] = << >> \/ editing[r] \in Campaign
  BY DEF RowInv, CopyOK
<1> QED BY <1>1 DEF RowInv, CampaignTypeOK

-----------------------------------------------------------------------------
(* The supporters of a campaign *)

SupportInv ==
    /\ open \in BOOLEAN /\ marks \subseteq ({"like", "save"} \X Visitors \X {1}) /\ comments \subseteq Visitors
    /\ marking \in [MarkCalls -> {NoMark} \cup [op : {"like", "save", "comment"}, user : Visitors]]
    /\ donations \in Seq(Donation) /\ Len(donations) <= MaxGifts
    /\ joined \subseteq (Roles \X Visitors)
    /\ \A i \in DOMAIN donations : donations[i].via # Nobody0 => <<"champion", donations[i].via>> \in joined

\* At first nobody visited or gave.
LEMMA SupportInitOK == SupportInit => SupportInv
<1> SUFFICES ASSUME SupportInit PROVE SupportInv
  OBVIOUS
<1>1. Len(<< >>) <= MaxGifts
  BY SizesAssumption
<1> QED BY <1>1 DEF SupportInit, SupportInv

\* A user has one row of each kind, whatever requests insert or delete.
LEMMA MarksStep == SupportInv /\ MarksNext => SupportInv'
<1> SUFFICES ASSUME SupportInv, MarksNext PROVE SupportInv'
  OBVIOUS
<1>1. CASE setStatus
  BY <1>1 DEF setStatus, SupportInv
<1>2. ASSUME NEW r \in MarkCalls, InsertMark(r) PROVE SupportInv'
  <2>1. marking[r] \in [op : {"like", "save", "comment"}, user : Visitors]
    BY <1>2 DEF InsertMark, SupportInv
  <2>2. marks' \subseteq ({"like", "save"} \X Visitors \X {1}) /\ comments' \subseteq Visitors
    <3>1. CASE marking[r].op # "comment" /\ marks' = marks \cup {<<marking[r].op, marking[r].user, 1>>} /\ UNCHANGED comments
      <4>1. marking[r].op \in {"like", "save"} /\ marking[r].user \in Visitors
        BY <2>1, <3>1
      <4> QED BY <3>1, <4>1 DEF SupportInv
    <3>2. CASE comments' = comments \cup {marking[r].user} /\ UNCHANGED marks
      BY <2>1, <3>2 DEF SupportInv
    <3> QED BY <1>2, <3>1, <3>2 DEF InsertMark
  <2>3. /\ marking' \in [MarkCalls -> {NoMark} \cup [op : {"like", "save", "comment"}, user : Visitors]]
        /\ UNCHANGED <<open, donations, joined>>
    BY <1>2 DEF InsertMark, SupportInv
  <2> QED BY <2>2, <2>3 DEF SupportInv
<1>3. ASSUME NEW r \in MarkCalls, NEW op \in {"like", "save", "comment"}, NEW u \in Visitors,
             marking' = [marking EXCEPT ![r] = [op |-> op, user |-> u]],
             UNCHANGED <<open, marks, comments, donations, joined>>
      PROVE  SupportInv'
  <2> DEFINE m == [op |-> op, user |-> u]
  <2>1. m \in [op : {"like", "save", "comment"}, user : Visitors]
    OBVIOUS
  <2> HIDE DEF m
  <2>2. marking' \in [MarkCalls -> {NoMark} \cup [op : {"like", "save", "comment"}, user : Visitors]]
    BY <1>3, <2>1 DEF SupportInv, m
  <2> QED BY <1>3, <2>1, <2>2 DEF SupportInv
<1>4. ASSUME NEW r \in MarkCalls, NEW u \in Visitors, likeCampaign(r, u) \/ addComment(r, u) \/ save(r, u)
      PROVE  SupportInv'
  BY <1>3, <1>4 DEF likeCampaign, addComment, save
<1>5. ASSUME NEW u \in Visitors, unlikeCampaign(u) \/ unsave(u) PROVE SupportInv'
  <2>1. marks' \subseteq marks /\ UNCHANGED <<open, comments, marking, donations, joined>>
    BY <1>5 DEF unlikeCampaign, unsave
  <2> QED BY <2>1 DEF SupportInv
<1> QED BY <1>1, <1>2, <1>4, <1>5 DEF MarksNext

\* Donations come through champions, who stay.
LEMMA GiftsStep == SupportInv /\ GiftsNext => SupportInv'
<1> SUFFICES ASSUME SupportInv, GiftsNext PROVE SupportInv'
  OBVIOUS
<1>1. ASSUME NEW d \in Donation, InsertDonation(d) PROVE SupportInv'
  <2>1. donations' \in Seq(Donation) /\ Len(donations') = Len(donations) + 1
    BY <1>1 DEF InsertDonation, SupportInv
  <2>2. Len(donations') <= MaxGifts
    BY <1>1, <2>1, SizesAssumption DEF InsertDonation, SupportInv
  <2>3. \A i \in DOMAIN donations' : donations'[i].via # Nobody0 => <<"champion", donations'[i].via>> \in joined'
    BY <1>1 DEF InsertDonation, SupportInv
  <2> QED BY <1>1, <2>1, <2>2, <2>3 DEF InsertDonation, SupportInv
<1>2. ASSUME NEW role \in Roles, NEW u \in Visitors, join(role, u) \/ leave(role, u) PROVE SupportInv'
  <2>1. /\ joined' \subseteq (Roles \X Visitors) /\ \A v : <<"champion", v>> \in joined => <<"champion", v>> \in joined'
        /\ UNCHANGED <<open, marks, comments, marking, donations>>
    BY <1>2 DEF join, leave, SupportInv
  <2> QED BY <2>1 DEF SupportInv
<1> QED BY <1>1, <1>2 DEF GiftsNext

\* A donor, and who brought a donation, keep the insight; others have it from the team.
LEMMA InsightStep == SupportInv /\ SupportNext => InsightIsKept
<1> SUFFICES ASSUME SupportInv, SupportNext, NEW u \in Visitors,
                    GivenBy(u) # {} \/ \E i \in DOMAIN donations : donations[i].via = u
             PROVE  mapToResponse(u)'.canSeeFinancials
  BY DEF InsightIsKept
<1>1. /\ donations \in Seq(Donation) /\ u # Nobody0
  BY VisitorsAssumption DEF SupportInv, Nobody0
<1>2. /\ \A i \in DOMAIN donations : i \in DOMAIN donations' /\ donations'[i] = donations[i]
      /\ \A v : <<"champion", v>> \in joined => <<"champion", v>> \in joined'
  <2>1. CASE MarksNext
    <3>1. UNCHANGED <<donations, joined>>
      BY <2>1 DEF MarksNext, setStatus, InsertMark, likeCampaign, addComment, save, unlikeCampaign, unsave
    <3> QED BY <3>1
  <2>2. ASSUME NEW d \in Donation, InsertDonation(d)
        PROVE  /\ \A i \in DOMAIN donations : i \in DOMAIN donations' /\ donations'[i] = donations[i]
               /\ \A v : <<"champion", v>> \in joined => <<"champion", v>> \in joined'
    BY <1>1, <2>2 DEF InsertDonation
  <2>3. ASSUME NEW role \in Roles, NEW v \in Visitors, join(role, v) \/ leave(role, v)
        PROVE  /\ \A i \in DOMAIN donations : i \in DOMAIN donations' /\ donations'[i] = donations[i]
               /\ \A w : <<"champion", w>> \in joined => <<"champion", w>> \in joined'
    BY <2>3 DEF join, leave
  <2> QED BY <2>1, <2>2, <2>3 DEF SupportNext, GiftsNext
<1>3. computeFinancialAccess(u)'
  <2>1. CASE GivenBy(u) # {}
    <3>1. GivenBy(u)' # {}
      BY <1>2, <2>1 DEF GivenBy
    <3> QED BY <3>1 DEF computeFinancialAccess
  <2>2. CASE \E i \in DOMAIN donations : donations[i].via = u
    <3>1. PICK i \in DOMAIN donations : donations[i].via = u
      BY <2>2
    <3>2. <<"champion", u>> \in joined'
      BY <1>1, <1>2, <3>1 DEF SupportInv
    <3> QED BY <1>2, <3>1, <3>2 DEF computeFinancialAccess
  <2> QED BY <2>1, <2>2
<1> QED BY <1>3 DEF mapToResponse

\* The invariant speaks of the supporters alone.
LEMMA SupportStays == SupportInv /\ UNCHANGED supportVars => SupportInv' /\ InsightIsKept
BY DEF supportVars, SupportInv, InsightIsKept

\* Every like is the like of one visitor.
LEMMA LikesCounted == SupportInv => LikesAreVisitors
<1> SUFFICES ASSUME SupportInv
             PROVE  Cardinality({m \in marks : m[1] = "like"}) = Cardinality({v \in Visitors : MarksOf("like", v) # {}})
  BY DEF LikesAreVisitors, mapToResponse
<1> DEFINE L == {m \in marks : m[1] = "like"}
           V == {v \in Visitors : MarksOf("like", v) # {}}
           b == [v \in V |-> <<"like", v, 1>>]
<1>1. \A m \in L : m = <<"like", m[2], 1>> /\ m[2] \in V
  BY DEF SupportInv, MarksOf
<1>2. \A v \in V : <<"like", v, 1>> \in L
  <2> SUFFICES ASSUME NEW v \in V PROVE <<"like", v, 1>> \in L
    OBVIOUS
  <2>1. PICK m \in marks : m[1] = "like" /\ m[2] = v
    BY DEF MarksOf
  <2>2. m = <<"like", v, 1>>
    BY <1>1, <2>1
  <2> QED BY <2>1, <2>2
<1>3. b \in Bijection(V, L)
  <2>1. b \in [V -> L] /\ \A v \in V : b[v] = <<"like", v, 1>>
    BY <1>2
  <2>2. \A v, w \in V : b[v] = b[w] => v = w
    BY <2>1
  <2>3. \A m \in L : \E v \in V : b[v] = m
    BY <1>1, <2>1
  <2> HIDE DEF b, V, L
  <2> QED BY <2>1, <2>2, <2>3 DEF Bijection, Injection, Surjection, IsInjective
<1>4. IsFiniteSet(V)
  BY VisitorsAssumption, FS_Subset
<1>5. ExistsBijection(V, L)
  BY <1>3 DEF ExistsBijection
<1> HIDE DEF L, V, b
<1>6. Cardinality(L) = Cardinality(V)
  BY <1>4, <1>5, FS_Bijection
<1> QED BY <1>6 DEF L, V

\* What a user has given in all is a number, and nothing for one who has not given.
LEMMA TotalIs ==
    ASSUME SupportInv, NEW u
    PROVE  Total(u) \in Nat /\ (GivenBy(u) = {} => Total(u) = 0)
<1> DEFINE f == [i \in GivenBy(u) |-> donations[i].amount]
<1>1. IsFiniteSet(GivenBy(u)) /\ GivenBy(u) \subseteq DOMAIN donations
  <2>1. DOMAIN donations = 1..Len(donations) /\ Len(donations) \in Nat
    BY DEF SupportInv
  <2>2. IsFiniteSet(1..Len(donations))
    BY <2>1, FS_Interval
  <2> QED BY <2>1, <2>2, FS_Subset DEF GivenBy
<1>2. f \in [GivenBy(u) -> Nat]
  <2> SUFFICES ASSUME NEW i \in GivenBy(u) PROVE donations[i].amount \in Nat
    OBVIOUS
  <2>1. donations[i] \in Donation
    BY <1>1 DEF SupportInv
  <2>2. donations[i].amount \in Sizes
    BY <2>1 DEF Donation
  <2> QED BY <2>2, SizesAssumption
<1>3. Total(u) = SumOf(f)
  BY DEF Total, SumOf
<1>4. ASSUME GivenBy(u) = {} PROVE SumOf(f) = 0
  <2>1. f = [i \in {} |-> 0]
    BY <1>4
  <2>2. IsFiniteSet({})
    BY FS_EmptySet
  <2>3. SumOf([i \in {} |-> 0]) = 0
    BY <2>2, SumZero
  <2> QED BY <2>1, <2>3
<1> HIDE DEF f
<1>5. SumOf(f) \in Nat
  BY <1>1, <1>2, SumNat
<1> QED BY <1>3, <1>4, <1>5

\* Whoever is named gave the most of all visitors, and once under their name.
LEMMA TopDonorNamed == SupportInv => TopDonorMayBeNamed
<1> SUFFICES ASSUME SupportInv, NEW v \in Donors_, \A w \in Donors_ : Total(w) <= Total(v)
             PROVE  /\ \A u \in Visitors : Total(u) <= Total(v)
                    /\ (\E i \in GivenBy(v) : ~donations[i].anonymous)
                       <=> \E i \in DOMAIN donations : donations[i].donor = v /\ ~donations[i].anonymous
  BY DEF TopDonorMayBeNamed, getTopDonor
<1>1. ASSUME NEW u \in Visitors PROVE Total(u) <= Total(v)
  <2>1. CASE u \in Donors_
    BY <2>1
  <2>2. CASE u \notin Donors_
    <3>1. GivenBy(u) = {}
      BY <2>2 DEF Donors_, GivenBy
    <3>2. Total(u) = 0 /\ Total(v) \in Nat
      BY <3>1, TotalIs
    <3> QED BY <3>2
  <2> QED BY <2>1, <2>2
<1> QED BY <1>1 DEF GivenBy

\* What the run checks of the supporters follows.
LEMMA SupportHolds == SupportInv => SupportTypeOK /\ LikesAreVisitors /\ TopDonorMayBeNamed
<1> SUFFICES ASSUME SupportInv PROVE SupportTypeOK
  BY LikesCounted, TopDonorNamed
<1>1. NoMark \in Mark /\ [op : {"like", "save", "comment"}, user : Visitors] \subseteq Mark
  BY DEF NoMark, Mark
<1>2. marking \in [MarkCalls -> Mark]
  <2> QED BY <1>1 DEF SupportInv
<1>3. marks \subseteq ({"like", "save"} \X Visitors \X (1..2))
  BY DEF SupportInv
<1> QED BY <1>2, <1>3 DEF SupportInv, SupportTypeOK

-----------------------------------------------------------------------------
(* The feed *)

\* Among the newest, the campaigns the user did something to before t.
DonatedBefore(t) == {c \in Newest(donatedAt) : donatedAt[c] < t}
EngagedBefore(t) == DonatedBefore(t) \cup {c \in Newest(markedAt) : markedAt[c] < t}

\* Those the profile must know of.
Known == {c \in Newest(donatedAt) : donatedAt[c] + StaleAfter <= time}
         \cup {c \in Newest(markedAt) : markedAt[c] + StaleAfter <= time}

\* What a request has read holds what was there before this tick.
AskingOK(a) ==
    /\ a \in [at : {"idle", "donations", "others", "save", "rank"}, of : SUBSET (DOMAIN donatedAt \cup DOMAIN markedAt)]
    /\ a.at = "others" => DonatedBefore(time) \subseteq a.of
    /\ a.at = "save" => EngagedBefore(time) \subseteq a.of
    /\ a.at = "rank" => Known \subseteq profile.of

ProfileInv ==
    /\ time \in 0..MaxFeedTime
    /\ DOMAIN donatedAt \cup DOMAIN markedAt \subseteq Campaigns
    /\ \A c \in DOMAIN donatedAt : donatedAt[c] \in 0..time
    /\ \A c \in DOMAIN markedAt : markedAt[c] \in 0..time
    /\ profile \in [of : SUBSET (DOMAIN donatedAt \cup DOMAIN markedAt), at : 0..time, exists : BOOLEAN]
    /\ profile.exists => EngagedBefore(profile.at) \subseteq profile.of
    /\ DOMAIN asking = FeedCalls /\ \A r \in FeedCalls : AskingOK(asking[r])

\* What was shown ranks at the cursor or above, what was not below it, or with the last of
\* a page; the first page takes from the whole pool.
ScrollOK(k) ==
    /\ ~k.twice
    /\ k.cursor = Top => IF k.done THEN InEveryPool \subseteq k.shown ELSE k.shown = {}
    /\ k.cursor # Top =>
        /\ ~k.done => \A c \in k.shown : Rank(c) >= k.cursor
        /\ \A c \in InEveryPool \ k.shown : (Rank(c) < k.cursor /\ ~k.done) \/ Rank(c) \in k.ends

ClientInv ==
    /\ client \in [cursor : Int, shown : SUBSET Campaigns, ends : SUBSET Int, moved : BOOLEAN, twice : BOOLEAN,
                   done : BOOLEAN]
    /\ client.cursor <= Top
    /\ ~client.moved => ScrollOK(client)

FeedInv == ProfileInv /\ ClientInv

\* What fits with all that is as high is among the highest.
LEMMA HighestHas ==
    ASSUME NEW S, IsFiniteSet(S), NEW n \in Nat, NEW value, \A x \in S : value[x] \in Int,
           NEW top \in Highest(S, n, value),
           NEW c \in S, Cardinality({x \in S : value[x] >= value[c]}) <= n
    PROVE  c \in top
<1> SUFFICES ASSUME c \notin top PROVE FALSE
  OBVIOUS
<1> DEFINE H == {x \in S : value[x] >= value[c]}
<1>1. /\ top \subseteq S /\ Cardinality(top) = (IF Cardinality(S) < n THEN Cardinality(S) ELSE n)
      /\ \A x \in top : value[c] <= value[x]
  BY DEF Highest
<1>2. IsFiniteSet(top) /\ IsFiniteSet(H) /\ Cardinality(top) \in Nat /\ Cardinality(H) \in Nat /\ Cardinality(S) \in Nat
  <2>1. H \subseteq S
    OBVIOUS
  <2> QED BY <1>1, <2>1, FS_Subset, FS_CardinalityType
<1>3. top \cup {c} \subseteq H
  BY <1>1
<1>4. IsFiniteSet(top \cup {c}) /\ Cardinality(top \cup {c}) = Cardinality(top) + 1
  BY <1>2, FS_AddElement
<1>5. Cardinality(H) <= n
  OBVIOUS
<1> HIDE DEF H
<1>6. Cardinality(top) + 1 <= Cardinality(H)
  BY <1>2, <1>3, <1>4, FS_Subset
<1>7. top # S
  OBVIOUS
<1>8. Cardinality(top) # Cardinality(S)
  BY <1>1, <1>7, FS_Subset
<1> QED BY <1>1, <1>2, <1>5, <1>6, <1>8

\* b has the rows of at, and more.
MoreRows(at, b) ==
    DOMAIN at \subseteq DOMAIN b /\ \A x \in DOMAIN at : b[x] = at[x]

\* A row that is among the newest was so before others came.
LEMMA NewestStays ==
    ASSUME NEW at, NEW b, MoreRows(at, b), IsFiniteSet(DOMAIN b), NEW c \in DOMAIN at, c \in Newest(b)
    PROVE  c \in Newest(at)
<1> DEFINE T == {x \in DOMAIN at : at[x] >= at[c]}
           U == {x \in DOMAIN b : b[x] >= b[c]}
<1>1. T \subseteq U /\ U \subseteq DOMAIN b
  BY DEF MoreRows
<1>2. IsFiniteSet(U) /\ Cardinality(T) <= Cardinality(U) /\ Cardinality(T) \in Nat /\ Cardinality(U) \in Nat
  BY <1>1, FS_Subset, FS_CardinalityType
<1>3. Cardinality(U) <= TakeLimit
  BY DEF Newest
<1>4. TakeLimit \in Nat
  BY FeedAssumption
<1>5. Cardinality(T) <= TakeLimit
  BY <1>2, <1>3, <1>4
<1> QED BY <1>5 DEF Newest

\* A rebuild reads the newest rows of a table.
LEMMA NewestAreTaken ==
    ASSUME NEW at, IsFiniteSet(DOMAIN at), \A x \in DOMAIN at : at[x] \in Int,
           NEW taken \in Highest(DOMAIN at, TakeLimit, at)
    PROVE  Newest(at) \subseteq taken /\ taken \subseteq DOMAIN at
<1>1. TakeLimit \in Nat
  BY FeedAssumption
<1>2. ASSUME NEW c \in Newest(at) PROVE c \in taken
  <2>1. c \in DOMAIN at /\ Cardinality({x \in DOMAIN at : at[x] >= at[c]}) <= TakeLimit
    BY DEF Newest
  <2> QED BY <1>1, <2>1, HighestHas
<1>3. taken \subseteq DOMAIN at
  BY DEF Highest
<1> QED BY <1>2, <1>3

\* Every campaign ranks below the top.
LEMMA RankBelowTop ==
    ASSUME ProfileInv
    PROVE  Top \in Int /\ \A c \in Campaigns : Rank(c) \in Int /\ Rank(c) < Top
<1> SUFFICES ASSUME NEW c \in Campaigns PROVE Top \in Int /\ Rank(c) \in Int /\ Rank(c) < Top
  BY FeedAssumption DEF Top
<1> DEFINE content == IF c \in profile.of THEN 4 ELSE 0
           freshness == MaxFeedTime + 3 - Age[c] - time
           penalty == IF c \in DOMAIN donatedAt THEN 7 ELSE 10
<1>1. MaxFeedTime \in Nat /\ Age[c] \in Nat /\ time \in Nat
  BY CampaignsAssumption, FeedAssumption DEF ProfileInv
<1>2. content \in 0..4 /\ penalty \in {7, 10}
  OBVIOUS
<1>3. Rank(c) = penalty * (content + freshness)
  BY DEF Rank
<1> HIDE DEF content, penalty
<1>4. content + freshness \in Int /\ content + freshness <= MaxFeedTime + 7
  BY <1>1, <1>2
<1>5. CASE penalty = 7
  BY <1>1, <1>3, <1>4, <1>5 DEF Top
<1>6. CASE penalty = 10
  BY <1>1, <1>3, <1>4, <1>6 DEF Top
<1> QED BY <1>2, <1>5, <1>6

\* A set of campaigns that is not empty has one of lowest rank.
LEMMA LowestRank ==
    ASSUME NEW s \in SUBSET Campaigns, s # {}, ProfileInv
    PROVE  \E c \in s : \A x \in s : Rank(c) <= Rank(x)
<1> DEFINE f == [c \in Campaigns |-> Rank(c)]
           K == {t \in SUBSET Campaigns : t # {} => \E c \in t : \A x \in t : f[c] <= f[x]}
<1>1. f \in [Campaigns -> Int]
  BY RankBelowTop
<1>2. \A c \in Campaigns : f[c] = Rank(c)
  OBVIOUS
<1> HIDE DEF f
<1>3. ASSUME NEW t \in SUBSET Campaigns, \A a \in t : t \ {a} \in K PROVE t \in K
  <2>1. CASE \E a \in t : t \ {a} # {}
    <3>1. PICK a \in t : t \ {a} # {}
      BY <2>1
    <3>2. PICK c \in t \ {a} : \A x \in t \ {a} : f[c] <= f[x]
      BY <1>3, <3>1
    <3>3. f[a] \in Int /\ f[c] \in Int /\ \A x \in t : f[x] \in Int
      BY <1>1
    <3>4. CASE f[a] <= f[c]
      <4>1. \A x \in t : f[a] <= f[x]
        BY <3>2, <3>3, <3>4
      <4> QED BY <4>1
    <3>5. CASE f[c] <= f[a]
      <4>1. \A x \in t : f[c] <= f[x]
        BY <3>2, <3>3, <3>5
      <4> QED BY <4>1
    <3> QED BY <3>3, <3>4, <3>5
  <2>2. CASE \A a \in t : t \ {a} = {}
    <3>1. \A a, x \in t : a = x
      BY <2>2
    <3>2. \A x \in t : f[x] <= f[x]
      BY <1>1
    <3>3. t # {} => \E c \in t : \A x \in t : f[c] <= f[x]
      BY <3>1, <3>2
    <3> QED BY <3>3
  <2> QED BY <2>1, <2>2
<1>4. IsFiniteSet(Campaigns)
  BY CampaignsAssumption
<1> HIDE DEF K
<1>5. \A t \in SUBSET Campaigns : t \in K
  BY <1>3, <1>4, SubsetInduction
<1>6. \E c \in s : \A x \in s : f[c] <= f[x]
  BY <1>5 DEF K
<1> QED BY <1>2, <1>6

\* A client whose ranks did not move still knows where it is; one whose ranks did is lost.
LEMMA ClientMoves ==
    ASSUME ClientInv, RanksMove PROVE ClientInv'
<1>1. CASE client.cursor # Top /\ Ranks' # Ranks
  <2>1. client' = Lost
    BY <1>1 DEF RanksMove
  <2>2. Top \in Int /\ Top' = Top
    BY FeedAssumption DEF Top
  <2>3. client' = [cursor |-> Top, shown |-> {}, ends |-> {}, moved |-> TRUE, twice |-> FALSE, done |-> FALSE]
    BY <2>1 DEF Lost, Unread
  <2>4. /\ client' \in [cursor : Int, shown : SUBSET Campaigns, ends : SUBSET Int, moved : BOOLEAN, twice : BOOLEAN,
                        done : BOOLEAN]
        /\ client'.cursor = Top /\ client'.moved
    BY <2>2, <2>3
  <2> QED BY <2>2, <2>4 DEF ClientInv
<1>2. CASE client.cursor = Top
  <2>1. client' = client
    BY <1>2 DEF RanksMove
  <2> QED BY <1>2, <2>1 DEF ClientInv, ScrollOK
<1>3. CASE Ranks' = Ranks
  <2>1. client' = client
    BY <1>3 DEF RanksMove
  <2>2. \A c \in Campaigns : Rank(c)' = Rank(c)
    <3> SUFFICES ASSUME NEW c \in Campaigns PROVE Rank(c)' = Rank(c)
      OBVIOUS
    <3>1. Ranks[c] = Rank(c) /\ Ranks'[c] = Rank(c)'
      BY DEF Ranks
    <3> QED BY <1>3, <3>1
  <2>3. client.shown \subseteq Campaigns
    BY DEF ClientInv
  <2>5. InEveryPool' = InEveryPool /\ InEveryPool \subseteq Campaigns
    BY DEF InEveryPool, Candidates, Highest
  <2> HIDE DEF Rank
  <2>4. ASSUME ScrollOK(client) PROVE ScrollOK(client)'
    BY <2>1, <2>2, <2>3, <2>4, <2>5 DEF ScrollOK, Top
  <2> QED BY <2>1, <2>4 DEF ClientInv, Top
<1> QED BY <1>1, <1>2, <1>3

\* A client that starts from the top has been shown nothing.
LEMMA UnreadOK == client = Unread => ClientInv
<1>1. Top \in Int
  BY FeedAssumption DEF Top
<1> QED BY <1>1 DEF Unread, ClientInv, ScrollOK

\* At first the user has done nothing.
LEMMA FeedInitOK == FeedInit => FeedInv
<1> SUFFICES ASSUME FeedInit PROVE FeedInv
  OBVIOUS
<1>1. ClientInv
  BY UnreadOK DEF FeedInit
<1>2. ProfileInv
  BY FeedAssumption DEF FeedInit, ProfileInv, AskingOK, NoProfile, NotAsking
<1> QED BY <1>1, <1>2 DEF FeedInv

\* The requests of the user, before they are given a page.
LEMMA ProfileStep ==
    ASSUME ProfileInv, FeedNext PROVE ProfileInv'
<1> USE FeedAssumption
<1>0. /\ \A r \in FeedCalls : AskingOK(asking[r])
      /\ time \in Nat /\ profile.at \in Nat /\ profile.at <= time
  BY DEF ProfileInv
<1>13. Newest(donatedAt) \subseteq DOMAIN donatedAt /\ Newest(markedAt) \subseteq DOMAIN markedAt
  BY DEF Newest
<1>9. /\ IsFiniteSet(DOMAIN donatedAt) /\ \A x \in DOMAIN donatedAt : donatedAt[x] \in Int
      /\ IsFiniteSet(DOMAIN markedAt) /\ \A x \in DOMAIN markedAt : markedAt[x] \in Int
  BY CampaignsAssumption, FS_Subset DEF ProfileInv
<1>10. \A taken \in Highest(DOMAIN donatedAt, TakeLimit, donatedAt) : Newest(donatedAt) \subseteq taken /\ taken \subseteq DOMAIN donatedAt
  BY <1>9, NewestAreTaken
<1>11. \A taken \in Highest(DOMAIN markedAt, TakeLimit, markedAt) : Newest(markedAt) \subseteq taken /\ taken \subseteq DOMAIN markedAt
  BY <1>9, NewestAreTaken
<1>1. ASSUME NEW c \in Campaigns, Engage(c) PROVE ProfileInv'
  <2>1. UNCHANGED <<time, profile, asking>>
    BY <1>1 DEF Engage
  <2>2. /\ DOMAIN donatedAt \subseteq DOMAIN donatedAt' /\ DOMAIN markedAt \subseteq DOMAIN markedAt'
        /\ DOMAIN donatedAt' \cup DOMAIN markedAt' \subseteq Campaigns
        /\ \A x \in DOMAIN donatedAt' : donatedAt'[x] = time \/ (x \in DOMAIN donatedAt /\ donatedAt'[x] = donatedAt[x])
        /\ \A x \in DOMAIN markedAt' : markedAt'[x] = time \/ (x \in DOMAIN markedAt /\ markedAt'[x] = markedAt[x])
    BY <1>1 DEF Engage, ProfileInv
  <2>3. /\ \A x \in DOMAIN donatedAt' : donatedAt'[x] \in 0..time
        /\ \A x \in DOMAIN markedAt' : markedAt'[x] \in 0..time
    BY <1>0, <2>2 DEF ProfileInv
  <2>7. /\ \A x \in Newest(donatedAt') : (x \in Newest(donatedAt) /\ donatedAt'[x] = donatedAt[x]) \/ donatedAt'[x] = time
        /\ \A x \in Newest(markedAt') : (x \in Newest(markedAt) /\ markedAt'[x] = markedAt[x]) \/ markedAt'[x] = time
    <3>1. IsFiniteSet(DOMAIN donatedAt') /\ IsFiniteSet(DOMAIN markedAt')
      BY <2>2, CampaignsAssumption, FS_Subset
    <3>2. MoreRows(donatedAt, donatedAt') /\ MoreRows(markedAt, markedAt')
      BY <1>1 DEF Engage, MoreRows
    <3>3. Newest(donatedAt') \subseteq DOMAIN donatedAt' /\ Newest(markedAt') \subseteq DOMAIN markedAt'
      BY DEF Newest
    <3> QED BY <2>2, <3>1, <3>2, <3>3, NewestStays
  <2>4. /\ DonatedBefore(time)' \subseteq DonatedBefore(time)
        /\ EngagedBefore(time)' \subseteq EngagedBefore(time)
        /\ EngagedBefore(profile.at)' \subseteq EngagedBefore(profile.at)
    BY <1>0, <2>1, <2>7 DEF DonatedBefore, EngagedBefore
  <2>5. Known' \subseteq Known
    BY <1>0, <2>1, <2>7 DEF Known
  <2>6. \A r \in FeedCalls : AskingOK(asking[r])'
    <3> QED BY <1>0, <2>1, <2>2, <2>4, <2>5 DEF AskingOK
  <2> QED BY <1>0, <2>1, <2>2, <2>3, <2>4, <2>6 DEF ProfileInv
<1>2. ASSUME Later PROVE ProfileInv'
  <2>1. /\ time' = time + 1 /\ time < MaxFeedTime /\ \A r \in FeedCalls : asking[r].at = "idle"
        /\ UNCHANGED <<donatedAt, markedAt, profile, asking>>
    BY <1>2 DEF Later
  <2>2. \A r \in FeedCalls : AskingOK(asking[r])'
    BY <1>0, <2>1 DEF AskingOK
  <2>3. EngagedBefore(profile.at)' = EngagedBefore(profile.at)
    BY <2>1 DEF EngagedBefore, DonatedBefore
  <2>4. time' \in 0..MaxFeedTime /\ \A n \in 0..time : n \in 0..time'
    BY <1>0, <2>1
  <2> QED BY <1>0, <2>1, <2>2, <2>3, <2>4 DEF ProfileInv
<1>3. ASSUME NEW r \in FeedCalls, NEW a, AskingOK(a), asking'[r] = a, DOMAIN asking' = FeedCalls,
             \A q \in FeedCalls : q # r => asking'[q] = asking[q],
             UNCHANGED <<time, donatedAt, markedAt, profile>>
      PROVE  ProfileInv'
  <2>1. \A q \in FeedCalls : asking'[q] = IF q = r THEN a ELSE asking[q]
    BY <1>3
  <2>3. \A q \in FeedCalls : AskingOK(asking[q])'
    <3> SUFFICES ASSUME NEW q \in FeedCalls PROVE AskingOK(asking[q])'
      OBVIOUS
    <3> DEFINE b == asking'[q]
    <3>1. b = IF q = r THEN a ELSE asking[q]
      BY <2>1
    <3> HIDE DEF b
    <3>2. AskingOK(b)
      BY <1>0, <1>3, <3>1
    <3>3. b \in [at : {"idle", "donations", "others", "save", "rank"}, of : SUBSET (DOMAIN donatedAt \cup DOMAIN markedAt)]
      BY <3>2 DEF AskingOK
    <3> QED BY <1>3, <3>2, <3>3 DEF AskingOK, DonatedBefore, EngagedBefore, Known, b
  <2> QED BY <1>3, <2>3 DEF ProfileInv, EngagedBefore, DonatedBefore
<1>4. ASSUME NEW r \in FeedCalls, refreshIfStale(r) PROVE ProfileInv'
  <2> DEFINE a == [at |-> IF profile.exists /\ time - profile.at < StaleAfter THEN "rank" ELSE "donations", of |-> {}]
  <2>1. /\ asking'[r] = a /\ DOMAIN asking' = FeedCalls /\ \A q \in FeedCalls : q # r => asking'[q] = asking[q]
        /\ UNCHANGED <<time, donatedAt, markedAt, profile>>
    BY <1>4 DEF refreshIfStale, NotAsking, ProfileInv
  <2>2. AskingOK(a)
    <3>1. profile.exists /\ time - profile.at < StaleAfter => Known \subseteq EngagedBefore(profile.at)
      BY <1>0, <1>13 DEF Known, EngagedBefore, DonatedBefore, ProfileInv
    <3>2. a.at = "rank" => Known \subseteq profile.of
      BY <3>1 DEF ProfileInv
    <3> QED BY <3>2 DEF AskingOK
  <2> HIDE DEF a
  <2> QED BY <1>3, <2>1, <2>2
<1>5. ASSUME NEW r \in FeedCalls, ReadDonations(r) PROVE ProfileInv'
  <2>0. PICK taken \in Highest(DOMAIN donatedAt, TakeLimit, donatedAt) :
            asking' = [asking EXCEPT ![r].at = "others", ![r].of = taken]
    BY <1>5 DEF ReadDonations
  <2> DEFINE a == [at |-> "others", of |-> taken]
  <2>1. AskingOK(asking[r]) /\ asking[r] = [at |-> asking[r].at, of |-> asking[r].of]
    BY <1>0 DEF AskingOK
  <2>2. /\ asking'[r] = a /\ DOMAIN asking' = FeedCalls /\ \A q \in FeedCalls : q # r => asking'[q] = asking[q]
        /\ UNCHANGED <<time, donatedAt, markedAt, profile>>
    BY <1>5, <2>0, <2>1 DEF ReadDonations, ProfileInv
  <2>3. AskingOK(a)
    BY <1>10 DEF AskingOK, DonatedBefore
  <2> HIDE DEF a
  <2> QED BY <1>3, <2>2, <2>3
<1>6. ASSUME NEW r \in FeedCalls, ReadOthers(r) PROVE ProfileInv'
  <2>0. PICK taken \in Highest(DOMAIN markedAt, TakeLimit, markedAt) :
            asking' = [asking EXCEPT ![r].at = "save", ![r].of = asking[r].of \cup taken]
    BY <1>6 DEF ReadOthers
  <2> DEFINE a == [at |-> "save", of |-> asking[r].of \cup taken]
  <2>1. AskingOK(asking[r]) /\ asking[r] = [at |-> asking[r].at, of |-> asking[r].of] /\ asking[r].at = "others"
    BY <1>0, <1>6 DEF AskingOK, ReadOthers
  <2>2. /\ asking'[r] = a /\ DOMAIN asking' = FeedCalls /\ \A q \in FeedCalls : q # r => asking'[q] = asking[q]
        /\ UNCHANGED <<time, donatedAt, markedAt, profile>>
    BY <1>6, <2>0, <2>1 DEF ReadOthers, ProfileInv
  <2>3. AskingOK(a)
    BY <1>11, <2>1 DEF AskingOK, DonatedBefore, EngagedBefore
  <2> HIDE DEF a
  <2> QED BY <1>3, <2>2, <2>3
<1>7. ASSUME NEW r \in FeedCalls, SaveProfile(r) PROVE ProfileInv'
  <2>1. AskingOK(asking[r]) /\ asking[r] = [at |-> asking[r].at, of |-> asking[r].of] /\ asking[r].at = "save"
    BY <1>0, <1>7 DEF AskingOK, SaveProfile
  <2>2. asking[r].of \subseteq DOMAIN donatedAt \cup DOMAIN markedAt /\ EngagedBefore(time) \subseteq asking[r].of
    BY <2>1 DEF AskingOK
  <2>3. Known \subseteq EngagedBefore(time)
    BY <1>0, <1>13 DEF Known, EngagedBefore, DonatedBefore, ProfileInv
  <2> DEFINE a == [at |-> "rank", of |-> {}]
  <2>4. CASE profile.exists /\ asking' = [asking EXCEPT ![r] = NotAsking] /\ UNCHANGED profile
    <3>1. AskingOK(NotAsking)
      BY DEF AskingOK, NotAsking
    <3>2. /\ asking'[r] = NotAsking /\ DOMAIN asking' = FeedCalls
          /\ \A q \in FeedCalls : q # r => asking'[q] = asking[q]
      BY <2>4 DEF ProfileInv
    <3> QED BY <1>3, <1>7, <2>4, <3>1, <3>2 DEF SaveProfile
  <2>5. CASE profile.of = asking[r].of /\ UNCHANGED profile
             /\ asking' = [asking EXCEPT ![r] = [NotAsking EXCEPT !.at = "rank"]]
    <3>1. asking'[r] = a /\ DOMAIN asking' = FeedCalls /\ \A q \in FeedCalls : q # r => asking'[q] = asking[q]
      BY <2>1, <2>5 DEF ProfileInv, NotAsking
    <3>2. AskingOK(a)
      BY <2>2, <2>3, <2>5 DEF AskingOK
    <3> HIDE DEF a
    <3> QED BY <1>3, <1>7, <2>5, <3>1, <3>2 DEF SaveProfile
  <2>6. CASE /\ profile' = [of |-> asking[r].of, at |-> time, exists |-> TRUE]
             /\ asking' = [asking EXCEPT ![r] = [NotAsking EXCEPT !.at = "rank"]]
    <3>1. /\ asking'[r] = a /\ DOMAIN asking' = FeedCalls /\ \A q \in FeedCalls : q # r => asking'[q] = asking[q]
          /\ UNCHANGED <<time, donatedAt, markedAt>>
      BY <1>7, <2>1, <2>6 DEF ProfileInv, SaveProfile, NotAsking
    <3>2. \A q \in FeedCalls : asking'[q] = IF q = r THEN a ELSE asking[q]
      BY <3>1
    <3>3. Known' = Known /\ EngagedBefore(time)' = EngagedBefore(time) /\ DonatedBefore(time)' = DonatedBefore(time)
      BY <3>1 DEF Known, EngagedBefore, DonatedBefore
    <3>4. \A q \in FeedCalls : AskingOK(asking[q])'
      <4> SUFFICES ASSUME NEW q \in FeedCalls PROVE AskingOK(asking[q])'
        OBVIOUS
      <4>1. CASE q = r
        BY <2>2, <2>3, <2>6, <3>1, <3>2, <3>3, <4>1 DEF AskingOK
      <4>2. CASE q # r
        BY <1>0, <2>2, <2>3, <2>6, <3>1, <3>2, <3>3, <4>2 DEF AskingOK
      <4> QED BY <4>1, <4>2
    <3>5. EngagedBefore(profile.at)' = EngagedBefore(time)
      BY <2>6, <3>1 DEF EngagedBefore, DonatedBefore
    <3> HIDE DEF a
    <3> QED BY <1>0, <2>2, <2>6, <3>1, <3>4, <3>5 DEF ProfileInv
  <2> HIDE DEF a
  <2> QED BY <1>7, <2>4, <2>5, <2>6 DEF SaveProfile
<1>8. ASSUME NEW r \in FeedCalls, getForYouFeed(r) PROVE ProfileInv'
  <2>1. AskingOK(NotAsking)
    BY DEF AskingOK, NotAsking
  <2>2. /\ asking'[r] = NotAsking /\ DOMAIN asking' = FeedCalls
        /\ \A q \in FeedCalls : q # r => asking'[q] = asking[q]
    BY <1>8 DEF ProfileInv, getForYouFeed
  <2> QED BY <1>3, <1>8, <2>1, <2>2 DEF getForYouFeed
<1>12. ASSUME PullToRefresh PROVE ProfileInv'
  BY <1>12 DEF PullToRefresh, ProfileInv, AskingOK, DonatedBefore, EngagedBefore, Known
<1> QED BY <1>1, <1>2, <1>4, <1>5, <1>6, <1>7, <1>8, <1>12 DEF FeedNext

\* The page the client is given takes it further down, and to the end if it is not full.
LEMMA PageOK ==
    ASSUME ProfileInv, ClientInv, ~client.moved, ~client.done,
           NEW ranked \in Candidates, NEW chunk \in PageOf(ranked, client.cursor),
           NEW full, full = (Cardinality(chunk) = PageLimit),
           client' = [client EXCEPT
                    !.cursor = IF full THEN Rank(LastOn(chunk)) ELSE client.cursor,
                    !.ends = IF full THEN client.ends \cup {Rank(LastOn(chunk))} ELSE client.ends,
                    !.shown = client.shown \cup chunk, !.twice = client.twice \/ client.shown \cap chunk # {},
                    !.done = ~full],
           UNCHANGED <<time, donatedAt, markedAt, profile>>
    PROVE  ClientInv'
<1> DEFINE B == {c \in ranked : Rank(c) < client.cursor}
           k == client'
<1>0. /\ Top \in Int /\ Top' = Top /\ \A c \in Campaigns : Rank(c) \in Int /\ Rank(c) < Top
      /\ \A c : Rank(c)' = Rank(c)
  <2>1. Top \in Int /\ \A c \in Campaigns : Rank(c) \in Int /\ Rank(c) < Top
    BY RankBelowTop
  <2> QED BY <2>1 DEF Rank, Top
<1>1. chunk \subseteq B /\ B \subseteq Campaigns /\ \A c \in B : Rank(c) < client.cursor
  BY DEF PageOf, Highest, Candidates
<1>2. \A c \in chunk, x \in B \ chunk : Rank(x) <= Rank(c)
  <2>1. \A c \in chunk, x \in B \ chunk : Ranks[x] <= Ranks[c]
    BY DEF PageOf, Highest
  <2>2. \A c \in Campaigns : Ranks[c] = Rank(c)
    BY DEF Ranks
  <2> QED BY <1>1, <2>1, <2>2
<1>3. InEveryPool \subseteq Campaigns /\ \A c \in InEveryPool \ B : ~(Rank(c) < client.cursor)
  BY DEF InEveryPool
<1>4. IsFiniteSet(B) /\ IsFiniteSet(chunk) /\ Cardinality(B) \in Nat /\ Cardinality(chunk) \in Nat
  BY <1>1, CampaignsAssumption, FS_Subset, FS_CardinalityType
<1>5. ~full => chunk = B
  <2>1. ~full => Cardinality(chunk) = Cardinality(B)
    BY DEF PageOf, Highest
  <2> QED BY <1>1, <1>4, <2>1, FS_Subset
<1>6. full => chunk # {}
  BY FS_EmptySet, FeedAssumption
<1>7. full => LastOn(chunk) \in chunk /\ \A x \in chunk : Rank(LastOn(chunk)) <= Rank(x)
  <2> SUFFICES ASSUME full PROVE \E c \in chunk : \A x \in chunk : Rank(c) <= Rank(x)
    BY DEF LastOn
  <2> QED BY <1>1, <1>6, LowestRank
<1> DEFINE low == Rank(LastOn(chunk))
<1>8. full => low \in Int /\ low < client.cursor /\ low < Top /\ \A x \in chunk : low <= Rank(x)
  BY <1>0, <1>1, <1>7
<1>9. full => \A x \in B \ chunk : Rank(x) <= low
  BY <1>2, <1>7
<1> HIDE DEF low, B
<1>10. /\ client.cursor \in Int /\ client.cursor <= Top /\ client.shown \subseteq Campaigns /\ client.ends \subseteq Int
       /\ ~client.twice
       /\ client.cursor = Top => client.shown = {}
       /\ client.cursor # Top =>
            /\ \A c \in client.shown : Rank(c) >= client.cursor
            /\ \A c \in InEveryPool \ client.shown : Rank(c) < client.cursor \/ Rank(c) \in client.ends
  BY DEF ClientInv, ScrollOK
<1>11. /\ k \in [cursor : Int, shown : SUBSET Campaigns, ends : SUBSET Int, moved : BOOLEAN, twice : BOOLEAN,
                   done : BOOLEAN]
       /\ k.cursor = (IF full THEN low ELSE client.cursor)
       /\ k.ends = (IF full THEN client.ends \cup {low} ELSE client.ends)
       /\ k.shown = client.shown \cup chunk /\ (k.twice <=> client.shown \cap chunk # {}) /\ (k.done <=> ~full)
  <2>1. /\ client \in [cursor : Int, shown : SUBSET Campaigns, ends : SUBSET Int, moved : BOOLEAN, twice : BOOLEAN,
                   done : BOOLEAN]
        /\ chunk \subseteq Campaigns /\ full \in BOOLEAN /\ (full => low \in Int)
    BY <1>1, <1>8 DEF ClientInv
  <2>2. client' = [client EXCEPT
                    !.cursor = IF full THEN low ELSE client.cursor,
                    !.ends = IF full THEN client.ends \cup {low} ELSE client.ends,
                    !.shown = client.shown \cup chunk, !.twice = client.twice \/ client.shown \cap chunk # {},
                    !.done = ~full]
    BY DEF low
  <2>3. ~client.twice
    BY <1>10
  <2>4. /\ k.cursor = (IF full THEN low ELSE client.cursor)
        /\ k.ends = (IF full THEN client.ends \cup {low} ELSE client.ends)
        /\ k.shown = client.shown \cup chunk
        /\ k.twice = (client.twice \/ client.shown \cap chunk # {}) /\ k.done = ~full /\ k.moved = client.moved
    BY <2>1, <2>2
  <2>5. /\ DOMAIN k = DOMAIN client
        /\ k = [x \in DOMAIN client |-> k[x]]
    BY <2>2
  <2>6. DOMAIN client = {"cursor", "shown", "ends", "moved", "twice", "done"}
    BY <2>1
  <2>7. k = [cursor |-> k.cursor, shown |-> k.shown, ends |-> k.ends, moved |-> k.moved, twice |-> k.twice, done |-> k.done]
    BY <2>5, <2>6
  <2>8. /\ k.cursor \in Int /\ k.shown \in SUBSET Campaigns /\ k.ends \in SUBSET Int
        /\ k.moved \in BOOLEAN /\ k.twice \in BOOLEAN /\ k.done \in BOOLEAN
    BY <2>1, <2>4
  <2>9. (k.twice <=> client.shown \cap chunk # {}) /\ (k.done <=> ~full)
    BY <2>3, <2>4
  <2> HIDE DEF k
  <2>10. k \in [cursor : Int, shown : SUBSET Campaigns, ends : SUBSET Int, moved : BOOLEAN, twice : BOOLEAN,
                   done : BOOLEAN]
    BY <2>7, <2>8
  <2> QED BY <2>4, <2>9, <2>10
<1>12. k.cursor <= Top
  <2>1. CASE full
    <3>1. k.cursor = low /\ low < Top /\ low \in Int /\ Top \in Int
      BY <1>0, <1>8, <1>11, <2>1
    <3> QED BY <3>1
  <2>2. CASE ~full
    <3>1. k.cursor = client.cursor /\ client.cursor <= Top
      BY <1>10, <1>11, <2>2
    <3> QED BY <3>1
  <2> QED BY <2>1, <2>2
<1>13. client.shown \cap chunk = {}
  BY <1>0, <1>1, <1>10
<1> HIDE DEF k
<1>14. ScrollOK(k)
  <2>1. CASE full
    <3>1. k.cursor # Top /\ k.cursor = low /\ ~k.done
      BY <1>0, <1>8, <1>11, <2>1
    <3>2. \A c \in k.shown : Rank(c) >= k.cursor
      <4> SUFFICES ASSUME NEW c \in k.shown PROVE Rank(c) >= low
        BY <3>1
      <4>1. Rank(c) \in Int /\ low \in Int
        BY <1>0, <1>1, <1>8, <1>10, <1>11, <2>1
      <4>2. CASE c \in chunk
        BY <1>8, <2>1, <4>1, <4>2
      <4>3. CASE c \in client.shown
        <5>1. Rank(c) >= client.cursor
          BY <1>10, <4>3
        <5> QED BY <1>8, <1>10, <2>1, <4>1, <5>1
      <4> QED BY <1>11, <4>2, <4>3
    <3>3. \A c \in InEveryPool \ k.shown : Rank(c) < k.cursor \/ Rank(c) \in k.ends
      <4> SUFFICES ASSUME NEW c \in InEveryPool, c \notin client.shown, c \notin chunk
                   PROVE  Rank(c) < low \/ Rank(c) \in k.ends
        BY <1>11, <3>1
      <4>0. c \in Campaigns
        BY <1>3
      <4>1. CASE c \in B
        <5>1. Rank(c) <= low /\ Rank(c) \in Int /\ low \in Int
          BY <1>0, <1>8, <1>9, <2>1, <4>0, <4>1
        <5>2. low \in k.ends
          BY <1>11, <2>1
        <5> QED BY <5>1, <5>2
      <4>2. CASE c \notin B
        <5>1. ~(Rank(c) < client.cursor)
          BY <1>3, <4>2
        <5>2. Rank(c) \in client.ends
          BY <1>0, <1>8, <1>10, <2>1, <4>0, <5>1
        <5> QED BY <1>11, <2>1, <5>2
      <4> QED BY <4>1, <4>2
    <3> QED BY <1>11, <1>13, <3>1, <3>2, <3>3 DEF ScrollOK
  <2>2. CASE ~full
    <3>1. k.cursor = client.cursor /\ k.ends = client.ends /\ k.shown = client.shown \cup B /\ k.done
      BY <1>5, <1>11, <2>2
    <3>2. CASE k.cursor = Top
      <4>1. InEveryPool \subseteq k.shown
        BY <1>0, <1>1, <1>3, <1>10, <3>1, <3>2
      <4> QED BY <1>11, <1>13, <3>1, <3>2, <4>1 DEF ScrollOK
    <3>3. CASE k.cursor # Top
      <4>1. \A c \in InEveryPool \ k.shown : Rank(c) \in k.ends
        BY <1>0, <1>3, <1>10, <3>1, <3>3
      <4> QED BY <1>11, <1>13, <3>1, <3>3, <4>1 DEF ScrollOK
    <3> QED BY <3>2, <3>3
  <2> QED BY <2>1, <2>2
<1>15. ScrollOK(client)'
  BY <1>0, <1>14 DEF ScrollOK, k
<1> QED BY <1>0, <1>11, <1>12, <1>15 DEF ClientInv, k

\* Engaging, time, rebuilding and scrolling keep what the profile knows and where the
\* client is.
LEMMA FeedStep == FeedInv /\ FeedNext => FeedInv'
<1> SUFFICES ASSUME ProfileInv, ClientInv, FeedNext PROVE ClientInv'
  BY ProfileStep DEF FeedInv
<1>1. ASSUME UNCHANGED client, UNCHANGED <<time, donatedAt, markedAt, profile>> PROVE ClientInv'
  <2>1. Top' = Top /\ \A c : Rank(c)' = Rank(c)
    BY <1>1 DEF Top, Rank
  <2>2. ScrollOK(client) => ScrollOK(client)'
    BY <1>1, <2>1 DEF ScrollOK
  <2> QED BY <1>1, <2>1, <2>2 DEF ClientInv
<1>2. ASSUME NEW r \in FeedCalls, getForYouFeed(r) PROVE ClientInv'
  <2>1. CASE UNCHANGED client
    BY <1>1, <1>2, <2>1 DEF getForYouFeed
  <2>2. CASE ~ UNCHANGED client
    <3>1. UNCHANGED <<time, donatedAt, markedAt, profile>> /\ ~client.moved /\ ~client.done
      BY <1>2, <2>2 DEF getForYouFeed
    <3>3. PICK ranked \in Candidates : \E chunk \in PageOf(ranked, client.cursor) :
               LET full == Cardinality(chunk) = PageLimit IN
               client' = [client EXCEPT
                    !.cursor = IF full THEN Rank(LastOn(chunk)) ELSE @,
                    !.ends = IF full THEN @ \cup {Rank(LastOn(chunk))} ELSE @,
                    !.shown = @ \cup chunk, !.twice = @ \/ client.shown \cap chunk # {}, !.done = ~full]
      BY <1>2, <2>2 DEF getForYouFeed
    <3>2. PICK chunk \in PageOf(ranked, client.cursor) :
               LET full == Cardinality(chunk) = PageLimit IN
               client' = [client EXCEPT
                    !.cursor = IF full THEN Rank(LastOn(chunk)) ELSE @,
                    !.ends = IF full THEN @ \cup {Rank(LastOn(chunk))} ELSE @,
                    !.shown = @ \cup chunk, !.twice = @ \/ client.shown \cap chunk # {}, !.done = ~full]
      BY <3>3
    <3> QED BY <3>1, <3>2, PageOK
  <2> QED BY <2>1, <2>2
<1>3. ASSUME PullToRefresh PROVE ClientInv'
  <2>1. client' = Unread /\ Unread' = Unread
    BY <1>3 DEF PullToRefresh, Unread, Top
  <2>2. Top \in Int /\ Top' = Top
    BY FeedAssumption DEF Top
  <2> QED BY <2>1, <2>2 DEF Unread, ClientInv, ScrollOK
<1>4. CASE \E c \in Campaigns : Engage(c)
  BY <1>4, ClientMoves DEF Engage
<1>5. CASE Later
  BY <1>5, ClientMoves DEF Later
<1>6. CASE \E r \in FeedCalls : SaveProfile(r)
  BY <1>6, ClientMoves DEF SaveProfile
<1>7. CASE \E r \in FeedCalls : refreshIfStale(r) \/ ReadDonations(r) \/ ReadOthers(r)
  BY <1>1, <1>7 DEF refreshIfStale, ReadDonations, ReadOthers
<1> QED BY <1>2, <1>3, <1>4, <1>5, <1>6, <1>7 DEF FeedNext

\* The invariant speaks of the feed alone.
LEMMA FeedPageStays == FeedInv /\ UNCHANGED feedVars => FeedInv'
<1> SUFFICES ASSUME ProfileInv, ClientInv, UNCHANGED feedVars PROVE ProfileInv' /\ ClientInv'
  BY DEF FeedInv
<1>1. ProfileInv'
  BY DEF feedVars, ProfileInv, AskingOK, DonatedBefore, EngagedBefore, Known
<1>2. ClientInv'
  BY DEF feedVars, ClientInv, ScrollOK, Rank, Top
<1> QED BY <1>1, <1>2

\* What the run checks of the feed follows.
LEMMA FeedHolds == FeedInv => FeedTypeOK /\ KnowsWhatIsOld /\ ScrolledToTheEnd
<1> SUFFICES ASSUME ProfileInv, ClientInv PROVE FeedTypeOK /\ KnowsWhatIsOld /\ ScrolledToTheEnd
  BY DEF FeedInv
<1>1. KnowsWhatIsOld
  BY DEF ProfileInv, AskingOK, KnowsWhatIsOld, Known
<1>2. ScrolledToTheEnd
  BY DEF ClientInv, ScrollOK, ScrolledToTheEnd
<1>3. FeedTypeOK
  BY DEF ProfileInv, AskingOK, ClientInv, FeedTypeOK
<1> QED BY <1>1, <1>2, <1>3

-----------------------------------------------------------------------------
(* The page visitors donate on *)

Tab == [at : Shown \cup Serving, typed : DonorRows \cup {Anybody}, account : DonorRows \cup {Anybody},
        ref : ChargeRefs \cup {NoRef}]

\* Tab t, when it shows k: the server works for a visitor who typed something, books to an
\* account of theirs that is there, and looks again for an address somebody has, unless the
\* number or the name was lost; who pays has a row, who was thanked was charged.
TabOK(t, k) ==
    /\ k.at \in Serving => k.typed \in Emails \X Phones
    /\ k.at \in {"insert", "paying", "confirming"} =>
        k.account[1] = k.typed[1] \/ k.account[2] = k.typed[2]
    /\ k.at = "insert" => k.account \in accounts
    /\ k.at = "retry" => t \in unlucky \/ \E a \in accounts : a[1] = k.typed[1]
    /\ k.at = "paying" => k.ref \in DOMAIN pending
    /\ k.at \in {"confirming", "thanked"} => k.ref \in charged

TabsInv == tab \in [Tabs -> Tab] /\ \A t \in Tabs, k \in Tab : tab[t] = k => TabOK(t, k)

AccountsInv ==
    /\ accounts \subseteq DonorRows
    /\ \A a, b \in accounts : a[1] = b[1] \/ (a[2] = b[2] /\ a[2] # Missing) => a = b

DonationsInv ==
    /\ DOMAIN pending \subseteq ChargeRefs /\ \A ref \in DOMAIN pending : pending[ref] \in accounts
    /\ charged \subseteq DOMAIN pending /\ donated \subseteq charged
    /\ refused \subseteq unlucky /\ unlucky \subseteq Tabs

DonorInv == TabsInv /\ AccountsInv /\ DonationsInv

\* At first nobody typed anything.
LEMMA DonorInitOK == ChampionInit => DonorInv
<1> SUFFICES ASSUME ChampionInit PROVE DonorInv
  OBVIOUS
<1>1. Blank \in Tab /\ Blank.at = "ready"
  BY DEF Blank, Tab, Shown
<1>2. \A t \in Tabs : TabOK(t, Blank)
  BY <1>1 DEF TabOK, Serving
<1>3. TabsInv
  BY <1>1, <1>2 DEF ChampionInit, TabsInv
<1>4. AccountsInv /\ DonationsInv
  BY DEF ChampionInit, AccountsInv, DonationsInv
<1> QED BY <1>3, <1>4 DEF DonorInv

\* The tables only grow, and a tab may turn to something else.
TablesGrow ==
    /\ accounts \subseteq accounts' /\ unlucky \subseteq unlucky' /\ charged \subseteq charged'
    /\ DOMAIN pending \subseteq DOMAIN pending'

\* What a tab shows remains true while the tables grow.
LEMMA TabKeeps == ASSUME NEW t, NEW k, TabOK(t, k), TablesGrow PROVE TabOK(t, k)'
BY DEF TabOK, TablesGrow

\* Tab t turns to k, the others stay.
LEMMA TabTurns ==
    ASSUME TabsInv, TablesGrow, NEW t \in Tabs, NEW k \in Tab, tab' = [tab EXCEPT ![t] = k], TabOK(t, k)'
    PROVE  TabsInv'
<1>1. tab' \in [Tabs -> Tab] /\ \A q \in Tabs : tab'[q] = IF q = t THEN k ELSE tab[q]
  BY DEF TabsInv
<1>2. ASSUME NEW q \in Tabs, NEW m \in Tab, tab'[q] = m PROVE TabOK(q, m)'
  <2>1. CASE q = t
    BY <1>1, <1>2, <2>1
  <2>2. CASE q # t
    <3>1. TabOK(q, m)
      BY <1>1, <1>2, <2>2 DEF TabsInv
    <3> QED BY <3>1, TabKeeps
  <2> QED BY <2>1, <2>2
<1> QED BY <1>1, <1>2 DEF TabsInv

\* No tab turns.
LEMMA TabsKeep == ASSUME TabsInv, TablesGrow, UNCHANGED tab PROVE TabsInv'
<1>1. ASSUME NEW q \in Tabs, NEW m \in Tab, tab'[q] = m PROVE TabOK(q, m)'
  <2>1. TabOK(q, m)
    BY <1>1 DEF TabsInv
  <2> QED BY <2>1, TabKeeps
<1> QED BY <1>1 DEF TabsInv

\* What a tab shows, field by field.
LEMMA TabIs ==
    ASSUME TabsInv, NEW t \in Tabs
    PROVE  \E m \in Tab : tab[t] = m /\ TabOK(t, m)
BY DEF TabsInv

\* A tab that goes on keeps what was typed, the account and the reference, unless it is
\* back at the start.
LEMMA GoesTo ==
    ASSUME TabsInv, NEW t \in Tabs, NEW m \in Tab, tab[t] = m, NEW at \in Shown \cup Serving, Goes(t, at)
    PROVE  \E k \in Tab : /\ tab' = [tab EXCEPT ![t] = k]
                          /\ k.at = at
                          /\ at # "ready" => k.typed = m.typed /\ k.account = m.account /\ k.ref = m.ref
<1>1. CASE at = "ready"
  <2>1. Blank \in Tab /\ Blank.at = at
    BY <1>1 DEF Blank, Tab, Shown
  <2>2. tab' = [tab EXCEPT ![t] = Blank]
    BY <1>1 DEF Goes
  <2> QED BY <1>1, <2>1, <2>2
<1>2. CASE at # "ready"
  <2> DEFINE k == [m EXCEPT !.at = at]
  <2>1. k \in Tab /\ k.at = at /\ k.typed = m.typed /\ k.account = m.account /\ k.ref = m.ref
    BY DEF Tab
  <2>2. tab' = [tab EXCEPT ![t] = k]
    BY <1>2 DEF Goes
  <2> QED BY <2>1, <2>2
<1> QED BY <1>1, <1>2

\* An account was found or created.
LEMMA ResolvedTo ==
    ASSUME TabsInv, NEW t \in Tabs, NEW m \in Tab, tab[t] = m, NEW a \in DonorRows, Resolved(t, a)
    PROVE  \E k \in Tab : /\ tab' = [tab EXCEPT ![t] = k]
                          /\ k.at = "insert" /\ k.typed = m.typed /\ k.account = a /\ k.ref = m.ref
<1> DEFINE k == [m EXCEPT !.at = "insert", !.account = a]
<1>1. k.at = "insert" /\ k.typed = m.typed /\ k.account = a /\ k.ref = m.ref
  BY DEF Tab
<1>2. k \in Tab
  BY DEF Tab, Serving
<1>3. tab' = [tab EXCEPT ![t] = k]
  BY DEF Resolved
<1> QED BY <1>1, <1>2, <1>3

\* The account that was found is the visitor's, and is there.
LEMMA FoundOK ==
    ASSUME TabsInv, TablesGrow, NEW t \in Tabs, NEW m \in Tab, tab[t] = m, m.typed \in Emails \X Phones,
           NEW a \in DonorRows, a \in accounts', a[1] = m.typed[1] \/ a[2] = m.typed[2], Resolved(t, a)
    PROVE  TabsInv'
<1>1. PICK k \in Tab : /\ tab' = [tab EXCEPT ![t] = k]
                       /\ k.at = "insert" /\ k.typed = m.typed /\ k.account = a /\ k.ref = m.ref
  BY ResolvedTo
<1>2. TabOK(t, k)'
  BY <1>1 DEF TabOK
<1> QED BY <1>1, <1>2, TabTurns

\* The server goes on looking.
LEMMA LooksOn ==
    ASSUME TabsInv, TablesGrow, NEW t \in Tabs, NEW m \in Tab, tab[t] = m, m.typed \in Emails \X Phones,
           NEW at \in {"ready", "email", "phone", "collision", "create", "suffixed", "retry"}, Goes(t, at),
           at = "retry" => t \in unlucky' \/ \E a \in accounts' : a[1] = m.typed[1]
    PROVE  TabsInv'
<1>1. PICK k \in Tab : tab' = [tab EXCEPT ![t] = k] /\ k.at = at /\ (at # "ready" => k.typed = m.typed)
  BY GoesTo DEF Shown, Serving
<1>2. TabOK(t, k)'
  BY <1>1 DEF TabOK, Serving
<1> QED BY <1>1, <1>2, TabTurns

\* Where only tabs turn, the tables stay as they are.
LEMMA TablesStay ==
    ASSUME AccountsInv, DonationsInv, UNCHANGED <<accounts, pending, charged, donated, refused, unlucky>>
    PROVE  AccountsInv' /\ DonationsInv' /\ TablesGrow
BY DEF AccountsInv, DonationsInv, TablesGrow

\* Steps of the server.
LEMMA ServerStep ==
    ASSUME DonorInv, NEW t \in Tabs,
           \/ FindByEmail(t) \/ FindByPhone(t) \/ CheckPhone(t) \/ CreateDonor(t) \/ RefetchByEmail(t)
           \/ LookupFails(t) \/ InsertPending(t)
    PROVE  DonorInv'
<1>0. TabsInv /\ AccountsInv /\ DonationsInv /\ accounts \subseteq DonorRows
  BY DEF DonorInv, AccountsInv
<1>m. PICK m \in Tab : tab[t] = m /\ TabOK(t, m)
  BY <1>0, TabIs
<1>t. m.at \in Serving => m.typed \in Emails \X Phones
  BY <1>m DEF TabOK
<1>1. CASE FindByEmail(t)
  <2>1. m.typed \in Emails \X Phones /\ AccountsInv' /\ DonationsInv' /\ TablesGrow /\ UNCHANGED accounts
    BY <1>0, <1>m, <1>t, <1>1, TablesStay DEF FindByEmail, Serving, Payments_
  <2>2. TabsInv'
    BY <1>0, <1>m, <1>1, <2>1, FoundOK, LooksOn DEF FindByEmail
  <2> QED BY <2>1, <2>2 DEF DonorInv
<1>2. CASE FindByPhone(t)
  <2>1. m.typed \in Emails \X Phones /\ AccountsInv' /\ DonationsInv' /\ TablesGrow /\ UNCHANGED accounts
    BY <1>0, <1>m, <1>t, <1>2, TablesStay DEF FindByPhone, Serving, Payments_
  <2>2. TabsInv'
    BY <1>0, <1>m, <1>2, <2>1, FoundOK, LooksOn DEF FindByPhone
  <2> QED BY <2>1, <2>2 DEF DonorInv
<1>3. CASE CheckPhone(t)
  <2>1. m.typed \in Emails \X Phones /\ AccountsInv' /\ DonationsInv' /\ TablesGrow /\ UNCHANGED accounts
    BY <1>0, <1>m, <1>t, <1>3, TablesStay DEF CheckPhone, Serving, Payments_
  <2>2. Goes(t, "suffixed") \/ Goes(t, "create")
    BY <1>3 DEF CheckPhone
  <2>3. TabsInv'
    BY <1>0, <1>m, <2>1, <2>2, LooksOn
  <2> QED BY <2>1, <2>3 DEF DonorInv
<1>4. CASE CreateDonor(t)
  <2> DEFINE new == IF tab[t].at = "create" THEN tab[t].typed ELSE <<tab[t].typed[1], Missing>>
             email == \E a \in accounts : a[1] = new[1]
             number == new[2] # Missing /\ \E a \in accounts : a[2] = new[2]
  <2>1. /\ m.typed \in Emails \X Phones /\ UNCHANGED <<pending, charged, donated, refused>>
        /\ \/ ~email /\ ~number /\ accounts' = accounts \cup {new} /\ Resolved(t, new) /\ UNCHANGED unlucky
           \/ ~email /\ Goes(t, "retry") /\ unlucky' = unlucky \cup {t} /\ UNCHANGED accounts
           \/ email /\ Goes(t, "retry") /\ UNCHANGED <<accounts, unlucky>>
    BY <1>m, <1>t, <1>4 DEF CreateDonor, Serving, Payments_
  <2>2. new[1] = m.typed[1] /\ new \in DonorRows
    BY <1>m, <2>1 DEF DonorRows
  <2> HIDE DEF new
  <2>3. TablesGrow
    BY <2>1 DEF TablesGrow
  <2>4. DonationsInv'
    BY <1>0, <2>1 DEF DonationsInv
  <2>5. CASE ~email /\ ~number /\ accounts' = accounts \cup {new} /\ Resolved(t, new)
    <3>1. TabsInv'
      BY <1>0, <1>m, <2>1, <2>2, <2>3, <2>5, FoundOK
    <3>2. AccountsInv'
      BY <1>0, <2>2, <2>5 DEF AccountsInv
    <3> QED BY <2>4, <3>1, <3>2 DEF DonorInv
  <2>6. CASE /\ Goes(t, "retry") /\ UNCHANGED accounts /\ unlucky' = unlucky \cup {t}
    <3>1. TabsInv' /\ AccountsInv'
      BY <1>0, <1>m, <2>1, <2>3, <2>6, LooksOn DEF AccountsInv
    <3> QED BY <2>4, <3>1 DEF DonorInv
  <2>7. CASE email /\ Goes(t, "retry") /\ UNCHANGED accounts
    <3>1. TabsInv' /\ AccountsInv'
      BY <1>0, <1>m, <2>1, <2>2, <2>3, <2>7, LooksOn DEF AccountsInv
    <3> QED BY <2>4, <3>1 DEF DonorInv
  <2> QED BY <2>1, <2>5, <2>6, <2>7
<1>5. CASE RefetchByEmail(t)
  <2>1. m.at = "retry" /\ m.typed \in Emails \X Phones /\ UNCHANGED <<accounts, pending, charged, donated, unlucky>>
    BY <1>m, <1>t, <1>5 DEF RefetchByEmail, Serving, Payments_
  <2>2. AccountsInv' /\ TablesGrow
    BY <1>0, <2>1 DEF AccountsInv, TablesGrow
  <2>3. TabsInv'
    BY <1>0, <1>m, <1>5, <2>1, <2>2, FoundOK, LooksOn DEF RefetchByEmail
  <2>4. refused' \subseteq unlucky'
    <3>1. t \in unlucky \/ \E a \in accounts : a[1] = m.typed[1]
      BY <1>m, <2>1 DEF TabOK
    <3> QED BY <1>0, <1>m, <1>5, <2>1, <3>1 DEF RefetchByEmail, DonationsInv
  <2>5. DonationsInv'
    BY <1>0, <2>1, <2>4 DEF DonationsInv
  <2> QED BY <2>2, <2>3, <2>5 DEF DonorInv
<1>6. CASE InsertPending(t)
  <2>1. /\ m.at = "insert" /\ m.typed \in Emails \X Phones /\ UNCHANGED <<accounts, charged, donated, refused, unlucky>>
        /\ m.account \in accounts /\ (m.account[1] = m.typed[1] \/ m.account[2] = m.typed[2])
    BY <1>m, <1>t, <1>6 DEF InsertPending, Serving, TabOK
  <2>2. AccountsInv'
    BY <1>0, <2>1 DEF AccountsInv
  <2>3. CASE Goes(t, "ready") /\ UNCHANGED pending
    BY <1>0, <1>m, <2>1, <2>3, TablesStay, LooksOn DEF DonorInv
  <2>4. ASSUME NEW ref \in ChargeRefs \ DOMAIN pending,
               pending' = [q \in DOMAIN pending \cup {ref} |-> IF q = ref THEN tab[t].account ELSE pending[q]],
               tab' = [tab EXCEPT ![t].at = "paying", ![t].ref = ref]
        PROVE  DonorInv'
    <3> DEFINE k == [m EXCEPT !.at = "paying", !.ref = ref]
    <3>1. k.at = "paying" /\ k.typed = m.typed /\ k.account = m.account /\ k.ref = ref
      BY DEF Tab
    <3>2. k \in Tab
      BY DEF Tab, Shown
    <3>3. tab' = [tab EXCEPT ![t] = k]
      BY <1>m, <2>4
    <3> HIDE DEF k
    <3>4. DOMAIN pending' = DOMAIN pending \cup {ref} /\ TablesGrow
      BY <2>1, <2>4 DEF TablesGrow
    <3>5. TabOK(t, k)'
      BY <2>1, <3>1, <3>4 DEF TabOK, Serving
    <3>6. TabsInv'
      BY <1>0, <3>2, <3>3, <3>4, <3>5, TabTurns
    <3>7. DonationsInv'
      BY <1>0, <1>m, <2>1, <2>4, <3>4 DEF DonationsInv
    <3> QED BY <2>2, <3>6, <3>7 DEF DonorInv
  <2> QED BY <1>6, <2>3, <2>4 DEF InsertPending
<1>7. CASE LookupFails(t)
  <2>1. /\ m.typed \in Emails \X Phones /\ Goes(t, "ready") /\ UNCHANGED <<accounts, pending, charged, donated>>
        /\ refused' = refused \cup {t} /\ unlucky' = unlucky \cup {t}
    BY <1>m, <1>t, <1>7 DEF LookupFails, Serving, Payments_
  <2>2. AccountsInv' /\ DonationsInv' /\ TablesGrow
    BY <1>0, <2>1 DEF AccountsInv, DonationsInv, TablesGrow
  <2>3. TabsInv'
    BY <1>0, <1>m, <2>1, <2>2, LooksOn
  <2> QED BY <2>2, <2>3 DEF DonorInv
<1> QED BY <1>1, <1>2, <1>3, <1>4, <1>5, <1>6, <1>7

\* Steps of the browser and of Paystack.
LEMMA BrowserStep ==
    ASSUME DonorInv, NEW t \in Tabs,
           \/ PaystackCallback(t) \/ onClose(t) \/ confirm(t) \/ Leave(t) \/ \E typed \in Emails \X Phones : click(t, typed)
    PROVE  DonorInv'
<1>0. TabsInv /\ AccountsInv /\ DonationsInv
  BY DEF DonorInv
<1>m. PICK m \in Tab : tab[t] = m /\ TabOK(t, m)
  BY <1>0, TabIs
<1>1. CASE PaystackCallback(t)
  <2>1. /\ m.at = "paying" /\ charged' = charged \cup {m.ref} /\ Goes(t, "confirming")
        /\ UNCHANGED <<accounts, pending, donated, refused, unlucky>>
    BY <1>m, <1>1 DEF PaystackCallback
  <2>2. PICK k \in Tab : /\ tab' = [tab EXCEPT ![t] = k]
                         /\ k.at = "confirming" /\ k.typed = m.typed /\ k.account = m.account /\ k.ref = m.ref
    BY <1>0, <1>m, <2>1, GoesTo DEF Shown
  <2>3. TabOK(t, k)' /\ TablesGrow
    BY <1>m, <2>1, <2>2 DEF TabOK, TablesGrow, Serving
  <2>4. TabsInv'
    BY <1>0, <2>2, <2>3, TabTurns
  <2>5. AccountsInv' /\ DonationsInv'
    BY <1>0, <1>m, <2>1 DEF AccountsInv, DonationsInv, TabOK
  <2> QED BY <2>4, <2>5 DEF DonorInv
<1>2. CASE onClose(t)
  <2>1. Goes(t, "ready") /\ AccountsInv' /\ DonationsInv' /\ TablesGrow
    BY <1>0, <1>2, TablesStay DEF onClose, Payments_
  <2>2. PICK k \in Tab : tab' = [tab EXCEPT ![t] = k] /\ k.at = "ready"
    BY <1>0, <1>m, <2>1, GoesTo DEF Shown
  <2>3. TabOK(t, k)'
    BY <2>2 DEF TabOK, Serving
  <2> QED BY <1>0, <2>1, <2>2, <2>3, TabTurns DEF DonorInv
<1>3. CASE confirm(t)
  <2>1. /\ m.at = "confirming" /\ UNCHANGED <<accounts, pending, charged, refused, unlucky>>
        /\ donated' \subseteq charged
        /\ Goes(t, "thanked") \/ Goes(t, "ready")
    BY <1>0, <1>m, <1>3 DEF confirm, DonationsInv
  <2>2. PICK k \in Tab : tab' = [tab EXCEPT ![t] = k] /\ k.at \in {"thanked", "ready"}
                         /\ (k.at = "thanked" => k.ref = m.ref)
    BY <1>0, <1>m, <2>1, GoesTo DEF Shown
  <2>3. TabOK(t, k)' /\ TablesGrow
    BY <1>m, <2>1, <2>2 DEF TabOK, TablesGrow, Serving
  <2>4. TabsInv'
    BY <1>0, <2>2, <2>3, TabTurns
  <2>5. AccountsInv' /\ DonationsInv'
    BY <1>0, <2>1 DEF AccountsInv, DonationsInv
  <2> QED BY <2>4, <2>5 DEF DonorInv
<1>4. ASSUME Leave(t) PROVE DonorInv'
  <2>1. tab' = [tab EXCEPT ![t] = Blank] /\ AccountsInv' /\ DonationsInv' /\ TablesGrow
    BY <1>0, <1>4, TablesStay DEF Leave, Payments_
  <2>2. Blank \in Tab /\ Blank.at = "ready"
    BY DEF Blank, Tab, Shown
  <2>3. TabOK(t, Blank)'
    BY <2>2 DEF TabOK, Serving
  <2> QED BY <1>0, <2>1, <2>2, <2>3, TabTurns DEF DonorInv
<1>5. ASSUME NEW typed \in Emails \X Phones, click(t, typed) PROVE DonorInv'
  <2> DEFINE k == [Blank EXCEPT !.at = "email", !.typed = typed]
  <2>1. tab' = [tab EXCEPT ![t] = k] /\ AccountsInv' /\ DonationsInv' /\ TablesGrow
    BY <1>0, <1>5, TablesStay DEF click, Payments_
  <2>2. Blank \in Tab
    BY DEF Blank, Tab, Shown
  <2>3. k.at = "email" /\ k.typed = typed
    BY <2>2 DEF Tab
  <2>4. typed \in DonorRows
    BY DEF DonorRows
  <2>5. k \in Tab
    BY <2>2, <2>4 DEF Tab, Serving
  <2> HIDE DEF k
  <2>6. TabOK(t, k)'
    BY <2>3 DEF TabOK
  <2> QED BY <1>0, <2>1, <2>5, <2>6, TabTurns DEF DonorInv
<1> QED BY <1>1, <1>2, <1>3, <1>4, <1>5

\* Visitors and Paystack, in any order.
LEMMA DonorStep == DonorInv /\ ChampionNext => DonorInv'
<1> SUFFICES ASSUME DonorInv, ChampionNext PROVE DonorInv'
  OBVIOUS
<1>1. ASSUME NEW ref \in ChargeRefs, PaystackLater(ref) \/ PaystackWebhook(ref) PROVE DonorInv'
  <2>1. TablesGrow /\ UNCHANGED <<accounts, tab, pending, refused, unlucky>>
    BY <1>1 DEF PaystackLater, PaystackWebhook, TablesGrow
  <2>2. TabsInv'
    BY <2>1, TabsKeep DEF DonorInv
  <2>3. AccountsInv' /\ DonationsInv'
    BY <1>1, <2>1 DEF DonorInv, AccountsInv, DonationsInv, PaystackLater, PaystackWebhook
  <2> QED BY <2>2, <2>3 DEF DonorInv
<1> QED BY <1>1, ServerStep, BrowserStep DEF ChampionNext

\* The invariant speaks of the page and its donations alone.
LEMMA DonorStays == DonorInv /\ UNCHANGED championVars => DonorInv'
<1> SUFFICES ASSUME DonorInv, UNCHANGED championVars PROVE DonorInv'
  OBVIOUS
<1>1. UNCHANGED <<accounts, tab, pending, charged, donated, refused, unlucky>>
  BY DEF championVars
<1>2. AccountsInv' /\ DonationsInv' /\ TablesGrow
  BY <1>1, TablesStay DEF DonorInv
<1> QED BY <1>1, <1>2, TabsKeep DEF DonorInv

\* What the run checks of the page follows.
LEMMA DonorHolds ==
    DonorInv => ChampionTypeOK /\ BookedToVisitor /\ AddressTurnsNobodyAway /\ ChargeHasARow
<1> SUFFICES ASSUME DonorInv PROVE ChampionTypeOK /\ BookedToVisitor /\ AddressTurnsNobodyAway /\ ChargeHasARow
  OBVIOUS
<1>1. \A t \in Tabs : tab[t] \in Tab /\ TabOK(t, tab[t])
  BY DEF DonorInv, TabsInv
<1>2. ChampionTypeOK
  BY DEF DonorInv, TabsInv, AccountsInv, DonationsInv, ChampionTypeOK, Tab
<1>3. BookedToVisitor
  BY <1>1 DEF BookedToVisitor, TabOK
<1>4. AddressTurnsNobodyAway
  BY DEF DonorInv, DonationsInv, AddressTurnsNobodyAway
<1>5. ChargeHasARow
  BY <1>1 DEF DonorInv, DonationsInv, ChargeHasARow, TabOK
<1> QED BY <1>2, <1>3, <1>4, <1>5

-----------------------------------------------------------------------------
(* The components together *)

\* The components keep their invariants while one of them takes a step.
CommunityInv ==
    /\ part \in CommunityParts
    /\ PageInv /\ MoneyInv /\ LinkInv /\ TeamInv /\ BooksInv /\ RowInv /\ SupportInv /\ FeedInv /\ DonorInv

\* What no step of any component does.
TakesNothing == ClosedAtStart /\ FirstAnswerStands /\ LinkStays /\ InsightIsKept

\* A step of one component leaves the others as they were.
LEMMA StepCommunity == CommunityInv /\ [CommunityNext]_communityVars => CommunityInv' /\ TakesNothing
<1> SUFFICES ASSUME CommunityInv, [CommunityNext]_communityVars PROVE CommunityInv' /\ TakesNothing
  OBVIOUS
<1>0. /\ part \in CommunityParts
      /\ PageInv /\ MoneyInv /\ LinkInv /\ TeamInv /\ BooksInv /\ RowInv /\ SupportInv /\ FeedInv /\ DonorInv
  BY DEF CommunityInv
<1>1. /\ part' = part
      /\ PageNext \/ UNCHANGED pageVars
      /\ MoneyNext \/ UNCHANGED moneyVars
      /\ LinkNext \/ UNCHANGED linkVars
      /\ TeamNext \/ UNCHANGED teamVars
      /\ BooksNext \/ UNCHANGED bookVars
      /\ CampaignNext \/ UNCHANGED campaignVars
      /\ MarksNext \/ GiftsNext \/ UNCHANGED supportVars
      /\ FeedNext \/ UNCHANGED feedVars
      /\ ChampionNext \/ UNCHANGED championVars
  BY DEF CommunityNext, communityVars
<1>2. PageInv' /\ ClosedAtStart
  BY <1>0, <1>1, PageStep, PageStays
<1>3. MoneyInv'
  BY <1>0, <1>1, MoneyStep, MoneyStays
<1>4. LinkInv'
  BY <1>0, <1>1, LinkStep, LinksStay
<1>5. TeamInv' /\ FirstAnswerStands
  BY <1>0, <1>1, TeamStep, TeamStays
<1>6. BooksInv'
  BY <1>0, <1>1, BooksStep, BooksStay
<1>7. RowInv' /\ LinkStays
  BY <1>0, <1>1, RowStep, PageRowStays
<1>8. SupportInv' /\ InsightIsKept
  BY <1>0, <1>1, MarksStep, GiftsStep, InsightStep, SupportStays DEF SupportNext
<1>9. FeedInv'
  BY <1>0, <1>1, FeedStep, FeedPageStays
<1>10. DonorInv'
  BY <1>0, <1>1, DonorStep, DonorStays
<1> QED
  BY <1>0, <1>1, <1>2, <1>3, <1>4, <1>5, <1>6, <1>7, <1>8, <1>9, <1>10 DEF CommunityInv, TakesNothing

\* The components keep their invariants together.
LEMMA CommunityKeeps == CommunitySpec => []CommunityInv
<1>1. CommunityInit => CommunityInv
  BY PageInitOK, MoneyInitOK, LinkInitOK, TeamInitOK, BooksInitOK, RowInitOK, SupportInitOK, FeedInitOK, DonorInitOK
     DEF CommunityInit, CommunityInv
<1>2. CommunityInv /\ [CommunityNext]_communityVars => CommunityInv'
  BY StepCommunity
<1> QED
  BY <1>1, <1>2, PTL DEF CommunitySpec

\* Every variable of the event and campaign components keeps its shape, whatever people,
\* requests and amounts there are.
THEOREM CommunityTyped == CommunitySpec => []CommunityTypeOK
<1>1. ASSUME CommunityInv PROVE CommunityTypeOK
  <2>1. /\ PageTypeOK /\ MoneyTypeOK /\ LinkTypeOK /\ TeamTypeOK /\ BooksTypeOK /\ CampaignTypeOK
        /\ SupportTypeOK /\ FeedTypeOK /\ ChampionTypeOK
    BY <1>1, PageHolds, MoneyHolds, LinksHold, TeamHolds, BooksHold, RowHolds, SupportHolds, FeedHolds, DonorHolds
       DEF CommunityInv
  <2>2. part \in {"page", "money", "links", "team", "books", "campaign", "marks", "gifts", "feed", "donor"}
    BY <1>1 DEF CommunityInv, CommunityParts
  <2> QED
    BY <2>1, <2>2 DEF CommunityTypeOK
<1> QED
  BY <1>1, CommunityKeeps, PTL

\* What the pages count is counted once, however requests and webhooks overlap: gifts and
\* the money behind them, seats, invitations, follows, likes, links, donors without an account.
THEOREM Counted == CommunitySpec => []CountedOnce
<1>1. ASSUME CommunityInv PROVE CountedOnce
  <2>1. /\ OneSeatPerPerson /\ OneRowPerOrganizer
        /\ RaisedIsSum /\ PaidByGiver /\ MoneyBehindGifts
        /\ OneLinkUnlessRaced
        /\ InvitedOnce /\ FollowedOnce
    BY <1>1, PageHolds, MoneyHolds, LinksHold, TeamHolds DEF CommunityInv
  <2>2. RaisedIsGiven /\ LikesAreVisitors /\ BookedToVisitor /\ AddressTurnsNobodyAway /\ ChargeHasARow
    BY <1>1, RowHolds, SupportHolds, DonorHolds DEF CommunityInv
  <2> QED
    BY <2>1, <2>2 DEF CountedOnce
<1> QED
  BY <1>1, CommunityKeeps, PTL

\* What the public is shown is what the rows say, in every component.
THEOREM PublicShown == CommunitySpec => []PublicShowsTheRows
<1>1. ASSUME CommunityInv PROVE PublicShowsTheRows
  <2>1. PublishedIsComplete /\ SeatIsListed /\ LinkLeadsHome /\ CacheFollowsTable /\ ListedByInvitee
    BY <1>1, PageHolds, LinksHold, TeamHolds DEF CommunityInv
  <2>2. RemovedIsGone /\ EditsAddUp /\ TagsAreThere /\ TopDonorMayBeNamed /\ KnowsWhatIsOld /\ ScrolledToTheEnd
    BY <1>1, BooksHold, RowHolds, SupportHolds, FeedHolds DEF CommunityInv
  <2> QED
    BY <2>1, <2>2 DEF PublicShowsTheRows
<1> QED
  BY <1>1, CommunityKeeps, PTL

\* No seat once the event has begun, no second answer to an invitation, no other link for a
\* campaign, no insight lost by being on the team: in every step of every component.
THEOREM NothingTakenBack == CommunitySpec => NothingIsTakenBack
<1>1. CommunityInv /\ [CommunityNext]_communityVars =>
        [ClosedAtStart /\ FirstAnswerStands /\ LinkStays /\ InsightIsKept]_communityVars
  BY StepCommunity DEF TakesNothing
<1> QED
  BY <1>1, CommunityKeeps, PTL DEF CommunitySpec, NothingIsTakenBack
=============================================================================
