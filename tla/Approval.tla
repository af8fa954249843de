------------------------------ MODULE Approval ------------------------------
(***************************************************************************)
(* What the platform promises about the approval of a disbursement: the    *)
(* picked donors are asked one after the other, each answers at most once  *)
(* and only in its turn, two alike decide at once, and when the last has   *)
(* been asked without two alike it is rejected.  The owner may withdraw it *)
(* until then.  What is decided stays, and only an approved one is carried *)
(* out.                                                                    *)
(***************************************************************************)
EXTENDS Naturals

VARIABLES
    panel,      \* how many donors are picked
    turn,       \* the one being asked, counted from 0
    verdict,
    approving, rejecting    \* the donors who answered so

Init ==
    /\ panel \in 1..3 /\ turn = 0 /\ verdict = "pending"
    /\ approving = {} /\ rejecting = {}

Open == verdict = "pending"

\* Two alike decide: the answer given now and one given before.
Decide(earlier, outcome) ==
    verdict' = IF earlier = {} THEN verdict ELSE outcome

Approve ==
    /\ Open /\ turn \notin approving \cup rejecting
    /\ approving' = approving \cup {turn}
    /\ Decide(approving, "approved")
    /\ UNCHANGED <<panel, turn, rejecting>>

Reject ==
    /\ Open /\ turn \notin approving \cup rejecting
    /\ rejecting' = rejecting \cup {turn}
    /\ Decide(rejecting, "rejected")
    /\ UNCHANGED <<panel, turn, approving>>

AskNext ==
    /\ Open /\ turn + 1 < panel
    /\ turn' = turn + 1
    /\ UNCHANGED <<panel, verdict, approving, rejecting>>

NoQuorum ==
    /\ Open /\ turn + 1 = panel
    /\ verdict' = "rejected"
    /\ UNCHANGED <<panel, turn, approving, rejecting>>

Withdraw ==
    /\ Open
    /\ verdict' = "cancelled"
    /\ UNCHANGED <<panel, turn, approving, rejecting>>

Execute ==
    /\ verdict = "approved"
    /\ verdict' = "executed"
    /\ UNCHANGED <<panel, turn, approving, rejecting>>

Next == Approve \/ Reject \/ AskNext \/ NoQuorum \/ Withdraw \/ Execute

Spec == Init /\ [][Next]_<<panel, turn, verdict, approving, rejecting>>
=============================================================================
