-------------------------- MODULE WithdrawalProofs --------------------------
(***************************************************************************)
(* Proofs about Withdrawal, for any number of concurrent webhook           *)
(* deliveries, superfluous deliveries and crashes, and for both schemas of *)
(* the log: type correctness, a failed withdrawal has given its money      *)
(* back, a settled one is not reopened, a paid one is not refunded, a      *)
(* failed one is refunded no more often than deliveries overlap.           *)
(***************************************************************************)
EXTENDS Withdrawal, FiniteSetTheorems, TLAPS

\* A delivery that is about to change the withdrawal.
Settling == {"completeWd", "completeTx", "refund"}

\* Why the worker cannot reopen a settled withdrawal: the handlers find it by
\* its transfer code, which the worker saves last.
CodeInv ==
    /\ code => worker = "done"
    /\ wd \in Final \/ tx \in Final => code
    /\ wd = "none" => tx = "none" /\ ~code /\ worker = "idle"
    /\ \A d \in Deliveries : pc[d] \in Settling => code

\* What Paystack has sent says where its transfer is, and a delivery carries
\* what was sent: a refund is only under way, or made, when the transfer failed
\* or was reversed.
EventInv ==
    /\ worker \in {"idle", "markWd", "markTx", "call"} => gateway = "none"
    /\ wd = "none" => worker = "idle"
    /\ worker = "idle" => wd = "none"
    /\ gateway \in {"none", "pending"} => sent = {}
    /\ gateway = "success" => sent = {"success"}
    /\ \A d \in Deliveries : pc[d] # "idle" => evt[d] \in sent
    /\ \A d \in Deliveries : pc[d] = "refund" => evt[d] # "success"
    /\ refunds > 0 => gateway \in {"failed", "reversed"}

\* Before a reversal a transfer sends one event, so nothing completes what
\* failed; and every refund uses up a delivery that found the withdrawal open.
Refunding == {d \in Deliveries : pc[d] = "refund"}

OverlapInv ==
    /\ gateway = "failed" => sent = {"failed"}
    /\ \A d \in Deliveries : pc[d] \in {"completeWd", "completeTx"} => evt[d] = "success"
    /\ gateway # "reversed" /\ wd # "failed" => refunds = 0
    /\ gateway # "reversed" /\ wd = "failed" =>
           refunds + Cardinality(Refunding) <= Cardinality(Deliveries)

-----------------------------------------------------------------------------
(* Type correctness *)

\* The type invariant holds in the beginning.
LEMMA InitType == Init => TypeOK
<1> SUFFICES ASSUME Init PROVE TypeOK
  OBVIOUS
<1>1. /\ dups \in 0..MaxDups /\ refunds \in Nat
      /\ errors \in 0..MaxErrors /\ crashes \in 0..MaxCrashes
  BY BoundsAssumption DEF Init
<1>2. /\ pc \in [Deliveries -> {"idle", "lookup", "insert", "find", "completeWd",
                              "completeTx", "refund", "mark"}]
      /\ evt \in [Deliveries -> Events]
      /\ row \in [Deliveries -> Deliveries]
      /\ logs \in [Deliveries -> {"none", "open", "done"}]
  BY DEF Init, Events
<1>3. /\ wd = "none" /\ tx = "none" /\ code = FALSE /\ frozen = FALSE
      /\ worker = "idle" /\ gateway = "none" /\ sent = {} /\ acked = {}
      /\ uniqueLog \in UniqueLogs
  BY DEF Init
<1> QED
  BY <1>1, <1>2, <1>3 DEF TypeOK

\* A delivery that is answered is at rest again.
LEMMA Answers ==
    ASSUME TypeOK, NEW d \in Deliveries, Answer(d)
    PROVE  /\ pc' \in [Deliveries -> {"idle", "lookup", "insert", "find", "completeWd",
                                     "completeTx", "refund", "mark"}]
           /\ acked' \subseteq Events
<1>1. evt[d] \in Events /\ acked \subseteq Events
  BY DEF TypeOK
<1>2. acked' = acked \cup {evt[d]}
  BY DEF Answer
<1> QED
  BY <1>1, <1>2 DEF Answer, TypeOK

\* Every step keeps the type invariant.
LEMMA StepType == TypeOK /\ [Next]_vars => TypeOK'
<1> SUFFICES ASSUME TypeOK, [Next]_vars PROVE TypeOK'
  OBVIOUS
<1> USE BoundsAssumption DEF db, paystack, handler, faults, Final, Events
<1>1. CASE requestWithdrawal
  BY <1>1 DEF TypeOK, requestWithdrawal
<1>2. CASE WorkerMarksWithdrawal
  BY <1>2 DEF TypeOK, WorkerMarksWithdrawal
<1>3. CASE WorkerMarksTransaction
  BY <1>3 DEF TypeOK, WorkerMarksTransaction
<1>4. CASE WorkerInitiatesTransfer
  BY <1>4 DEF TypeOK, WorkerInitiatesTransfer
<1>5. CASE WorkerCallFails
  BY <1>5 DEF TypeOK, WorkerCallFails
<1>6. CASE WorkerSavesCode
  BY <1>6 DEF TypeOK, WorkerSavesCode
<1>7. CASE freezeWallet
  BY <1>7 DEF TypeOK, freezeWallet
<1>8. CASE GatewayDecides
  <2>1. CASE GatewayEmits("pending", "success")
    BY <2>1 DEF TypeOK, GatewayEmits
  <2>2. CASE GatewayEmits("pending", "failed")
    BY <2>2 DEF TypeOK, GatewayEmits
  <2> QED
    BY <1>8, <2>1, <2>2 DEF GatewayDecides
<1>9. CASE GatewayReverses
  BY <1>9 DEF TypeOK, GatewayReverses, GatewayEmits
<1>10. CASE Crash
  BY <1>10 DEF TypeOK, Crash
<1>11. ASSUME NEW d \in Deliveries, NEW e \in Events, Deliver(d, e) PROVE TypeOK'
  BY <1>11 DEF TypeOK, Deliver, InFlight
<1>12. ASSUME NEW d \in Deliveries, LookupLog(d) PROVE TypeOK'
  <2>1. CASE UNCHANGED <<acked, row>> /\ pc' = [pc EXCEPT ![d] = "insert"]
    BY <1>12, <2>1 DEF TypeOK, LookupLog
  <2>2. CASE Answer(d) /\ UNCHANGED row
    BY <1>12, <2>2, Answers DEF TypeOK, LookupLog
  <2>3. ASSUME NEW x \in Deliveries, row' = [row EXCEPT ![d] = x],
               pc' = [pc EXCEPT ![d] = "find"], UNCHANGED acked
        PROVE  TypeOK'
    BY <1>12, <2>3 DEF TypeOK, LookupLog
  <2> QED
    BY <1>12, <2>1, <2>2, <2>3 DEF LookupLog
<1>13. ASSUME NEW d \in Deliveries, InsertLog(d) PROVE TypeOK'
  <2>1. CASE Answer(d) /\ UNCHANGED <<row, logs>>
    BY <1>13, <2>1, Answers DEF TypeOK, InsertLog
  <2>2. CASE /\ logs' = [logs EXCEPT ![d] = "open"]
             /\ row' = [row EXCEPT ![d] = d]
             /\ pc' = [pc EXCEPT ![d] = "find"]
             /\ UNCHANGED acked
    BY <1>13, <2>2 DEF TypeOK, InsertLog
  <2> QED
    BY <1>13, <2>1, <2>2 DEF InsertLog
<1>14. ASSUME NEW d \in Deliveries, FindWithdrawal(d) PROVE TypeOK'
  BY <1>14 DEF TypeOK, FindWithdrawal
<1>15. ASSUME NEW d \in Deliveries, CompleteWithdrawal(d) PROVE TypeOK'
  BY <1>15 DEF TypeOK, CompleteWithdrawal
<1>16. ASSUME NEW d \in Deliveries, CompleteTransaction(d) PROVE TypeOK'
  BY <1>16 DEF TypeOK, CompleteTransaction
<1>17. ASSUME NEW d \in Deliveries, Refund(d) PROVE TypeOK'
  <2>1. CASE Answer(d) /\ UNCHANGED <<wd, tx, refunds>>
    BY <1>17, <2>1, Answers DEF TypeOK, Refund
  <2>2. CASE /\ refunds' = refunds + 1 /\ wd' = "failed" /\ tx' = "failed"
             /\ pc' = [pc EXCEPT ![d] = "mark"]
             /\ UNCHANGED acked
    BY <1>17, <2>2 DEF TypeOK, Refund
  <2> QED
    BY <1>17, <2>1, <2>2 DEF Refund
<1>18. ASSUME NEW d \in Deliveries, MarkProcessed(d) PROVE TypeOK'
  <2>1. row[d] \in Deliveries
    BY DEF TypeOK
  <2>2. logs' \in [Deliveries -> {"none", "open", "done"}]
    BY <1>18, <2>1 DEF TypeOK, MarkProcessed
  <2>3. pc' \in [Deliveries -> {"idle", "lookup", "insert", "find", "completeWd",
                               "completeTx", "refund", "mark"}]
        /\ acked' \subseteq Events
    BY <1>18, Answers DEF MarkProcessed
  <2> QED
    BY <1>18, <2>2, <2>3 DEF TypeOK, MarkProcessed
<1>19. CASE UNCHANGED vars
  BY <1>19 DEF TypeOK, vars
<1>20. CASE WorkerUpdateFails
  BY <1>20 DEF TypeOK, WorkerUpdateFails
<1>21. ASSUME NEW d \in Deliveries, HandlerFails(d) PROVE TypeOK'
  BY <1>21, Answers DEF TypeOK, HandlerFails
<1> QED
  BY <1>1, <1>2, <1>3, <1>4, <1>5, <1>6, <1>7, <1>8, <1>9, <1>10, <1>11, <1>12,
     <1>13, <1>14, <1>15, <1>16, <1>17, <1>18, <1>19, <1>20, <1>21
  DEF Next, Worker, Handle

\* Types are kept by every order of worker, Paystack, deliveries and crashes.
THEOREM TypeCorrect == Spec => []TypeOK
BY InitType, StepType, PTL DEF Spec

-----------------------------------------------------------------------------
(* Failed means refunded *)

\* Every step leaves a failed withdrawal refunded.
LEMMA StepFailed ==
    ASSUME TypeOK, FailedIsRefunded, [Next]_vars
    PROVE  FailedIsRefunded'
<1> USE DEF db, paystack, handler, faults
<1>1. CASE requestWithdrawal
  BY <1>1 DEF FailedIsRefunded, TypeOK, requestWithdrawal
<1>2. CASE WorkerMarksWithdrawal
  BY <1>2 DEF FailedIsRefunded, TypeOK, WorkerMarksWithdrawal
<1>3. CASE WorkerMarksTransaction
  BY <1>3 DEF FailedIsRefunded, TypeOK, WorkerMarksTransaction
<1>4. CASE WorkerInitiatesTransfer
  BY <1>4 DEF FailedIsRefunded, TypeOK, WorkerInitiatesTransfer
<1>5. CASE WorkerCallFails
  BY <1>5 DEF FailedIsRefunded, TypeOK, WorkerCallFails
<1>6. CASE WorkerSavesCode
  BY <1>6 DEF FailedIsRefunded, TypeOK, WorkerSavesCode
<1>7. CASE freezeWallet
  BY <1>7 DEF FailedIsRefunded, TypeOK, freezeWallet
<1>8. CASE GatewayDecides
  BY <1>8 DEF FailedIsRefunded, TypeOK, GatewayDecides, GatewayEmits
<1>9. CASE GatewayReverses
  BY <1>9 DEF FailedIsRefunded, TypeOK, GatewayReverses, GatewayEmits
<1>10. CASE Crash
  BY <1>10 DEF FailedIsRefunded, TypeOK, Crash
<1>11. ASSUME NEW d \in Deliveries, NEW e \in Events, Deliver(d, e) PROVE FailedIsRefunded'
  BY <1>11 DEF FailedIsRefunded, TypeOK, Deliver, InFlight
<1>12. ASSUME NEW d \in Deliveries, LookupLog(d) PROVE FailedIsRefunded'
  BY <1>12 DEF FailedIsRefunded, TypeOK, LookupLog, Answer
<1>13. ASSUME NEW d \in Deliveries, InsertLog(d) PROVE FailedIsRefunded'
  BY <1>13 DEF FailedIsRefunded, TypeOK, InsertLog, Answer
<1>14. ASSUME NEW d \in Deliveries, FindWithdrawal(d) PROVE FailedIsRefunded'
  BY <1>14 DEF FailedIsRefunded, TypeOK, FindWithdrawal, Answer
<1>15. ASSUME NEW d \in Deliveries, CompleteWithdrawal(d) PROVE FailedIsRefunded'
  BY <1>15 DEF FailedIsRefunded, TypeOK, CompleteWithdrawal, Answer
<1>16. ASSUME NEW d \in Deliveries, CompleteTransaction(d) PROVE FailedIsRefunded'
  BY <1>16 DEF FailedIsRefunded, TypeOK, CompleteTransaction, Answer
<1>17. ASSUME NEW d \in Deliveries, Refund(d) PROVE FailedIsRefunded'
  BY <1>17 DEF FailedIsRefunded, TypeOK, Refund, Answer
<1>18. ASSUME NEW d \in Deliveries, MarkProcessed(d) PROVE FailedIsRefunded'
  BY <1>18 DEF FailedIsRefunded, TypeOK, MarkProcessed, Answer
<1>19. CASE UNCHANGED vars
  BY <1>19 DEF FailedIsRefunded, TypeOK, vars
<1>20. CASE WorkerUpdateFails
  BY <1>20 DEF FailedIsRefunded, TypeOK, WorkerUpdateFails
<1>21. ASSUME NEW d \in Deliveries, HandlerFails(d) PROVE FailedIsRefunded'
  BY <1>21 DEF FailedIsRefunded, TypeOK, HandlerFails, Answer
<1> QED
  BY <1>1, <1>2, <1>3, <1>4, <1>5, <1>6, <1>7, <1>8, <1>9, <1>10, <1>11, <1>12,
     <1>13, <1>14, <1>15, <1>16, <1>17, <1>18, <1>19, <1>20, <1>21
  DEF Next, Worker, Handle

\* Whatever crashes, freezes or overlaps, a withdrawal that reads FAILED has its
\* money back in the wallet.
THEOREM FailedHasRefund == Spec => []FailedIsRefunded
<1>1. Init => FailedIsRefunded
  BY DEF Init, FailedIsRefunded
<1>2. TypeOK /\ FailedIsRefunded /\ [Next]_vars => FailedIsRefunded'
  BY StepFailed
<1> QED
  BY <1>1, <1>2, TypeCorrect, PTL DEF Spec

-----------------------------------------------------------------------------
(* Settled stays settled *)

\* Every step keeps what the transfer code says of the rows.
LEMMA StepCode ==
    ASSUME TypeOK, CodeInv, [Next]_vars
    PROVE  CodeInv'
<1> USE DEF db, paystack, handler, faults, Final, Settling
<1>1. CASE requestWithdrawal
  BY <1>1 DEF CodeInv, TypeOK, requestWithdrawal
<1>2. CASE WorkerMarksWithdrawal
  BY <1>2 DEF CodeInv, TypeOK, WorkerMarksWithdrawal
<1>3. CASE WorkerMarksTransaction
  BY <1>3 DEF CodeInv, TypeOK, WorkerMarksTransaction
<1>4. CASE WorkerInitiatesTransfer
  BY <1>4 DEF CodeInv, TypeOK, WorkerInitiatesTransfer
<1>5. CASE WorkerCallFails
  BY <1>5 DEF CodeInv, TypeOK, WorkerCallFails
<1>6. CASE WorkerSavesCode
  BY <1>6 DEF CodeInv, TypeOK, WorkerSavesCode
<1>7. CASE freezeWallet
  BY <1>7 DEF CodeInv, TypeOK, freezeWallet
<1>8. CASE GatewayDecides
  BY <1>8 DEF CodeInv, TypeOK, GatewayDecides, GatewayEmits
<1>9. CASE GatewayReverses
  BY <1>9 DEF CodeInv, TypeOK, GatewayReverses, GatewayEmits
<1>10. CASE Crash
  BY <1>10 DEF CodeInv, TypeOK, Crash
<1>11. ASSUME NEW d \in Deliveries, NEW e \in Events, Deliver(d, e) PROVE CodeInv'
  BY <1>11 DEF CodeInv, TypeOK, Deliver, InFlight
<1>12. ASSUME NEW d \in Deliveries, LookupLog(d) PROVE CodeInv'
  BY <1>12 DEF CodeInv, TypeOK, LookupLog, Answer
<1>13. ASSUME NEW d \in Deliveries, InsertLog(d) PROVE CodeInv'
  BY <1>13 DEF CodeInv, TypeOK, InsertLog, Answer
<1>14. ASSUME NEW d \in Deliveries, FindWithdrawal(d) PROVE CodeInv'
  BY <1>14 DEF CodeInv, TypeOK, FindWithdrawal, Answer
<1>15. ASSUME NEW d \in Deliveries, CompleteWithdrawal(d) PROVE CodeInv'
  BY <1>15 DEF CodeInv, TypeOK, CompleteWithdrawal, Answer
<1>16. ASSUME NEW d \in Deliveries, CompleteTransaction(d) PROVE CodeInv'
  BY <1>16 DEF CodeInv, TypeOK, CompleteTransaction, Answer
<1>17. ASSUME NEW d \in Deliveries, Refund(d) PROVE CodeInv'
  BY <1>17 DEF CodeInv, TypeOK, Refund, Answer
<1>18. ASSUME NEW d \in Deliveries, MarkProcessed(d) PROVE CodeInv'
  BY <1>18 DEF CodeInv, TypeOK, MarkProcessed, Answer
<1>19. CASE UNCHANGED vars
  BY <1>19 DEF CodeInv, TypeOK, vars
<1>20. CASE WorkerUpdateFails
  BY <1>20 DEF CodeInv, TypeOK, WorkerUpdateFails
<1>21. ASSUME NEW d \in Deliveries, HandlerFails(d) PROVE CodeInv'
  BY <1>21 DEF CodeInv, TypeOK, HandlerFails, Answer
<1> QED
  BY <1>1, <1>2, <1>3, <1>4, <1>5, <1>6, <1>7, <1>8, <1>9, <1>10, <1>11, <1>12,
     <1>13, <1>14, <1>15, <1>16, <1>17, <1>18, <1>19, <1>20, <1>21
  DEF Next, Worker, Handle

\* What the transfer code says of the rows holds in every reachable state.
LEMMA CodeAlways == Spec => []CodeInv
<1>1. Init => CodeInv
  BY DEF Init, CodeInv, Final, Settling
<1>2. TypeOK /\ CodeInv /\ [Next]_vars => CodeInv'
  BY StepCode
<1> QED
  BY <1>1, <1>2, TypeCorrect, PTL DEF Spec

\* No step takes back a final status.
LEMMA StepFinal ==
    ASSUME TypeOK, CodeInv, [Next]_vars
    PROVE  (wd \in Final => wd' \in Final) /\ (tx \in Final => tx' \in Final)
<1> DEFINE Stays == (wd \in Final => wd' \in Final) /\ (tx \in Final => tx' \in Final)
<1> USE DEF db, paystack, handler, faults, Final, Settling
<1>1. CASE requestWithdrawal
  BY <1>1 DEF CodeInv, requestWithdrawal
<1>2. CASE WorkerMarksWithdrawal
  BY <1>2 DEF CodeInv, WorkerMarksWithdrawal
<1>3. CASE WorkerMarksTransaction
  BY <1>3 DEF CodeInv, WorkerMarksTransaction
<1>4. CASE WorkerInitiatesTransfer
  BY <1>4 DEF CodeInv, WorkerInitiatesTransfer
<1>5. CASE WorkerCallFails
  BY <1>5 DEF CodeInv, WorkerCallFails
<1>6. CASE WorkerSavesCode
  BY <1>6 DEF CodeInv, WorkerSavesCode
<1>7. CASE freezeWallet
  BY <1>7 DEF CodeInv, freezeWallet
<1>8. CASE GatewayDecides
  BY <1>8 DEF CodeInv, GatewayDecides, GatewayEmits
<1>9. CASE GatewayReverses
  BY <1>9 DEF CodeInv, GatewayReverses, GatewayEmits
<1>10. CASE Crash
  BY <1>10 DEF CodeInv, Crash
<1>11. ASSUME NEW d \in Deliveries, NEW e \in Events, Deliver(d, e) PROVE Stays
  BY <1>11 DEF CodeInv, Deliver, InFlight
<1>12. ASSUME NEW d \in Deliveries, LookupLog(d) PROVE Stays
  BY <1>12 DEF CodeInv, LookupLog, Answer
<1>13. ASSUME NEW d \in Deliveries, InsertLog(d) PROVE Stays
  BY <1>13 DEF CodeInv, InsertLog, Answer
<1>14. ASSUME NEW d \in Deliveries, FindWithdrawal(d) PROVE Stays
  BY <1>14 DEF CodeInv, FindWithdrawal, Answer
<1>15. ASSUME NEW d \in Deliveries, CompleteWithdrawal(d) PROVE Stays
  BY <1>15 DEF CodeInv, CompleteWithdrawal, Answer
<1>16. ASSUME NEW d \in Deliveries, CompleteTransaction(d) PROVE Stays
  BY <1>16 DEF CodeInv, CompleteTransaction, Answer
<1>17. ASSUME NEW d \in Deliveries, Refund(d) PROVE Stays
  BY <1>17 DEF CodeInv, Refund, Answer
<1>18. ASSUME NEW d \in Deliveries, MarkProcessed(d) PROVE Stays
  BY <1>18 DEF CodeInv, MarkProcessed, Answer
<1>19. CASE UNCHANGED vars
  BY <1>19 DEF CodeInv, vars
<1>20. CASE WorkerUpdateFails
  BY <1>20 DEF CodeInv, WorkerUpdateFails
<1>21. ASSUME NEW d \in Deliveries, HandlerFails(d) PROVE Stays
  BY <1>21 DEF CodeInv, HandlerFails, Answer
<1> QED
  BY <1>1, <1>2, <1>3, <1>4, <1>5, <1>6, <1>7, <1>8, <1>9, <1>10, <1>11, <1>12,
     <1>13, <1>14, <1>15, <1>16, <1>17, <1>18, <1>19, <1>20, <1>21
  DEF Next, Worker, Handle

\* No step of the worker or of a delivery takes a settled withdrawal, or its
\* transaction, back to an open status.
THEOREM FinalIsFinal == Spec => FinalNeverReopens
<1>1. TypeOK /\ CodeInv /\ [Next]_vars =>
         [/\ wd \in Final => wd' \in Final
          /\ tx \in Final => tx' \in Final]_vars
  BY StepFinal
<1> QED
  BY <1>1, CodeAlways, TypeCorrect, PTL DEF Spec, FinalNeverReopens

-----------------------------------------------------------------------------
(* Paid is not refunded *)

\* Every step keeps what the deliveries know of their events.
LEMMA StepEvent ==
    ASSUME TypeOK, EventInv, [Next]_vars
    PROVE  EventInv'
<1> USE DEF db, paystack, handler, faults, Events
<1>1. CASE requestWithdrawal
  BY <1>1 DEF EventInv, TypeOK, requestWithdrawal
<1>2. CASE WorkerMarksWithdrawal
  BY <1>2 DEF EventInv, TypeOK, WorkerMarksWithdrawal
<1>3. CASE WorkerMarksTransaction
  BY <1>3 DEF EventInv, TypeOK, WorkerMarksTransaction
<1>4. CASE WorkerInitiatesTransfer
  BY <1>4 DEF EventInv, TypeOK, WorkerInitiatesTransfer
<1>5. CASE WorkerCallFails
  BY <1>5 DEF EventInv, TypeOK, WorkerCallFails
<1>6. CASE WorkerSavesCode
  BY <1>6 DEF EventInv, TypeOK, WorkerSavesCode
<1>7. CASE freezeWallet
  BY <1>7 DEF EventInv, TypeOK, freezeWallet
<1>8. CASE GatewayDecides
  BY <1>8 DEF EventInv, TypeOK, GatewayDecides, GatewayEmits
<1>9. CASE GatewayReverses
  BY <1>9 DEF EventInv, TypeOK, GatewayReverses, GatewayEmits
<1>10. CASE Crash
  BY <1>10 DEF EventInv, TypeOK, Crash
<1>11. ASSUME NEW d \in Deliveries, NEW e \in Events, Deliver(d, e) PROVE EventInv'
  BY <1>11 DEF EventInv, TypeOK, Deliver, InFlight
<1>12. ASSUME NEW d \in Deliveries, LookupLog(d) PROVE EventInv'
  BY <1>12 DEF EventInv, TypeOK, LookupLog, Answer
<1>13. ASSUME NEW d \in Deliveries, InsertLog(d) PROVE EventInv'
  BY <1>13 DEF EventInv, TypeOK, InsertLog, Answer
<1>14. ASSUME NEW d \in Deliveries, FindWithdrawal(d) PROVE EventInv'
  BY <1>14 DEF EventInv, TypeOK, FindWithdrawal, Answer
<1>15. ASSUME NEW d \in Deliveries, CompleteWithdrawal(d) PROVE EventInv'
  BY <1>15 DEF EventInv, TypeOK, CompleteWithdrawal, Answer
<1>16. ASSUME NEW d \in Deliveries, CompleteTransaction(d) PROVE EventInv'
  BY <1>16 DEF EventInv, TypeOK, CompleteTransaction, Answer
<1>17. ASSUME NEW d \in Deliveries, Refund(d) PROVE EventInv'
  BY <1>17 DEF EventInv, TypeOK, Refund, Answer
<1>18. ASSUME NEW d \in Deliveries, MarkProcessed(d) PROVE EventInv'
  BY <1>18 DEF EventInv, TypeOK, MarkProcessed, Answer
<1>19. CASE UNCHANGED vars
  BY <1>19 DEF EventInv, TypeOK, vars
<1>20. CASE WorkerUpdateFails
  BY <1>20 DEF EventInv, TypeOK, WorkerUpdateFails
<1>21. ASSUME NEW d \in Deliveries, HandlerFails(d) PROVE EventInv'
  BY <1>21 DEF EventInv, TypeOK, HandlerFails, Answer
<1> QED
  BY <1>1, <1>2, <1>3, <1>4, <1>5, <1>6, <1>7, <1>8, <1>9, <1>10, <1>11, <1>12,
     <1>13, <1>14, <1>15, <1>16, <1>17, <1>18, <1>19, <1>20, <1>21
  DEF Next, Worker, Handle

\* A transfer that reached the bank account is never also given back, for any
\* number of deliveries and whatever the worker's call looked like.
THEOREM PaidNeverRefunded == Spec => []PaidIsNotRefunded
<1>1. Init => EventInv
  BY DEF Init, EventInv
<1>2. TypeOK /\ EventInv /\ [Next]_vars => EventInv'
  BY StepEvent
<1>3. TypeOK /\ EventInv => PaidIsNotRefunded
  BY DEF TypeOK, EventInv, PaidIsNotRefunded
<1> QED
  BY <1>1, <1>2, <1>3, TypeCorrect, PTL DEF Spec

-----------------------------------------------------------------------------
(* Refunds are bounded by the deliveries that overlap *)

\* The deliveries about to refund are some of those being handled.
LEMMA RefundingFinite ==
    ASSUME NEW X, X \subseteq Deliveries
    PROVE  /\ IsFiniteSet(X) /\ Cardinality(X) \in Nat /\ Cardinality(Deliveries) \in Nat
           /\ Cardinality(X) <= Cardinality(Deliveries)
           /\ \A Y : Y \subseteq X => Cardinality(Y) \in Nat /\ Cardinality(Y) <= Cardinality(X)
<1>1. IsFiniteSet(X) /\ Cardinality(X) <= Cardinality(Deliveries)
  BY DeliveriesAssumption, FS_Subset
<1>2. ASSUME NEW Y, Y \subseteq X
      PROVE  Cardinality(Y) \in Nat /\ Cardinality(Y) <= Cardinality(X)
  BY <1>1, <1>2, FS_Subset, FS_CardinalityType
<1> QED
  BY <1>1, <1>2, DeliveriesAssumption, FS_CardinalityType

\* A step that refunds nothing, sends no delivery to its refund, and moves the
\* withdrawal neither to FAILED nor, before a reversal, away from it.
Calm ==
    /\ refunds' = refunds
    /\ \A d \in Deliveries : pc'[d] = "refund" => pc[d] = "refund"
    /\ wd' = "failed" => wd = "failed"
    /\ wd = "failed" /\ gateway' # "reversed" => wd' = "failed"
    /\ gateway = "reversed" => gateway' = "reversed"

\* A step that counts nothing keeps the count of the overlaps.
LEMMA CalmStep ==
    ASSUME TypeOK, OverlapInv, Calm,
           gateway' = "failed" => sent' = {"failed"},
           \A d \in Deliveries : pc'[d] \in {"completeWd", "completeTx"} => evt'[d] = "success"
    PROVE  OverlapInv'
<1>1. Refunding \subseteq Deliveries /\ Refunding' \subseteq Refunding
  BY DEF Refunding, Calm
<1>2. /\ Cardinality(Refunding) \in Nat /\ Cardinality(Refunding') \in Nat
      /\ Cardinality(Deliveries) \in Nat
      /\ Cardinality(Refunding') <= Cardinality(Refunding)
  BY <1>1, RefundingFinite
<1>3. /\ gateway' # "reversed" /\ wd' # "failed" => refunds' = 0
  BY DEF OverlapInv, Calm
<1>4. gateway' # "reversed" /\ wd' = "failed" =>
         refunds' + Cardinality(Refunding') <= Cardinality(Deliveries)
  <2>1. refunds \in Nat /\ refunds' = refunds
    BY DEF TypeOK, Calm
  <2>2. gateway' # "reversed" /\ wd' = "failed" =>
           refunds + Cardinality(Refunding) <= Cardinality(Deliveries)
    BY DEF OverlapInv, Calm
  <2> QED
    BY <1>2, <2>1, <2>2
<1> QED
  BY <1>3, <1>4 DEF OverlapInv

\* Every step keeps the count of the overlaps.
LEMMA StepOverlap ==
    ASSUME TypeOK, CodeInv, EventInv, OverlapInv, [Next]_vars
    PROVE  OverlapInv'
<1> DEFINE Sends == gateway' = "failed" => sent' = {"failed"}
           Completes == \A d \in Deliveries :
                          pc'[d] \in {"completeWd", "completeTx"} => evt'[d] = "success"
<1>0. ASSUME Calm, Sends, Completes PROVE OverlapInv'
  BY <1>0, CalmStep
<1> USE DEF db, paystack, handler, faults, Events, Final
<1>1. CASE requestWithdrawal
  BY <1>0, <1>1 DEF Calm, OverlapInv, requestWithdrawal
<1>2. CASE WorkerMarksWithdrawal
  BY <1>0, <1>2 DEF Calm, OverlapInv, CodeInv, WorkerMarksWithdrawal
<1>3. CASE WorkerMarksTransaction
  BY <1>0, <1>3 DEF Calm, OverlapInv, WorkerMarksTransaction
<1>4. CASE WorkerInitiatesTransfer
  BY <1>0, <1>4 DEF Calm, OverlapInv, EventInv, WorkerInitiatesTransfer
<1>5. CASE WorkerCallFails
  BY <1>0, <1>5 DEF Calm, OverlapInv, EventInv, WorkerCallFails
<1>6. CASE WorkerSavesCode
  BY <1>0, <1>6 DEF Calm, OverlapInv, WorkerSavesCode
<1>7. CASE freezeWallet
  BY <1>0, <1>7 DEF Calm, OverlapInv, freezeWallet
<1>8. CASE GatewayDecides
  BY <1>0, <1>8 DEF Calm, OverlapInv, EventInv, GatewayDecides, GatewayEmits
<1>9. CASE GatewayReverses
  BY <1>0, <1>9 DEF Calm, OverlapInv, GatewayReverses, GatewayEmits
<1>10. CASE Crash
  BY <1>0, <1>10 DEF Calm, OverlapInv, Crash
<1>11. ASSUME NEW d \in Deliveries, NEW e \in Events, Deliver(d, e) PROVE OverlapInv'
  BY <1>0, <1>11 DEF Calm, OverlapInv, TypeOK, Deliver
<1>12. ASSUME NEW d \in Deliveries, LookupLog(d) PROVE OverlapInv'
  BY <1>0, <1>12 DEF Calm, OverlapInv, TypeOK, LookupLog, Answer
<1>13. ASSUME NEW d \in Deliveries, InsertLog(d) PROVE OverlapInv'
  BY <1>0, <1>13 DEF Calm, OverlapInv, TypeOK, InsertLog, Answer
<1>14. ASSUME NEW d \in Deliveries, FindWithdrawal(d) PROVE OverlapInv'
  <2>1. /\ UNCHANGED <<wd, refunds, gateway, sent, evt>>
        /\ \A x \in Deliveries : x # d => pc'[x] = pc[x]
        /\ pc'[d] \in {"completeWd", "completeTx"} => evt[d] = "success"
    BY <1>14 DEF TypeOK, FindWithdrawal
  <2>2. CASE wd = "failed"
    <3>1. pc'[d] # "refund"
      BY <1>14, <2>2 DEF TypeOK, FindWithdrawal
    <3> QED
      BY <1>0, <2>1, <3>1 DEF Calm, OverlapInv
  <2>3. CASE wd # "failed"
    BY <2>1, <2>3 DEF OverlapInv
  <2> QED
    BY <2>2, <2>3
<1>15. ASSUME NEW d \in Deliveries, CompleteWithdrawal(d) PROVE OverlapInv'
  <2>1. gateway \notin {"none", "pending", "failed"}
    BY <1>15 DEF CompleteWithdrawal, OverlapInv, EventInv
  <2>2. refunds = 0 \/ gateway = "reversed"
    BY <2>1 DEF EventInv, TypeOK
  <2>3. /\ wd' = "completed" /\ UNCHANGED <<refunds, gateway, sent, evt>>
        /\ \A x \in Deliveries : x # d => pc'[x] = pc[x]
        /\ pc'[d] = "completeTx" /\ pc[d] = "completeWd"
    BY <1>15 DEF TypeOK, CompleteWithdrawal
  <2> QED
    BY <2>2, <2>3 DEF OverlapInv
<1>16. ASSUME NEW d \in Deliveries, CompleteTransaction(d) PROVE OverlapInv'
  BY <1>0, <1>16 DEF Calm, OverlapInv, TypeOK, CompleteTransaction
<1>17. ASSUME NEW d \in Deliveries, Refund(d) PROVE OverlapInv'
  <2>1. CASE Answer(d) /\ UNCHANGED <<wd, tx, refunds>>
    BY <1>0, <1>17, <2>1 DEF Calm, OverlapInv, TypeOK, Refund, Answer
  <2>2. CASE refunds' = refunds + 1 /\ wd' = "failed" /\ pc' = [pc EXCEPT ![d] = "mark"]
    <3>1. /\ UNCHANGED <<gateway, sent, evt>> /\ pc[d] = "refund" /\ pc'[d] = "mark"
          /\ \A x \in Deliveries : x # d => pc'[x] = pc[x]
      BY <1>17, <2>2 DEF TypeOK, Refund
    <3>2. d \in Refunding /\ Refunding \subseteq Deliveries /\ Refunding' = Refunding \ {d}
      BY <3>1 DEF Refunding
    <3>3. /\ Cardinality(Refunding) \in Nat /\ IsFiniteSet(Refunding)
          /\ Cardinality(Deliveries) \in Nat
          /\ Cardinality(Refunding) <= Cardinality(Deliveries)
      BY <3>2, RefundingFinite
    <3>4. Cardinality(Refunding') = Cardinality(Refunding) - 1
      BY <3>2, <3>3, FS_RemoveElement
    <3>5. gateway # "reversed" =>
            refunds' + Cardinality(Refunding') <= Cardinality(Deliveries)
      BY <2>2, <3>3, <3>4 DEF OverlapInv, TypeOK
    <3> QED
      BY <2>2, <3>1, <3>5 DEF OverlapInv
  <2> QED
    BY <1>17, <2>1, <2>2 DEF Refund
<1>18. ASSUME NEW d \in Deliveries, MarkProcessed(d) PROVE OverlapInv'
  BY <1>0, <1>18 DEF Calm, OverlapInv, TypeOK, MarkProcessed, Answer
<1>19. CASE UNCHANGED vars
  BY <1>0, <1>19 DEF Calm, OverlapInv, vars
<1>20. CASE WorkerUpdateFails
  BY <1>0, <1>20 DEF Calm, OverlapInv, WorkerUpdateFails
<1>21. ASSUME NEW d \in Deliveries, HandlerFails(d) PROVE OverlapInv'
  BY <1>0, <1>21 DEF Calm, OverlapInv, TypeOK, HandlerFails, Answer
<1> QED
  BY <1>1, <1>2, <1>3, <1>4, <1>5, <1>6, <1>7, <1>8, <1>9, <1>10, <1>11, <1>12,
     <1>13, <1>14, <1>15, <1>16, <1>17, <1>18, <1>19, <1>20, <1>21
  DEF Next, Worker, Handle

\* A failed transfer is refunded at most once per delivery handled at the same
\* time, however often it is redelivered and wherever the server crashes.
THEOREM RefundsBounded == Spec => []RefundsBoundedByOverlap
<1>1. Init => EventInv /\ OverlapInv
  BY DEF Init, EventInv, OverlapInv
<1>2. TypeOK /\ EventInv /\ [Next]_vars => EventInv'
  BY StepEvent
<1>3. TypeOK /\ CodeInv /\ EventInv /\ OverlapInv /\ [Next]_vars => OverlapInv'
  BY StepOverlap
<1>4. TypeOK /\ OverlapInv => RefundsBoundedByOverlap
  <2> SUFFICES ASSUME TypeOK, OverlapInv PROVE RefundsBoundedByOverlap
    OBVIOUS
  <2>1. Cardinality(Refunding) \in Nat /\ Cardinality(Deliveries) \in Nat /\ refunds \in Nat
    BY RefundingFinite DEF Refunding, TypeOK
  <2> QED
    BY <2>1 DEF OverlapInv, RefundsBoundedByOverlap
<1> QED
  BY <1>1, <1>2, <1>3, <1>4, TypeCorrect, CodeAlways, PTL DEF Spec
=============================================================================
