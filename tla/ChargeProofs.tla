---------------------------- MODULE ChargeProofs ----------------------------
(***************************************************************************)
(* Proofs about Charge, for any number of webhook deliveries and verify    *)
(* requests and any bounds: type correctness, a completed row always has   *)
(* its effect, and, for the charges that their own row guards, at-most-once *)
(* recording and the safety part of ChargeOnce.                            *)
(***************************************************************************)
EXTENDS Charge, TLAPS

Labels == {"idle", "lookup", "insert", "confirm", "find", "claim", "creditDva",
           "donate", "contribute", "mark", "markFailed"}

\* A handler that reached its transaction has seen Paystack confirm the charge.
Recording == {"find", "claim", "creditDva", "donate", "contribute"}

PaidFirst == \A h \in Handlers : pc[h] \in Recording => paid

\* What makes at-most-once inductive: the paths that record unconditionally
\* are not taken, and a recorded effect has used up the row.
OnceInv ==
    RowGuards =>
        /\ \A h \in Handlers : pc[h] \notin {"creditDva", "donate"}
        /\ \/ effects = 0
           \/ effects = 1 /\ tx \in {"completed", "failed"}

\* Where each handler is after one of them went on.
LEMMA Goes ==
    ASSUME TypeOK, NEW h \in Handlers, NEW l \in Labels, GoTo(h, l)
    PROVE  /\ pc' \in [Handlers -> Labels]
           /\ pc'[h] = l
           /\ \A g \in Handlers : g # h => pc'[g] = pc[g]
BY DEF TypeOK, GoTo, Labels

-----------------------------------------------------------------------------
(* Type correctness *)

\* The type invariant holds in the beginning.
LEMMA InitType == Init => TypeOK
<1> SUFFICES ASSUME Init PROVE TypeOK
  OBVIOUS
<1>1. MaxDups \in Nat /\ MaxFailures \in Nat /\ MaxCrashes \in Nat
  BY BoundsAssumption
<1>2. /\ dups \in 0..MaxDups /\ failures \in 0..MaxFailures /\ crashes \in 0..MaxCrashes
      /\ effects \in Nat
  BY <1>1 DEF Init
<1>3. /\ pc \in [Handlers -> Labels]
      /\ row \in [Deliveries -> Deliveries]
      /\ logs \in [Deliveries -> {"none", "open", "done"}]
  BY DEF Init, Labels
<1>4. /\ kind \in Kinds /\ hasDva \in Dvas /\ uniqueLog \in UniqueLogs /\ paid \in BOOLEAN /\ acked \in BOOLEAN /\ refused \in BOOLEAN
      /\ tx \in {"none", "pending", "completed", "failed"}
  BY DEF Init
<1> QED
  BY <1>2, <1>3, <1>4 DEF TypeOK, Labels

\* Every step keeps the type invariant.
LEMMA StepType == TypeOK /\ [Next]_vars => TypeOK'
<1> SUFFICES ASSUME TypeOK, [Next]_vars PROVE TypeOK'
  OBVIOUS
<1> USE BoundsAssumption, FlagsAssumption DEF Handlers, At, GoTo, Answer, db, bounds, setup
<1>1. CASE Pay
  BY <1>1 DEF TypeOK, Pay
<1>2. ASSUME NEW d \in Deliveries, Deliver(d) PROVE TypeOK'
  BY <1>2 DEF TypeOK, Deliver
<1>3. ASSUME NEW d \in Deliveries, LookupLog(d) PROVE TypeOK'
  BY <1>3 DEF TypeOK, LookupLog
<1>4. ASSUME NEW d \in Deliveries, InsertLog(d) PROVE TypeOK'
  BY <1>4 DEF TypeOK, InsertLog
<1>5. ASSUME NEW v \in Verifies, VerifyReads(v) PROVE TypeOK'
  BY <1>5 DEF TypeOK, VerifyReads
<1>6. ASSUME NEW v \in Verifies, VerifyUnpaid(v) PROVE TypeOK'
  BY <1>6 DEF TypeOK, VerifyUnpaid
<1>7. ASSUME NEW v \in Verifies, VerifyCallFails(v) PROVE TypeOK'
  BY <1>7 DEF TypeOK, VerifyCallFails
<1>8. ASSUME NEW v \in Verifies, VerifyMarksFailed(v) PROVE TypeOK'
  BY <1>8 DEF TypeOK, VerifyMarksFailed
<1>9. ASSUME NEW v \in Verifies, FundingVerifyThrows(v) PROVE TypeOK'
  BY <1>9 DEF TypeOK, FundingVerifyThrows
<1>10. ASSUME NEW h \in Handlers, Confirmed(h) PROVE TypeOK'
  BY <1>10 DEF TypeOK, Confirmed
<1>11. ASSUME NEW h \in Handlers, FindTransaction(h) PROVE TypeOK'
  BY <1>11 DEF TypeOK, FindTransaction
<1>12. ASSUME NEW h \in Handlers, ClaimAndCredit(h) PROVE TypeOK'
  BY <1>12 DEF TypeOK, ClaimAndCredit
<1>13. ASSUME NEW h \in Handlers, CreditVirtualAccount(h) PROVE TypeOK'
  BY <1>13 DEF TypeOK, CreditVirtualAccount
<1>14. ASSUME NEW h \in Handlers, RecordDonation(h) PROVE TypeOK'
  BY <1>14 DEF TypeOK, RecordDonation
<1>15. ASSUME NEW h \in Handlers, RecordContribution(h) PROVE TypeOK'
  BY <1>15 DEF TypeOK, RecordContribution
<1>16. ASSUME NEW h \in Handlers, MarkProcessed(h) PROVE TypeOK'
  BY <1>16 DEF TypeOK, MarkProcessed
<1>17. ASSUME NEW h \in Handlers, Fails(h) PROVE TypeOK'
  BY <1>17 DEF TypeOK, Fails
<1>18. CASE Crash
  BY <1>18 DEF TypeOK, Crash
<1>19. CASE UNCHANGED vars
  BY <1>19 DEF TypeOK, vars
<1> QED
  BY <1>1, <1>2, <1>3, <1>4, <1>5, <1>6, <1>7, <1>8, <1>9, <1>10, <1>11, <1>12, <1>13,
     <1>14, <1>15, <1>16, <1>17, <1>18, <1>19
  DEF Next, Webhook, Verify, Continue

\* Types are kept by every order of deliveries, verifies, failures and crashes.
THEOREM TypeCorrect == Spec => []TypeOK
BY InitType, StepType, PTL DEF Spec

-----------------------------------------------------------------------------
(* Completed rows have their effect *)

\* Every step leaves a completed charge recorded.
LEMMA StepCompleted ==
    ASSUME TypeOK, CompletedIsRecorded, [Next]_vars
    PROVE  CompletedIsRecorded'
<1> USE DEF db, bounds, setup
<1>1. CASE Pay
  BY <1>1 DEF CompletedIsRecorded, TypeOK, Pay
<1>2. ASSUME NEW d \in Deliveries, Deliver(d) PROVE CompletedIsRecorded'
  BY <1>2 DEF CompletedIsRecorded, TypeOK, Deliver
<1>3. ASSUME NEW d \in Deliveries, LookupLog(d) PROVE CompletedIsRecorded'
  BY <1>3 DEF CompletedIsRecorded, TypeOK, LookupLog
<1>4. ASSUME NEW d \in Deliveries, InsertLog(d) PROVE CompletedIsRecorded'
  BY <1>4 DEF CompletedIsRecorded, TypeOK, InsertLog
<1>5. ASSUME NEW v \in Verifies, VerifyReads(v) PROVE CompletedIsRecorded'
  BY <1>5 DEF CompletedIsRecorded, TypeOK, VerifyReads
<1>6. ASSUME NEW v \in Verifies, VerifyUnpaid(v) PROVE CompletedIsRecorded'
  BY <1>6 DEF CompletedIsRecorded, TypeOK, VerifyUnpaid
<1>7. ASSUME NEW v \in Verifies, VerifyCallFails(v) PROVE CompletedIsRecorded'
  BY <1>7 DEF CompletedIsRecorded, TypeOK, VerifyCallFails
<1>8. ASSUME NEW v \in Verifies, VerifyMarksFailed(v) PROVE CompletedIsRecorded'
  BY <1>8 DEF CompletedIsRecorded, TypeOK, VerifyMarksFailed
<1>9. ASSUME NEW v \in Verifies, FundingVerifyThrows(v) PROVE CompletedIsRecorded'
  BY <1>9 DEF CompletedIsRecorded, TypeOK, FundingVerifyThrows
<1>10. ASSUME NEW h \in Handlers, Confirmed(h) PROVE CompletedIsRecorded'
  BY <1>10 DEF CompletedIsRecorded, TypeOK, Confirmed
<1>11. ASSUME NEW h \in Handlers, FindTransaction(h) PROVE CompletedIsRecorded'
  BY <1>11 DEF CompletedIsRecorded, TypeOK, FindTransaction
<1>12. ASSUME NEW h \in Handlers, ClaimAndCredit(h) PROVE CompletedIsRecorded'
  BY <1>12 DEF CompletedIsRecorded, TypeOK, ClaimAndCredit
<1>13. ASSUME NEW h \in Handlers, CreditVirtualAccount(h) PROVE CompletedIsRecorded'
  BY <1>13 DEF CompletedIsRecorded, TypeOK, CreditVirtualAccount
<1>14. ASSUME NEW h \in Handlers, RecordDonation(h) PROVE CompletedIsRecorded'
  BY <1>14 DEF CompletedIsRecorded, TypeOK, RecordDonation
<1>15. ASSUME NEW h \in Handlers, RecordContribution(h) PROVE CompletedIsRecorded'
  BY <1>15 DEF CompletedIsRecorded, TypeOK, RecordContribution
<1>16. ASSUME NEW h \in Handlers, MarkProcessed(h) PROVE CompletedIsRecorded'
  BY <1>16 DEF CompletedIsRecorded, TypeOK, MarkProcessed
<1>17. ASSUME NEW h \in Handlers, Fails(h) PROVE CompletedIsRecorded'
  BY <1>17 DEF CompletedIsRecorded, TypeOK, Fails
<1>18. CASE Crash
  BY <1>18 DEF CompletedIsRecorded, TypeOK, Crash
<1>19. CASE UNCHANGED vars
  BY <1>19 DEF CompletedIsRecorded, TypeOK, vars
<1> QED
  BY <1>1, <1>2, <1>3, <1>4, <1>5, <1>6, <1>7, <1>8, <1>9, <1>10, <1>11, <1>12,
     <1>13, <1>14, <1>15, <1>16, <1>17, <1>18, <1>19
  DEF Next, Webhook, Verify, Continue

\* No crash, failure or order of requests leaves a completed row without its
\* wallet credit, donation or contribution.
THEOREM CompletedHasEffect == Spec => []CompletedIsRecorded
<1>1. Init => CompletedIsRecorded
  BY DEF Init, CompletedIsRecorded
<1>2. TypeOK /\ CompletedIsRecorded /\ [Next]_vars => CompletedIsRecorded'
  BY StepCompleted
<1> QED
  BY <1>1, <1>2, TypeCorrect, PTL DEF Spec

-----------------------------------------------------------------------------
(* Nothing is recorded before it is paid for *)

\* Nothing is booked before the gateway was paid, in every step.
LEMMA StepPaid ==
    ASSUME TypeOK, PaidFirst, [Next]_vars
    PROVE  PaidFirst'
<1> USE DEF db, bounds, setup, At, GoTo, Answer, Recording, Handlers
<1>1. CASE Pay
  BY <1>1 DEF PaidFirst, TypeOK, Pay
<1>2. ASSUME NEW d \in Deliveries, Deliver(d) PROVE PaidFirst'
  BY <1>2 DEF PaidFirst, TypeOK, Deliver
<1>3. ASSUME NEW d \in Deliveries, LookupLog(d) PROVE PaidFirst'
  BY <1>3 DEF PaidFirst, TypeOK, LookupLog
<1>4. ASSUME NEW d \in Deliveries, InsertLog(d) PROVE PaidFirst'
  BY <1>4 DEF PaidFirst, TypeOK, InsertLog
<1>5. ASSUME NEW v \in Verifies, VerifyReads(v) PROVE PaidFirst'
  BY <1>5 DEF PaidFirst, TypeOK, VerifyReads
<1>6. ASSUME NEW v \in Verifies, VerifyUnpaid(v) PROVE PaidFirst'
  BY <1>6 DEF PaidFirst, TypeOK, VerifyUnpaid
<1>7. ASSUME NEW v \in Verifies, VerifyCallFails(v) PROVE PaidFirst'
  BY <1>7 DEF PaidFirst, TypeOK, VerifyCallFails
<1>8. ASSUME NEW v \in Verifies, VerifyMarksFailed(v) PROVE PaidFirst'
  BY <1>8 DEF PaidFirst, TypeOK, VerifyMarksFailed
<1>9. ASSUME NEW v \in Verifies, FundingVerifyThrows(v) PROVE PaidFirst'
  BY <1>9 DEF PaidFirst, TypeOK, FundingVerifyThrows
<1>10. ASSUME NEW h \in Handlers, Confirmed(h) PROVE PaidFirst'
  BY <1>10 DEF PaidFirst, TypeOK, Confirmed
<1>11. ASSUME NEW h \in Handlers, FindTransaction(h) PROVE PaidFirst'
  BY <1>11 DEF PaidFirst, TypeOK, FindTransaction
<1>12. ASSUME NEW h \in Handlers, ClaimAndCredit(h) PROVE PaidFirst'
  BY <1>12 DEF PaidFirst, TypeOK, ClaimAndCredit
<1>13. ASSUME NEW h \in Handlers, CreditVirtualAccount(h) PROVE PaidFirst'
  BY <1>13 DEF PaidFirst, TypeOK, CreditVirtualAccount
<1>14. ASSUME NEW h \in Handlers, RecordDonation(h) PROVE PaidFirst'
  BY <1>14 DEF PaidFirst, TypeOK, RecordDonation
<1>15. ASSUME NEW h \in Handlers, RecordContribution(h) PROVE PaidFirst'
  BY <1>15 DEF PaidFirst, TypeOK, RecordContribution
<1>16. ASSUME NEW h \in Handlers, MarkProcessed(h) PROVE PaidFirst'
  BY <1>16 DEF PaidFirst, TypeOK, MarkProcessed
<1>17. ASSUME NEW h \in Handlers, Fails(h) PROVE PaidFirst'
  BY <1>17 DEF PaidFirst, TypeOK, Fails
<1>18. CASE Crash
  BY <1>18 DEF PaidFirst, TypeOK, Crash
<1>19. CASE UNCHANGED vars
  BY <1>19 DEF PaidFirst, TypeOK, vars
<1> QED
  BY <1>1, <1>2, <1>3, <1>4, <1>5, <1>6, <1>7, <1>8, <1>9, <1>10, <1>11, <1>12,
     <1>13, <1>14, <1>15, <1>16, <1>17, <1>18, <1>19
  DEF Next, Webhook, Verify, Continue

\* No handler reaches its transaction before Paystack has confirmed the charge.
THEOREM PaidBeforeRecorded == Spec => []PaidFirst
<1>1. Init => PaidFirst
  BY DEF Init, PaidFirst, Recording
<1>2. TypeOK /\ PaidFirst /\ [Next]_vars => PaidFirst'
  BY StepPaid
<1> QED
  BY <1>1, <1>2, TypeCorrect, PTL DEF Spec

-----------------------------------------------------------------------------
(* At most once *)

\* Every step keeps the invariant of a single booking.
LEMMA StepOnce ==
    ASSUME TypeOK, OnceInv, [Next]_vars
    PROVE  OnceInv'
<1> USE DEF db, bounds, setup, At, GoTo, Answer, Handlers
<1>1. CASE Pay
  BY <1>1 DEF OnceInv, TypeOK, RowGuards, Pay
<1>2. ASSUME NEW d \in Deliveries, Deliver(d) PROVE OnceInv'
  BY <1>2 DEF OnceInv, TypeOK, RowGuards, Deliver
<1>3. ASSUME NEW d \in Deliveries, LookupLog(d) PROVE OnceInv'
  BY <1>3 DEF OnceInv, TypeOK, RowGuards, LookupLog
<1>4. ASSUME NEW d \in Deliveries, InsertLog(d) PROVE OnceInv'
  BY <1>4 DEF OnceInv, TypeOK, RowGuards, InsertLog
<1>5. ASSUME NEW v \in Verifies, VerifyReads(v) PROVE OnceInv'
  BY <1>5 DEF OnceInv, TypeOK, RowGuards, VerifyReads
<1>6. ASSUME NEW v \in Verifies, VerifyUnpaid(v) PROVE OnceInv'
  BY <1>6 DEF OnceInv, TypeOK, RowGuards, VerifyUnpaid
<1>7. ASSUME NEW v \in Verifies, VerifyCallFails(v) PROVE OnceInv'
  BY <1>7 DEF OnceInv, TypeOK, RowGuards, VerifyCallFails
<1>8. ASSUME NEW v \in Verifies, VerifyMarksFailed(v) PROVE OnceInv'
  BY <1>8 DEF OnceInv, TypeOK, RowGuards, VerifyMarksFailed
<1>9. ASSUME NEW v \in Verifies, FundingVerifyThrows(v) PROVE OnceInv'
  BY <1>9 DEF OnceInv, TypeOK, RowGuards, FundingVerifyThrows
<1>10. ASSUME NEW h \in Handlers, Confirmed(h) PROVE OnceInv'
  BY <1>10 DEF OnceInv, TypeOK, RowGuards, Confirmed
<1>11. ASSUME NEW h \in Handlers, FindTransaction(h) PROVE OnceInv'
  BY <1>11 DEF OnceInv, TypeOK, RowGuards, FindTransaction
<1>12. ASSUME NEW h \in Handlers, ClaimAndCredit(h) PROVE OnceInv'
  BY <1>12 DEF OnceInv, TypeOK, RowGuards, ClaimAndCredit
<1>13. ASSUME NEW h \in Handlers, CreditVirtualAccount(h) PROVE OnceInv'
  BY <1>13 DEF OnceInv, TypeOK, RowGuards, CreditVirtualAccount
<1>14. ASSUME NEW h \in Handlers, RecordDonation(h) PROVE OnceInv'
  BY <1>14 DEF OnceInv, TypeOK, RowGuards, RecordDonation
<1>15. ASSUME NEW h \in Handlers, RecordContribution(h) PROVE OnceInv'
  BY <1>15 DEF OnceInv, TypeOK, RowGuards, RecordContribution
<1>16. ASSUME NEW h \in Handlers, MarkProcessed(h) PROVE OnceInv'
  BY <1>16 DEF OnceInv, TypeOK, RowGuards, MarkProcessed
<1>17. ASSUME NEW h \in Handlers, Fails(h) PROVE OnceInv'
  BY <1>17 DEF OnceInv, TypeOK, RowGuards, Fails
<1>18. CASE Crash
  BY <1>18 DEF OnceInv, TypeOK, RowGuards, Crash
<1>19. CASE UNCHANGED vars
  BY <1>19 DEF OnceInv, TypeOK, RowGuards, vars
<1> QED
  BY <1>1, <1>2, <1>3, <1>4, <1>5, <1>6, <1>7, <1>8, <1>9, <1>10, <1>11, <1>12,
     <1>13, <1>14, <1>15, <1>16, <1>17, <1>18, <1>19
  DEF Next, Webhook, Verify, Continue

\* Nothing is booked in the beginning.
LEMMA InitOnce == Init => OnceInv
<1> SUFFICES ASSUME Init PROVE OnceInv
  OBVIOUS
<1>1. \A h \in Handlers : pc[h] = "idle"
  BY DEF Init
<1>2. effects = 0
  BY DEF Init
<1>3. \A h \in Handlers : pc[h] \notin {"creditDva", "donate"}
  BY <1>1
<1> QED
  BY <1>2, <1>3 DEF OnceInv

\* The kind of a charge does not change.
LEMMA SetupStays == [Next]_vars => UNCHANGED setup
<1> SUFFICES ASSUME [Next]_vars PROVE UNCHANGED setup
  OBVIOUS
<1>1. CASE Pay \/ Crash
  BY <1>1 DEF Pay, Crash
<1>2. ASSUME NEW d \in Deliveries, Deliver(d) \/ Webhook(d) PROVE UNCHANGED setup
  BY <1>2 DEF Deliver, Webhook, LookupLog, InsertLog
<1>3. ASSUME NEW v \in Verifies, VerifyReads(v) \/ Verify(v) PROVE UNCHANGED setup
  BY <1>3 DEF VerifyReads, Verify, VerifyUnpaid, VerifyCallFails, VerifyMarksFailed,
              FundingVerifyThrows
<1>4. ASSUME NEW h \in Handlers, Continue(h) \/ Fails(h) PROVE UNCHANGED setup
  BY <1>4 DEF Continue, Fails, Confirmed, FindTransaction, ClaimAndCredit,
              CreditVirtualAccount, RecordDonation, RecordContribution, MarkProcessed
<1>5. CASE UNCHANGED vars
  BY <1>5 DEF vars
<1> QED
  BY <1>1, <1>2, <1>3, <1>4, <1>5 DEF Next

\* A top-up without a virtual account, or a contribution, is recorded at most
\* once, whatever is redelivered, verified, repeated or lost.
THEOREM RecordedAtMostOnce == Spec => []RecordedOnce
<1>1. TypeOK /\ OnceInv /\ [Next]_vars => OnceInv'
  BY StepOnce
<1>2. OnceInv => RecordedOnce
  BY DEF OnceInv, RecordedOnce
<1> QED
  BY <1>1, <1>2, InitOnce, TypeCorrect, PTL DEF Spec

\* For the same charges every step of Charge is a step of ChargeOnce or leaves
\* its variables alone: the safety part of KeepsPromise.
THEOREM ImplementsPromise ==
    Spec /\ RowGuards => Promise!Init /\ [][Promise!Next]_<<paid, effects>>
<1>1. Init => Promise!Init
  BY DEF Init, Promise!Init
<1>2. ASSUME TypeOK, PaidFirst, OnceInv, RowGuards, [Next]_vars
      PROVE  [Promise!Next]_<<paid, effects>>
  <2> USE DEF db, bounds, setup, Promise!Next, Promise!Pay, Promise!Record
  <2>1. CASE Pay
    BY <2>1 DEF Pay
  <2>2. ASSUME NEW h \in Handlers, ClaimAndCredit(h)
        PROVE  [Promise!Next]_<<paid, effects>>
    BY <1>2, <2>2 DEF ClaimAndCredit, OnceInv, PaidFirst, At, Recording
  <2>3. ASSUME NEW h \in Handlers, RecordContribution(h)
        PROVE  [Promise!Next]_<<paid, effects>>
    BY <1>2, <2>3 DEF RecordContribution, OnceInv, PaidFirst, At, Recording
  <2>4. ASSUME NEW h \in Handlers, CreditVirtualAccount(h) \/ RecordDonation(h)
        PROVE  FALSE
    BY <1>2, <2>4 DEF CreditVirtualAccount, RecordDonation, OnceInv, At
  <2>5. ASSUME NEW h \in Handlers,
               \/ Confirmed(h) \/ FindTransaction(h) \/ MarkProcessed(h) \/ Fails(h)
        PROVE  UNCHANGED <<paid, effects>>
    BY <2>5 DEF Confirmed, FindTransaction, MarkProcessed, Fails
  <2>6. ASSUME NEW d \in Deliveries, Deliver(d) \/ Webhook(d)
        PROVE  UNCHANGED <<paid, effects>>
    BY <2>6 DEF Deliver, Webhook, LookupLog, InsertLog
  <2>7. ASSUME NEW v \in Verifies, VerifyReads(v) \/ Verify(v)
        PROVE  UNCHANGED <<paid, effects>>
    BY <2>7 DEF VerifyReads, Verify, VerifyUnpaid, VerifyCallFails, VerifyMarksFailed,
                FundingVerifyThrows
  <2>8. CASE Crash
    BY <2>8 DEF Crash
  <2>9. CASE UNCHANGED vars
    BY <2>9 DEF vars
  <2> QED
    BY <1>2, <2>1, <2>2, <2>3, <2>4, <2>5, <2>6, <2>7, <2>8, <2>9 DEF Next, Continue
<1>3. TypeOK /\ OnceInv /\ [Next]_vars => OnceInv'
  BY StepOnce
<1>4. RowGuards /\ [Next]_vars => RowGuards'
  BY SetupStays DEF RowGuards, setup
<1> QED
  BY <1>1, <1>2, <1>3, <1>4, InitOnce, TypeCorrect, PaidBeforeRecorded, PTL DEF Spec
=============================================================================
