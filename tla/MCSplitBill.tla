---------------------------- MODULE MCSplitBill ----------------------------
EXTENDS SplitBill

\* The money of a bill adds up whoever pays, cancels and refunds at the same time: what it
\* has collected is what its participants paid, every naira of it left a wallet or a card,
\* no user pays more than the share, and the refunds of a cancelled bill cover it.
CollectedAddsUp ==
    CollectedIsAttributed /\ CollectedIsFunded /\ UsersNeverOverpay /\ RefundCoversPaid
=============================================================================
