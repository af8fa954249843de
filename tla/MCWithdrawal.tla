---------------------------- MODULE MCWithdrawal ----------------------------
(* One withdrawal; the configurations choose how many webhook deliveries    *)
(* overlap, and which of the two schemas of webhook_logs is in use.         *)
EXTENDS Withdrawal
=============================================================================
