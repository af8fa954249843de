--------------------------- MODULE MCWalletLedger ---------------------------
(* Two wallets, two overlapping requests and two amounts, with a fee rate   *)
(* that takes one unit of the larger amount.                                *)
EXTENDS WalletLedger, TLC

Symmetry == Permutations(Wallets) \cup Permutations(Requests)
=============================================================================
