------------------------------ MODULE MCCharge ------------------------------
(* Webhook deliveries are interchangeable.                                  *)
EXTENDS Charge, TLC

Symmetry == Permutations(Deliveries)
=============================================================================
