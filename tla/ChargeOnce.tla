----------------------------- MODULE ChargeOnce -----------------------------
(***************************************************************************)
(* What the platform promises about one card, bank or hosted-page charge:  *)
(* once Paystack has taken the money its effect (a wallet credit, a        *)
(* donation, a contribution) is recorded, exactly once.                    *)
(***************************************************************************)
VARIABLES
    paid,       \* Paystack took the money
    effects     \* how often it was recorded here

Init == paid = FALSE /\ effects = 0

Pay == ~paid /\ paid' = TRUE /\ UNCHANGED effects

Record == paid /\ effects = 0 /\ effects' = 1 /\ UNCHANGED paid

Next == Pay \/ Record

Spec == Init /\ [][Next]_<<paid, effects>> /\ WF_<<paid, effects>>(Record)
=============================================================================
