----------------------------- MODULE MCPayments -----------------------------
(***************************************************************************)
(* The instances of Payments TLC checks.                                   *)
(***************************************************************************)
EXTENDS PaymentsProps, TLC

CONSTANTS s1, d1, d2, b1, c1, c2, m1, m2

\* A cycle of the job on each of two machines.
MCCycleProc == c1 :> m1 @@ c2 :> m2

\* Either packs are bought or the card is charged: the two share the balance and
\* the webhook, and are explored one at a time.
MCInit == Init /\ (enabled <=> offered = {})
MCSpec == MCInit /\ [][Next]_vars
MCFairSpec == MCSpec /\ Fairness
=============================================================================
