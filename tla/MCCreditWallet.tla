--------------------------- MODULE MCCreditWallet ---------------------------
(***************************************************************************)
(* Properties of the credit wallet, and the instances TLC checks them on.  *)
(***************************************************************************)
EXTENDS CreditWalletProps, TLC

CONSTANTS e1, e2, k1, k2, confirm, webhook, topup, s1, s2

\* Every executor has a call key of its own: no step is ever run twice at once.
MCOwnKeys == e1 :> k1 @@ e2 :> k2
\* Two executors of the same step, as when a stranded run is replayed too early.
MCSharedKey == e1 :> k1 @@ e2 :> k1
\* One executor, one step.
MCOneKey == e1 :> k1
\* One purchase delivered twice, and another one.
MCDeliveries == confirm :> s1 @@ webhook :> s1 @@ topup :> s2
\* One purchase delivered once.
MCOneDelivery == confirm :> s1
\* Two purchases.
MCTwoPurchases == confirm :> s1 @@ topup :> s2
=============================================================================
