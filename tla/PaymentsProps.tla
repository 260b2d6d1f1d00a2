--------------------------- MODULE PaymentsProps ---------------------------
(***************************************************************************)
(* What must hold of payments.                                             *)
(***************************************************************************)
EXTENDS Payments

\* However often a payment is delivered and confirmed, and wherever requests stop,
\* its credits are given out once: all credits ever granted are those of the
\* payments in the ledger (stripeWebhook.ts "idempotent on its own ledger key").
CreditedOnce ==
    granted = PackCredits * Cardinality({p \in credited : p.kind = "pack"})
                + TopupCredits * Cardinality({p \in credited : p.kind = "topup"})

\* Stripe is told a payment's event was received only when the payment is credited,
\* or about to be by a request under way, or was being handled when a request died:
\* the duplicate that answers 200 while the first delivery is still at work never
\* hides a payment nobody is crediting.
AckedIsCredited ==
    \A p \in acked :
        \/ p \in credited \union broken
        \/ \E r \in Deliveries : For(r) = p /\ req[r].pc \in {"lookup", "apply"}

\* The treasury is funded only from purchases the customer has the credits for.
FundedIsCredited == funded \subseteq credited \intersect {Pack(s) : s \in paid}

\* A credited purchase whose money is not in the treasury is in the hands of a request
\* that will put it there: the one that granted it, before its claim, or whoever is
\* about to sweep it.  No two requests leave it to each other (checkoutRoutes.ts,
\* stripeWebhook.ts: sweep if claimed or newly granted).
FundingIsOnItsWay ==
    \A s \in Sessions : Pack(s) \in credited \ (funded \union broken) =>
        \E r \in Requests :
            /\ For(r) = Pack(s)
            /\ At(r, "sweep") \/ (At(r, "claim") /\ req[r].new)

\* Several machines, restarts, lost answers and slow webhooks may charge a card
\* again and again before the first charge is credited, but not more often than half
\* hours have begun (creditAutoTopupJob.ts, the bucketed idempotency key).
ChargesAreSpaced == Cardinality(charges) <= Bucket + 1

\* Money taken becomes credits, unless a request for it died after its event was
\* logged: statements that fail before that, claims that fail, duplicates, conflicts
\* and a buyer who never comes back lose nothing.
PaidIsCredited ==
    /\ \A s \in Sessions : s \in paid ~> Pack(s) \in credited \union broken
    /\ \A k \in Keys : k \in charges ~> Topup(k) \in credited \union broken

\* A credited purchase funds the treasury, whichever of the two paths granted it and
\* whichever claimed it, and though the claim may fail.
CreditedIsFunded ==
    \A s \in Sessions : Pack(s) \in credited ~> Pack(s) \in funded \union broken

\* A wallet is not charged again while a charge of the last half hour waits for its
\* webhook (creditAutoTopupJob.ts, "so we don't double-charge while waiting on the
\* webhook"; restarts: "the worst case is a wallet stays empty for one extra cycle").
OneChargeAwaited ==
    [][charges' # charges => \A k \in charges : Topup(k) \in credited]_vars
=============================================================================
