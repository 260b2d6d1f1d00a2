------------------------- MODULE CreditWalletProps -------------------------
(***************************************************************************)
(* What must hold of the credit wallet.                                    *)
(***************************************************************************)
EXTENDS CreditWallet

\* No two executors ever work for the same call key at once.  The reaper's
\* "sole executor" premise; a replay of a run that is only slow breaks it.
ExclusiveKeys ==
    \A e, f \in Executors : CallKeyOf[e] = CallKeyOf[f] => e = f

\* Credits are neither made nor lost: what was bought is still available, set
\* aside by a reservation row, consumed or expired, at every moment, through
\* overspends that are clamped, failed calls, crashes and the expiration job.
Conservation ==
    lifetimePurchased = balance + reserved + lifetimeConsumed + expired

\* While the LLM call is out, and until it is settled, the credits reserved for
\* it are still set aside under its key, so no call runs on credit it has not got
\* and no commit finds its reservation gone.
CallIsFunded ==
    \A e \in Executors :
        /\ pc[e] \in {"calling", "commit_lookup", "commit_find", "commit_apply",
                      "release_lookup", "release_find", "release_apply"}
               => HasReservation(CallKeyOf[e])
        /\ pc[e] # "wallet_error"

\* A call key is charged at most once, whatever executors, retries and crashes do
\* to it: its consumption row never changes, and lifetime_consumed_credits moves
\* only in the transaction that writes such a row.
ChargedOnce ==
    [][/\ \A k \in consumption : k \in consumption' /\ charged'[k] = charged[k]
       /\ lifetimeConsumed' # lifetimeConsumed => consumption' # consumption]_vars

\* A caller that was told the call succeeded was charged: its consumption row is
\* in the ledger, even if the commit that wrote it was another executor's.
OkMeansCharged ==
    \A e \in Executors : pc[e] = "ok" => CallKeyOf[e] \in consumption

\* A purchase delivered by the confirm endpoint and by the webhook, in any
\* overlap, credits the wallet once.
PurchaseCreditedOnce ==
    lifetimePurchased = PackCredits * Cardinality(purchases)

\* A call that came back as a provider error has given its credits back
\* (creditsRouter.ts, "Release the reservation on every LLM error path").
ErrorReturnsCredits ==
    \A e \in Executors : pc[e] = "llm_error" => ~HasReservation(CallKeyOf[e])

\* Only credits of a wallet without a recent top-up expire
\* (creditExpirationJob.ts, "Wallets with recent top-ups stay fully funded").
FreshCreditsSurvive == [][expired' # expired => stale]_vars

\* The wallet is an account: see CreditAccount.
Account == INSTANCE CreditAccount WITH
    available <- balance,
    onHold    <- SumFunction([k \in CallKeys |-> reservation[k].credits]),
    spent     <- lifetimeConsumed,
    lapsed    <- expired,
    deposited <- lifetimePurchased

\* Every step of the wallet is a deposit, a hold, a settlement or an expiry.
ImplementsAccount == Account!Spec
=============================================================================
