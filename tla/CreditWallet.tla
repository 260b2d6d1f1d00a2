---------------------------- MODULE CreditWallet ----------------------------
(***************************************************************************)
(* One workspace's hosted-inference credit wallet: the four SQL functions  *)
(* reserve / commit / release / grant, the credits router that strings     *)
(* them around an LLM call, the customer's daily spend cap and the         *)
(* expiration job.                                                         *)
(*                                                                         *)
(* PostgreSQL runs every statement of a plpgsql function on a snapshot of  *)
(* its own (READ COMMITTED), and the first write of the three debit        *)
(* functions takes the wallet's row lock, which it keeps to the end of the *)
(* transaction.  So each SELECT is an action, and the UPDATE of the wallet *)
(* with the DELETE and INSERT that follow it is one action.                *)
(*                                                                         *)
(* The ledger has a UNIQUE idempotency key.  A row type is one variable,   *)
(* indexed by what the key is made from.                                   *)
(***************************************************************************)
EXTENDS Integers, FiniteSets, Functions

CONSTANTS
    Executors,     \* processes (or retries inside one) that run callWithCredits
    CallKeys,      \* idempotency stems "step__<run>__<step>"
    CallKeyOf,     \* the stem an executor's calls carry
    Estimates,     \* worst-case costs a call may be given
    Actuals,       \* real costs a call may turn out to have
    MaxCalls,      \* bound: calls one executor makes
    Granters,      \* deliveries that grant credits (confirm endpoint, webhook)
    GrantKeys,     \* purchases "credit_purchase__<session>"
    GrantKeyOf,    \* the purchase a delivery is for
    PackCredits,   \* credits of a pack
    DailyCap,      \* credits_daily_spend_cap_credits, or NoCap
    NoCap,
    Jobs           \* API instances, each of which runs the expiration job

ASSUME WalletAssumption ==
    /\ CallKeyOf \in [Executors -> CallKeys]
    /\ GrantKeyOf \in [Granters -> GrantKeys]
    /\ Estimates \subseteq Nat \ {0}
    /\ Actuals \subseteq Nat
    /\ MaxCalls \in Nat
    /\ PackCredits \in Nat \ {0}
    /\ DailyCap \in Nat \union {NoCap}

VARIABLES
    \* workspace_credit_wallets
    balance, lifetimePurchased, lifetimeConsumed,
    \* workspace_credit_ledger
    reservation,   \* 'reservation' row of a call key, NoRow when there is none
    nextId,        \* source of fresh row ids
    consumption,   \* call keys with a 'consumption' row ...
    charged,       \* ... and the credits it records
    releases,      \* call keys with a 'reservation_release' row
    purchases,     \* purchases with a 'purchase' row
    expirations,   \* 'expiration' rows, one per anchor day
    recent,        \* call keys whose consumption row is younger than 24 hours
    anchor,        \* the day of the newest purchase row
    stale,         \* that day lies more than twelve months back
    \* callWithCredits, one frame per executor
    pc, calls, estimate, actual, held,
    \* grantCredits and the expiration job
    gpc, jpc, seen,
    \* history, read by no action: what left the wallet through each door
    reserved,      \* credits of all reservation rows
    expired        \* credits the expiration job has drained

walletVars == <<balance, lifetimePurchased, lifetimeConsumed>>
ledgerVars == <<reservation, nextId, consumption, charged, releases, purchases,
                expirations, recent, anchor, stale>>
frameVars  == <<pc, calls, estimate, actual, held>>
jobVars    == <<gpc, jpc, seen>>
history    == <<reserved, expired>>
vars == <<walletVars, ledgerVars, frameVars, jobVars, history>>

----------------------------------------------------------------------------
NoRow == [id |-> 0, credits |-> 0]

Row == [id : Nat, credits : Nat]

\* Where callWithCredits can rest between two calls: not started, or returned.
Returned == {"idle", "ok", "refused", "llm_error", "wallet_error", "threw"}

\* Where it is between two statements.
Busy == {"reserve_lookup", "reserve_apply", "calling",
         "commit_lookup", "commit_find", "commit_apply",
         "release_lookup", "release_find", "release_apply"}

GrantPC == {"idle", "apply", "threw", "done"}
JobPC   == {"idle", "insert", "drain"}

TypeOK ==
    /\ balance \in Nat /\ lifetimePurchased \in Nat /\ lifetimeConsumed \in Nat
    /\ reservation \in [CallKeys -> Row]
    /\ nextId \in Nat \ {0}
    /\ consumption \subseteq CallKeys
    /\ charged \in [CallKeys -> Nat]
    /\ releases \subseteq CallKeys
    /\ purchases \subseteq GrantKeys
    /\ expirations \subseteq Nat
    /\ recent \subseteq consumption
    /\ anchor \in Nat /\ stale \in BOOLEAN
    /\ pc \in [Executors -> Returned \union Busy]
    /\ calls \in [Executors -> Nat]
    /\ estimate \in [Executors -> Nat]
    /\ actual \in [Executors -> Nat]
    /\ held \in [Executors -> Row]
    /\ gpc \in [Granters -> GrantPC]
    /\ jpc \in [Jobs -> JobPC]
    /\ seen \in [Jobs -> [credits : Nat, anchor : Nat]]
    /\ reserved \in Int /\ expired \in Nat

Init ==
    /\ balance = 0 /\ lifetimePurchased = 0 /\ lifetimeConsumed = 0
    /\ reservation = [k \in CallKeys |-> NoRow]
    /\ nextId = 1
    /\ consumption = {}
    /\ charged = [k \in CallKeys |-> 0]
    /\ releases = {} /\ purchases = {} /\ expirations = {} /\ recent = {}
    /\ anchor = 0 /\ stale = FALSE
    /\ pc = [e \in Executors |-> "idle"]
    /\ calls = [e \in Executors |-> 0]
    /\ estimate = [e \in Executors |-> 0]
    /\ actual = [e \in Executors |-> 0]
    /\ held = [e \in Executors |-> NoRow]
    /\ gpc = [g \in Granters |-> "idle"]
    /\ jpc = [j \in Jobs |-> "idle"]
    /\ seen = [j \in Jobs |-> [credits |-> 0, anchor |-> 0]]
    /\ reserved = 0 /\ expired = 0

Minimum(a, b) == IF a <= b THEN a ELSE b

Goto(e, label) == pc' = [pc EXCEPT ![e] = label]

\* A statement that reads, or a call that returns: only the frame moves.
Step(e, from, to) ==
    /\ pc[e] = from
    /\ Goto(e, to)
    /\ UNCHANGED <<walletVars, ledgerVars, calls, estimate, actual, held,
                   jobVars, history>>

----------------------------------------------------------------------------
(* reserveCredits: the daily-cap query, then reserve_credits               *)

ConsumedToday == SumFunctionOnSet(charged, recent)

OverCap(credits) == DailyCap # NoCap /\ ConsumedToday + credits > DailyCap

\* The cap query counts consumption rows only, and commits to nothing.
StartCall(e, credits) ==
    /\ pc[e] \in Returned
    /\ calls[e] < MaxCalls
    /\ calls' = [calls EXCEPT ![e] = @ + 1]
    /\ estimate' = [estimate EXCEPT ![e] = credits]
    /\ Goto(e, IF OverCap(credits) THEN "refused" ELSE "reserve_lookup")
    /\ UNCHANGED <<walletVars, ledgerVars, actual, held, jobVars, history>>

HasReservation(k) == reservation[k].id # 0

\* The other rows of a key: the lookup that answers 'duplicate', and the UNIQUE
\* constraint an INSERT meets.
HasCommitMutant(k) == FALSE     \* keys not UNIQUE
HasCommit(k) == k \in consumption
HasRelease(k) == k \in releases
HasPurchaseMutant(s) == FALSE
HasPurchase(s) == s \in purchases

ReserveLookupMutant(e) ==   \* any row of the call counts
    Step(e, "reserve_lookup",
         IF HasReservation(CallKeyOf[e]) \/ HasRelease(CallKeyOf[e])
         THEN "calling" ELSE "reserve_apply")

\* A key that already has a row is answered 'duplicate', which counts as reserved.
ReserveLookup(e) ==
    Step(e, "reserve_lookup",
         IF HasReservation(CallKeyOf[e]) THEN "calling" ELSE "reserve_apply")

ReserveInsufficient(e) ==
    /\ balance < estimate[e]
    /\ Step(e, "reserve_apply", "refused")

\* The INSERT meets a row another executor has written since the lookup: the
\* unique violation rolls the debit back and is thrown at the caller.
ReserveConflict(e) ==
    /\ balance >= estimate[e]
    /\ HasReservation(CallKeyOf[e])
    /\ Step(e, "reserve_apply", "threw")

ReserveApply(e) ==
    /\ pc[e] = "reserve_apply"
    /\ balance >= estimate[e]
    /\ ~HasReservation(CallKeyOf[e])
    /\ balance' = balance - estimate[e]
    /\ reservation' = [reservation EXCEPT
                          ![CallKeyOf[e]] = [id |-> nextId, credits |-> estimate[e]]]
    /\ nextId' = nextId + 1
    /\ reserved' = reserved + estimate[e]
    /\ Goto(e, "calling")
    /\ UNCHANGED <<lifetimePurchased, lifetimeConsumed, consumption, charged,
                   releases, purchases, expirations, recent, anchor, stale,
                   calls, estimate, actual, held, jobVars, expired>>

----------------------------------------------------------------------------
(* The LLM call and what follows it                                        *)

LLMFails(e) == Step(e, "calling", "release_lookup")

LLMAnswers(e, credits) ==
    /\ pc[e] = "calling"
    /\ actual' = [actual EXCEPT ![e] = credits]
    /\ Goto(e, "commit_lookup")
    /\ UNCHANGED <<walletVars, ledgerVars, calls, estimate, held, jobVars, history>>

\* The process dies, or a query outside the wallet throws (markThrottled before
\* the release, the rate card before the commit): no statement in flight lasts.
Abandon(e) ==
    /\ pc[e] \in Busy
    /\ Goto(e, "threw")
    /\ UNCHANGED <<walletVars, ledgerVars, calls, estimate, actual, held,
                   jobVars, history>>

----------------------------------------------------------------------------
(* commit_credits                                                          *)

CommitLookup(e) ==
    Step(e, "commit_lookup",
         IF HasCommit(CallKeyOf[e]) THEN "ok" ELSE "commit_find")

\* SELECT INTO v_reservation; the shared half of commit and release.
FindReservation(e, from, to, none) ==
    /\ pc[e] = from
    /\ Goto(e, IF HasReservation(CallKeyOf[e]) THEN to ELSE none)
    /\ held' = [held EXCEPT ![e] = reservation[CallKeyOf[e]]]
    /\ UNCHANGED <<walletVars, ledgerVars, calls, estimate, actual, jobVars, history>>

CommitFindMutant(e) ==   \* no reservation taken for one already committed
    FindReservation(e, "commit_find", "commit_apply", "ok")

CommitFind(e) == FindReservation(e, "commit_find", "commit_apply", "wallet_error")

CommitConflict(e) ==
    /\ HasCommit(CallKeyOf[e])
    /\ Step(e, "commit_apply", "threw")

SurplusUnclampedMutant(e) == actual[e] - held[e].credits

SurplusGreatestMutant(e) ==   \* migration 068, before 075
    IF actual[e] - held[e].credits >= -balance
    THEN actual[e] - held[e].credits ELSE -balance

\* LEAST(v_diff, balance_credits): an overspend takes at most what is left.
Surplus(e) == Minimum(actual[e] - held[e].credits, balance)

RemoveRowMutant(k, row) == UNCHANGED <<reservation, reserved>>   \* no DELETE

\* DELETE ... WHERE id = v_reservation.id touches nothing when the row is gone.
RemoveRow(k, row) ==
    /\ reservation' = IF reservation[k].id = row.id
                      THEN [reservation EXCEPT ![k] = NoRow] ELSE reservation
    /\ reserved' = IF reservation[k].id = row.id
                   THEN reserved - reservation[k].credits ELSE reserved

CommitApply(e) ==
    /\ pc[e] = "commit_apply"
    /\ ~HasCommit(CallKeyOf[e])
    /\ balance' = balance - Surplus(e)
    /\ lifetimeConsumed' = lifetimeConsumed
                               + Minimum(actual[e], held[e].credits + balance)
    /\ RemoveRow(CallKeyOf[e], held[e])
    /\ consumption' = consumption \union {CallKeyOf[e]}
    /\ recent' = recent \union {CallKeyOf[e]}
    /\ charged' = [charged EXCEPT ![CallKeyOf[e]] = actual[e]]
    /\ Goto(e, "ok")
    /\ UNCHANGED <<lifetimePurchased, nextId, releases, purchases, expirations,
                   anchor, stale, calls, estimate, actual, held, jobVars, expired>>

----------------------------------------------------------------------------
(* release_credits                                                         *)

\* A key released once before is answered 'duplicate', whatever is held now.
ReleaseLookup(e) ==
    Step(e, "release_lookup",
         IF HasRelease(CallKeyOf[e]) THEN "llm_error" ELSE "release_find")

ReleaseFind(e) == FindReservation(e, "release_find", "release_apply", "llm_error")

ReleaseConflict(e) ==
    /\ HasRelease(CallKeyOf[e])
    /\ Step(e, "release_apply", "threw")

ReleaseApply(e) ==
    /\ pc[e] = "release_apply"
    /\ ~HasRelease(CallKeyOf[e])
    /\ balance' = balance + held[e].credits
    /\ RemoveRow(CallKeyOf[e], held[e])
    /\ releases' = releases \union {CallKeyOf[e]}
    /\ Goto(e, "llm_error")
    /\ UNCHANGED <<lifetimePurchased, lifetimeConsumed, nextId, consumption,
                   charged, purchases, expirations, recent, anchor, stale,
                   calls, estimate, actual, held, jobVars, expired>>

----------------------------------------------------------------------------
(* grant_credits, reached by the confirm endpoint and by the webhook       *)

\* A delivery that threw is retried by its sender.
GrantLookup(g) ==
    /\ gpc[g] \in {"idle", "threw"}
    /\ gpc' = [gpc EXCEPT
                  ![g] = IF HasPurchase(GrantKeyOf[g]) THEN "done" ELSE "apply"]
    /\ UNCHANGED <<walletVars, ledgerVars, frameVars, jpc, seen, history>>

GrantConflict(g) ==
    /\ gpc[g] = "apply"
    /\ HasPurchase(GrantKeyOf[g])
    /\ gpc' = [gpc EXCEPT ![g] = "threw"]
    /\ UNCHANGED <<walletVars, ledgerVars, frameVars, jpc, seen, history>>

GrantApply(g) ==
    /\ gpc[g] = "apply"
    /\ ~HasPurchase(GrantKeyOf[g])
    /\ balance' = balance + PackCredits
    /\ lifetimePurchased' = lifetimePurchased + PackCredits
    /\ purchases' = purchases \union {GrantKeyOf[g]}
    /\ anchor' = anchor + 1
    /\ stale' = FALSE
    /\ gpc' = [gpc EXCEPT ![g] = "done"]
    /\ UNCHANGED <<lifetimeConsumed, reservation, nextId, consumption, charged,
                   releases, expirations, recent, frameVars, jpc, seen, history>>

----------------------------------------------------------------------------
(* The passing of time, and the expiration job                             *)

WindowRolls(k) ==
    /\ k \in recent
    /\ recent' = recent \ {k}
    /\ UNCHANGED <<walletVars, reservation, nextId, consumption, charged, releases,
                   purchases, expirations, anchor, stale, frameVars, jobVars, history>>

TwelveMonthsPass ==
    /\ purchases # {} /\ ~stale
    /\ stale' = TRUE
    /\ recent' = {}
    /\ UNCHANGED <<walletVars, reservation, nextId, consumption, charged, releases,
                   purchases, expirations, anchor, frameVars, jobVars, history>>

\* One SELECT reads the balance and the age of the newest purchase.
ExpireScan(j) ==
    /\ jpc[j] = "idle"
    /\ balance > 0 /\ stale
    /\ seen' = [seen EXCEPT ![j] = [credits |-> balance, anchor |-> anchor]]
    /\ jpc' = [jpc EXCEPT ![j] = "insert"]
    /\ UNCHANGED <<walletVars, ledgerVars, frameVars, gpc, history>>

\* INSERT ... ON CONFLICT (idempotency_key) DO NOTHING
ExpireInsert(j) ==
    /\ jpc[j] = "insert"
    /\ expirations' = expirations \union {seen[j].anchor}
    /\ jpc' = [jpc EXCEPT ![j] = "drain"]
    /\ UNCHANGED <<walletVars, reservation, nextId, consumption, charged, releases,
                   purchases, recent, anchor, stale, frameVars, gpc, seen, history>>

\* UPDATE ... SET balance_credits = 0 WHERE balance_credits = $2
ExpireDrain(j) ==
    /\ jpc[j] = "drain"
    /\ balance' = IF balance = seen[j].credits THEN 0 ELSE balance
    /\ expired' = IF balance = seen[j].credits THEN expired + balance ELSE expired
    /\ jpc' = [jpc EXCEPT ![j] = "idle"]
    /\ UNCHANGED <<lifetimePurchased, lifetimeConsumed, ledgerVars, frameVars,
                   gpc, seen, reserved>>

ExpireCrash(j) ==
    /\ jpc[j] # "idle"
    /\ jpc' = [jpc EXCEPT ![j] = "idle"]
    /\ UNCHANGED <<walletVars, ledgerVars, frameVars, gpc, seen, history>>

----------------------------------------------------------------------------
Reserve(e) == \/ \E c \in Estimates : StartCall(e, c)
              \/ ReserveLookup(e)
              \/ ReserveInsufficient(e)
              \/ ReserveConflict(e)
              \/ ReserveApply(e)

Call(e) == \/ LLMFails(e)
           \/ \E c \in Actuals : LLMAnswers(e, c)
           \/ Abandon(e)

Commit(e) == CommitLookup(e) \/ CommitFind(e) \/ CommitConflict(e) \/ CommitApply(e)

Release(e) == ReleaseLookup(e) \/ ReleaseFind(e) \/ ReleaseConflict(e) \/ ReleaseApply(e)

Grant(g) == GrantLookup(g) \/ GrantConflict(g) \/ GrantApply(g)

Expire(j) == ExpireScan(j) \/ ExpireInsert(j) \/ ExpireDrain(j) \/ ExpireCrash(j)

Next ==
    \/ \E e \in Executors : Reserve(e) \/ Call(e) \/ Commit(e) \/ Release(e)
    \/ \E g \in Granters : Grant(g)
    \/ \E k \in CallKeys : WindowRolls(k)
    \/ TwelveMonthsPass
    \/ \E j \in Jobs : Expire(j)

Spec == Init /\ [][Next]_vars
=============================================================================
