------------------------------ MODULE Payments ------------------------------
(***************************************************************************)
(* How money paid to Stripe becomes credits of one workspace's wallet: the *)
(* Stripe webhook with its event log, the confirm endpoint the buyer's     *)
(* browser calls, and the job that charges a saved card when the balance   *)
(* is low.  grant_credits itself is CreditWallet's subject; here it is a   *)
(* lookup and an insert under a UNIQUE key.                                *)
(*                                                                         *)
(* A statement or a call to Stripe is an action, so deliveries, confirms   *)
(* and cycles of the job interleave between them, on several API machines. *)
(* Time is counted in ticks, and read by the job only.                     *)
(***************************************************************************)
EXTENDS Integers, FiniteSets

CONSTANTS
    Sessions,      \* checkout sessions for a credit pack
    Deliveries,    \* webhook requests that can be under way at once
    Buyers,        \* confirm requests that can be under way at once
    Cycles,        \* cycles of the auto-topup job that can be under way at once
    Procs,         \* API machines, each of which starts the job ...
    CycleProc,     \* ... and the machine a cycle runs on
    PackCredits,   \* credits of a pack
    TopupCredits,  \* auto_topup_amount_credits
    Trigger,       \* auto_topup_trigger_credits
    Cooldown,      \* IN_FLIGHT_COOLDOWN_MS, in ticks
    MaxTime,       \* bound: ticks that pass
    MaxFailures    \* bound: failed calls, requests and machines that die

ASSUME PaymentsAssumption ==
    /\ Deliveries \intersect Buyers = {}
    /\ CycleProc \in [Cycles -> Procs]
    /\ PackCredits \in Nat \ {0}
    /\ TopupCredits \in Nat \ {0}
    /\ Trigger \in Nat
    /\ Cooldown \in Nat \ {0}
    /\ MaxTime \in Nat
    /\ MaxFailures \in Nat

VARIABLES
    now,
    \* Stripe
    offered,     \* sessions created for this workspace
    paid,        \* sessions paid
    charges,     \* off-session PaymentIntents that succeeded, by idempotency key
    acked,       \* payments whose event was answered with 2xx
    \* PostgreSQL
    log,         \* stripe_webhook_events
    credited,    \* payments with a 'purchase' row in the credit ledger
    balance,
    claims,      \* credit_purchase_events: sessions somebody claimed
    funded,      \* treasury ledger: sessions with a 'funding' row
    enabled,     \* auto_topup_enabled
    \* the API machines
    req,         \* a request: where it is, for which payment, and whether its grant was new
    cycle,       \* a cycle of the job, and the key it charges under
    inFlight,    \* per machine, when it last charged; memory only
    failures,    \* how many there have been
    \* history, read by no action
    granted,     \* credits given out in all
    broken       \* payments one of whose requests died once its event was logged or
                 \* its credits were granted, or could not write the funding row

ledgerVars == <<credited, balance, granted>>
jobVars    == <<now, offered, charges, enabled, cycle, inFlight>>
vars == <<now, offered, paid, charges, acked, log, credited, balance, claims, funded,
          enabled, req, cycle, inFlight, failures, granted, broken>>

----------------------------------------------------------------------------
Requests == Deliveries \union Buyers

Payment == [kind : {"pack"}, of : Sessions] \union [kind : {"topup"}, of : Nat]

Pack(s)  == [kind |-> "pack", of |-> s]
Topup(k) == [kind |-> "topup", of |-> k]

\* What Stripe has taken money for, and has an event to deliver about:
\* checkout.session.completed or payment_intent.succeeded.
Taken == {Pack(s) : s \in paid} \union {Topup(k) : k \in charges}

Credits(p) == IF p.kind = "pack" THEN PackCredits ELSE TopupCredits

NoPayment == [kind |-> "none", of |-> 0]

NoRequest == [pc |-> "idle", for |-> NoPayment, new |-> FALSE]

Request == [pc : {"idle", "lookup", "apply", "claim", "sweep"},
            for : Payment \union {NoPayment}, new : BOOLEAN]

NoCycle == [pc |-> "idle", key |-> 0]

Cycle == [pc : {"idle", "fire", "charging", "mark", "disable"}, key : Nat]

\* A machine that has not charged since it started.
Never == 0 - Cooldown - 1

PaymentsTypeOK ==
    /\ now \in Nat
    /\ offered \subseteq Sessions /\ paid \subseteq offered
    /\ charges \subseteq Nat
    /\ acked \subseteq Payment /\ log \subseteq Payment
    /\ credited \subseteq Payment
    /\ balance \in Nat /\ granted \in Nat
    /\ claims \subseteq Payment /\ funded \subseteq Payment
    /\ enabled \in BOOLEAN
    /\ req \in [Requests -> Request]
    /\ cycle \in [Cycles -> Cycle]
    /\ inFlight \in [Procs -> Nat \union {Never}]
    /\ failures \in Nat
    /\ broken \subseteq Payment

Init ==
    /\ now = 0
    /\ offered \in SUBSET Sessions
    /\ paid = {} /\ charges = {} /\ acked = {}
    /\ log = {} /\ credited = {} /\ claims = {} /\ funded = {}
    /\ balance = 0 /\ granted = 0
    /\ enabled \in BOOLEAN
    /\ req = [r \in Requests |-> NoRequest]
    /\ cycle = [c \in Cycles |-> NoCycle]
    /\ inFlight = [m \in Procs |-> Never]
    /\ failures = 0
    /\ broken = {}

Fail == failures < MaxFailures /\ failures' = failures + 1

----------------------------------------------------------------------------
(* The buyer and the customer                                              *)

Pay(s) ==
    /\ s \in offered \ paid
    /\ paid' = paid \union {s}
    /\ UNCHANGED <<jobVars, acked, log, ledgerVars, claims, funded, req,
                   failures, broken>>

SpendMutant ==     \* the reservation does not look at the balance
    /\ balance' = balance - 1
    /\ UNCHANGED <<jobVars, paid, acked, log, credited, granted, claims, funded,
                   req, failures, broken>>

\* Calls take credits out of the wallet (CreditWallet).
Spend ==
    /\ balance > 0
    /\ balance' = balance - 1
    /\ UNCHANGED <<jobVars, paid, acked, log, credited, granted, claims, funded,
                   req, failures, broken>>

----------------------------------------------------------------------------
(* The webhook request and the confirm request                             *)

\* The payment a request is about.
For(r) == req[r].for

At(r, pc) == req[r].pc = pc

Starts(r, p, pc) == req' = [req EXCEPT ![r] = [pc |-> pc, for |-> p, new |-> FALSE]]

Ends(r) == req' = [req EXCEPT ![r] = NoRequest]

\* The handler goes on at pc, or it is over and answers with 2xx.
Goes(r, pc, new) ==
    /\ req' = [req EXCEPT ![r] = IF pc = "answer" THEN NoRequest
                                ELSE [pc |-> pc, for |-> For(r), new |-> new]]
    /\ acked' = IF pc = "answer" /\ r \in Deliveries THEN acked \union {For(r)}
                ELSE acked

\* Stripe delivers an event until it is answered with 2xx, perhaps twice at once.
\* recordEventOnce: INSERT ... ON CONFLICT DO NOTHING.  (The ordering guard that
\* follows reads only, and one session or payment intent has no newer event.)
DeliverFirst(r, p) ==
    /\ At(r, "idle")
    /\ p \in Taken \ acked
    /\ p \notin log
    /\ log' = log \union {p}
    /\ Starts(r, p, "lookup")
    /\ UNCHANGED <<jobVars, paid, acked, ledgerVars, claims, funded, failures, broken>>

\* A duplicate is answered with 200, whatever has become of the first.
DeliverDuplicate(r, p) ==
    /\ At(r, "idle")
    /\ p \in Taken \ acked
    /\ p \in log
    /\ acked' = acked \union {p}
    /\ UNCHANGED <<jobVars, paid, log, ledgerVars, claims, funded, req, failures,
                   broken>>

ConfirmMutant(r, s) ==     \* claims, and leaves the grant to the webhook
    /\ At(r, "idle")
    /\ s \in paid
    /\ Starts(r, Pack(s), "claim")
    /\ UNCHANGED <<jobVars, paid, acked, log, ledgerVars, claims, funded,
                   failures, broken>>

\* The success page of the checkout, which may be loaded again, or never.
Confirm(r, s) ==
    /\ At(r, "idle")
    /\ s \in paid
    /\ Starts(r, Pack(s), "lookup")
    /\ UNCHANGED <<jobVars, paid, acked, log, ledgerVars, claims, funded,
                   failures, broken>>

\* Where the handler goes on once the credits are there.
Granted(r) == IF For(r).kind = "pack" THEN "claim" ELSE "answer"

\* The ledger row's UNIQUE key, credit_purchase__<session> or
\* credits_auto_topup__<payment intent>.
HasGrantMutant(p) == FALSE           \* keyed by the event or the request
HasGrantLoggedMutant(p) == p \in log \* deduplicated on the event log alone
HasGrant(p) == p \in credited

GrantLookup(r) ==
    /\ At(r, "lookup")
    /\ Goes(r, IF HasGrant(For(r)) THEN Granted(r) ELSE "apply", FALSE)
    /\ UNCHANGED <<jobVars, paid, log, ledgerVars, claims, funded,
                   failures, broken>>

GrantApply(r) ==
    /\ At(r, "apply")
    /\ ~HasGrant(For(r))
    /\ credited' = credited \union {For(r)}
    /\ balance' = balance + Credits(For(r))
    /\ granted' = granted + Credits(For(r))
    /\ Goes(r, Granted(r), TRUE)
    /\ UNCHANGED <<jobVars, paid, log, claims, funded, failures, broken>>

\* The row came in between: the unique violation is thrown, the answer is a 500.
GrantConflict(r) ==
    /\ At(r, "apply")
    /\ HasGrant(For(r))
    /\ Ends(r)
    /\ UNCHANGED <<jobVars, paid, acked, log, ledgerVars, claims, funded,
                   failures, broken>>

\* Neither claimed nor granted by this request: the other path's purchase.
AfterClaimMutant(r, claimed) == IF claimed THEN "sweep" ELSE "answer"
AfterClaim(r, claimed) == IF claimed \/ req[r].new THEN "sweep" ELSE "answer"

\* claimSessionForGrant: INSERT ... ON CONFLICT DO NOTHING.
Claim(r) ==
    /\ At(r, "claim")
    /\ claims' = claims \union {For(r)}
    /\ Goes(r, AfterClaim(r, For(r) \notin claims), req[r].new)
    /\ UNCHANGED <<jobVars, paid, log, ledgerVars, funded, failures, broken>>

\* The claim's error is caught, and counts as not claimed.
ClaimFails(r) ==
    /\ At(r, "claim")
    /\ Fail
    /\ Goes(r, AfterClaim(r, FALSE), req[r].new)
    /\ UNCHANGED <<jobVars, paid, log, ledgerVars, claims, funded, broken>>

\* sweepPurchaseToIssuing, with issuing enabled.
Sweep(r) ==
    /\ At(r, "sweep")
    /\ funded' = funded \union {For(r)}
    /\ Goes(r, "answer", req[r].new)
    /\ UNCHANGED <<jobVars, paid, log, ledgerVars, claims, failures, broken>>

SweepFails(r) ==
    /\ At(r, "sweep")
    /\ Fail
    /\ broken' = broken \union {For(r)}
    /\ Goes(r, "answer", req[r].new)
    /\ UNCHANGED <<jobVars, paid, log, ledgerVars, claims, funded>>

\* Does a request that dies now leave something undone that its retry will not do?
\* A delivery does, once its event is in the log: the next one is a duplicate.
LeavesHalf(r) == r \in Deliveries \/ req[r].pc \in {"claim", "sweep"}

\* A statement throws, or the machine dies: no 2xx.
Dies(r) ==
    /\ ~At(r, "idle")
    /\ Fail
    /\ broken' = IF LeavesHalf(r) THEN broken \union {For(r)} ELSE broken
    /\ Ends(r)
    /\ UNCHANGED <<jobVars, paid, acked, log, ledgerVars, claims, funded>>

----------------------------------------------------------------------------
(* The auto-topup job                                                      *)

ledgerUntouched == <<offered, paid, acked, log, ledgerVars, claims, funded, req, broken>>

Wakes(m) == now - inFlight[m] > Cooldown

\* findWalletsNeedingTopup
Scan(c) ==
    /\ cycle[c].pc = "idle"
    /\ enabled /\ balance < Trigger
    /\ cycle' = [cycle EXCEPT ![c].pc = "fire"]
    /\ UNCHANGED <<ledgerUntouched, now, charges, enabled, inFlight, failures>>

Skip(c) ==
    /\ cycle[c].pc = "fire"
    /\ ~Wakes(CycleProc[c])
    /\ cycle' = [cycle EXCEPT ![c] = NoCycle]
    /\ UNCHANGED <<ledgerUntouched, now, charges, enabled, inFlight, failures>>

\* The idempotency key of a charge: the current half hour.
Bucket == now \div Cooldown

KeyMutant == now     \* the time itself
Key == Bucket

\* From the check to the request nothing is awaited.
Fire(c) ==
    /\ cycle[c].pc = "fire"
    /\ Wakes(CycleProc[c])
    /\ cycle' = [cycle EXCEPT ![c] = [pc |-> "charging", key |-> Key]]
    /\ UNCHANGED <<ledgerUntouched, now, charges, enabled, inFlight, failures>>

\* Stripe charges once per key, and repeats its answer to the same request.
Charge(c) ==
    /\ cycle[c].pc = "charging"
    /\ charges' = charges \union {cycle[c].key}
    /\ cycle' = [cycle EXCEPT ![c] = [pc |-> "mark", key |-> 0]]
    /\ UNCHANGED <<ledgerUntouched, now, enabled, inFlight, failures>>

\* The metadata carry the balance: under a used key, another balance is another
\* request, which Stripe refuses.
KeyReused(c) ==
    /\ cycle[c].pc = "charging"
    /\ cycle[c].key \in charges
    /\ cycle' = [cycle EXCEPT ![c] = NoCycle]
    /\ UNCHANGED <<ledgerUntouched, now, charges, enabled, inFlight, failures>>

\* The answer is lost, and perhaps the request was: nothing is marked.
ChargeUnanswered(c) ==
    /\ cycle[c].pc = "charging"
    /\ Fail
    /\ charges' \in {charges, charges \union {cycle[c].key}}
    /\ cycle' = [cycle EXCEPT ![c] = NoCycle]
    /\ UNCHANGED <<ledgerUntouched, now, enabled, inFlight>>

ChargeDeclined(c) ==
    /\ cycle[c].pc = "charging"
    /\ cycle[c].key \notin charges
    /\ Fail
    /\ cycle' = [cycle EXCEPT ![c] = [pc |-> "disable", key |-> 0]]
    /\ UNCHANGED <<ledgerUntouched, now, charges, enabled, inFlight>>

\* disableAutoTopupForWallet, whatever the customer has configured since.
Disable(c) ==
    /\ cycle[c].pc = "disable"
    /\ enabled' = FALSE
    /\ cycle' = [cycle EXCEPT ![c] = NoCycle]
    /\ UNCHANGED <<ledgerUntouched, now, charges, inFlight, failures>>

Mark(c) ==
    /\ cycle[c].pc = "mark"
    /\ inFlight' = [inFlight EXCEPT ![CycleProc[c]] = now]
    /\ cycle' = [cycle EXCEPT ![c] = NoCycle]
    /\ UNCHANGED <<ledgerUntouched, now, charges, enabled, failures>>

\* A machine restarts: its cycles and its memory are gone.  (Its requests die one
\* by one, by Dies.)
Restart(m) ==
    /\ Fail
    /\ inFlight' = [inFlight EXCEPT ![m] = Never]
    /\ cycle' = [c \in Cycles |-> IF CycleProc[c] = m THEN NoCycle ELSE cycle[c]]
    /\ UNCHANGED <<ledgerUntouched, now, charges, enabled>>

Tick ==
    /\ now < MaxTime
    /\ now' = now + 1
    /\ UNCHANGED <<ledgerUntouched, charges, enabled, cycle, inFlight, failures>>

----------------------------------------------------------------------------
\* A request that is not stopped by a failure.
Serve(r) ==
    \/ GrantLookup(r) \/ GrantApply(r) \/ GrantConflict(r) \/ Claim(r) \/ Sweep(r)

Deliver(r, p) == DeliverFirst(r, p) \/ DeliverDuplicate(r, p)

RequestFails(r) == ClaimFails(r) \/ SweepFails(r) \/ Dies(r)

Job(c) ==
    \/ Scan(c) \/ Skip(c) \/ Fire(c) \/ Charge(c) \/ KeyReused(c)
    \/ ChargeUnanswered(c) \/ ChargeDeclined(c) \/ Disable(c) \/ Mark(c)

Next ==
    \/ \E s \in Sessions : Pay(s)
    \/ Spend \/ Tick
    \/ \E r \in Deliveries : \E p \in Taken : Deliver(r, p)
    \/ \E r \in Buyers : \E s \in Sessions : Confirm(r, s)
    \/ \E r \in Requests : Serve(r) \/ RequestFails(r)
    \/ \E c \in Cycles : Job(c)
    \/ \E m \in Procs : Restart(m)

Spec == Init /\ [][Next]_vars

\* The keys a charge can have within the bound on time.
Keys == 0..(MaxTime \div Cooldown)

\* Stripe retries an event until it is acknowledged, and a request that is under
\* way goes on.  Nothing obliges a buyer to come back, or the job to charge.
Fairness ==
    /\ \A r \in Requests : WF_vars(Serve(r))
    /\ \A s \in Sessions : WF_vars(\E r \in Deliveries : Deliver(r, Pack(s)))
    /\ \A k \in Keys : WF_vars(\E r \in Deliveries : Deliver(r, Topup(k)))

FairSpec == Spec /\ Fairness
=============================================================================
