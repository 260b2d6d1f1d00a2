--------------------------- MODULE PaymentsProofs ---------------------------
(***************************************************************************)
(* The safety of payments, for any number of sessions, deliveries, buyers, *)
(* machines and cycles of the job, and however many of them fail.          *)
(***************************************************************************)
EXTENDS PaymentsProps, FiniteSetTheorems, TLAPS

----------------------------------------------------------------------------
(* The inductive invariant                                                 *)

\* A request works for a payment Stripe has taken; a delivery's is in the log; and
\* what it claims or sweeps is a pack that is credited.
RequestsHold ==
    \A r \in Requests : ~At(r, "idle") =>
        /\ For(r) \in Taken
        /\ r \in Deliveries => For(r) \in log
        /\ req[r].pc \in {"claim", "sweep"} =>
               For(r) \in credited /\ For(r).kind = "pack"

BeingGranted(p) ==
    \E r \in Deliveries : For(r) = p /\ req[r].pc \in {"lookup", "apply"}

\* AckedIsCredited, of every event in the log: that is what lets a duplicate answer.
LogIsHandled ==
    /\ acked \subseteq log
    /\ \A p \in log : p \in credited \union broken \/ BeingGranted(p)

\* A charge is made, or asked for, under the key of a half hour that has begun.
KeysHaveBegun ==
    /\ charges \subseteq 0..Bucket
    /\ \A c \in Cycles : cycle[c].pc = "charging" => cycle[c].key \in 0..Bucket

IInv ==
    /\ PaymentsTypeOK
    /\ RequestsHold
    /\ LogIsHandled
    /\ FundedIsCredited
    /\ KeysHaveBegun

----------------------------------------------------------------------------
(* Payments and half hours                                                 *)

LEMMA TakenArePayments == PaymentsTypeOK => Taken \subseteq Payment
  BY DEF PaymentsTypeOK, Taken, Payment, Pack, Topup

LEMMA CreditsArePositive ==
    ASSUME NEW p \in Payment
    PROVE  Credits(p) \in Nat
  BY PaymentsAssumption DEF Credits

LEMMA BucketGrows ==
    ASSUME NEW n \in Nat, NEW d \in Nat \ {0}
    PROVE  n \div d \in Nat /\ n \div d <= (n + 1) \div d
  OBVIOUS

----------------------------------------------------------------------------
(* What the two kinds of steps leave alone                                 *)

\* A cycle of the job, a restart and a tick may add charges, and touch neither
\* requests nor any table the requests write.
JobSide ==
    \/ \E c \in Cycles : Job(c)
    \/ \E m \in Procs : Restart(m)
    \/ Tick

LEMMA JobSideUntouched ==
    ASSUME JobSide
    PROVE  /\ UNCHANGED <<offered, paid, acked, log, credited, balance, granted,
                          claims, funded, req, broken>>
           /\ charges \subseteq charges'
  BY DEF JobSide, Job, Scan, Skip, Fire, Charge, KeyReused, ChargeUnanswered,
         ChargeDeclined, Disable, Mark, Restart, Tick, ledgerUntouched, ledgerVars

\* A request leaves the job alone.
RequestSide ==
    \/ \E r \in Deliveries : \E p \in Taken : Deliver(r, p)
    \/ \E r \in Buyers : \E s \in Sessions : Confirm(r, s)
    \/ \E r \in Requests : Serve(r) \/ RequestFails(r)

LEMMA RequestSideUntouched ==
    ASSUME RequestSide
    PROVE  UNCHANGED <<now, offered, charges, enabled, cycle, inFlight, paid>>
  BY DEF RequestSide, Deliver, DeliverFirst, DeliverDuplicate, Confirm, Serve,
         RequestFails, GrantLookup, GrantApply, GrantConflict, Claim, ClaimFails,
         Sweep, SweepFails, Dies, jobVars

----------------------------------------------------------------------------
(* Type correctness                                                        *)

LEMMA InitIInv == Init => IInv
  <1> SUFFICES ASSUME Init PROVE IInv
    OBVIOUS
  <1>1. NoRequest \in Request /\ NoCycle \in Cycle
    BY DEF NoRequest, Request, NoCycle, Cycle
  <1>2. PaymentsTypeOK
    BY <1>1 DEF Init, PaymentsTypeOK
  <1>3. RequestsHold /\ LogIsHandled /\ FundedIsCredited
    BY DEF Init, RequestsHold, LogIsHandled, FundedIsCredited, At, NoRequest
  <1>4. KeysHaveBegun
    BY DEF Init, KeysHaveBegun, NoCycle
  <1> QED
    BY <1>2, <1>3, <1>4 DEF IInv

JobTypes ==
    /\ now \in Nat /\ charges \subseteq Nat /\ enabled \in BOOLEAN
    /\ cycle \in [Cycles -> Cycle]
    /\ inFlight \in [Procs -> Nat \union {Never}] /\ failures \in Nat

LEMMA JobTypeOK ==
    ASSUME PaymentsTypeOK, JobSide
    PROVE  PaymentsTypeOK'
  <1>1. UNCHANGED <<offered, paid, acked, log, credited, balance, granted,
                    claims, funded, req, broken>>
    BY JobSideUntouched
  <1>2. JobTypes /\ NoCycle \in Cycle
    BY DEF PaymentsTypeOK, JobTypes, NoCycle, Cycle
  <1>3. ASSUME NEW c \in Cycles, Job(c) PROVE JobTypes'
    <2>1. Bucket \in Nat
      BY BucketGrows, PaymentsAssumption, <1>2 DEF Bucket, JobTypes
    <2>2. cycle[c] \in Cycle /\ cycle[c].key \in Nat /\ CycleProc[c] \in Procs
      BY PaymentsAssumption, <1>2 DEF Cycle, JobTypes
    <2>3. \A pc \in {"fire", "charging", "mark", "disable"}, k \in Nat :
              [pc |-> pc, key |-> k] \in Cycle
      BY DEF Cycle
    <2>4. CASE Scan(c)
      BY <1>2, <2>4, <2>2 DEF Scan, Cycle, JobTypes
    <2>5. CASE Skip(c) \/ KeyReused(c)
      BY <1>2, <2>5 DEF Skip, KeyReused, JobTypes
    <2>6. CASE Fire(c)
      BY <1>2, <2>1, <2>3, <2>6 DEF Fire, Key, JobTypes
    <2>7. CASE Charge(c)
      BY <1>2, <2>2, <2>3, <2>7 DEF Charge, JobTypes
    <2>8. CASE ChargeUnanswered(c)
      BY <1>2, <2>2, <2>8 DEF ChargeUnanswered, Fail, JobTypes
    <2>9. CASE ChargeDeclined(c)
      BY <1>2, <2>3, <2>9 DEF ChargeDeclined, Fail, JobTypes
    <2>10. CASE Disable(c)
      BY <1>2, <2>10 DEF Disable, JobTypes
    <2>11. CASE Mark(c)
      BY <1>2, <2>2, <2>11 DEF Mark, JobTypes
    <2> QED
      BY <1>3, <2>4, <2>5, <2>6, <2>7, <2>8, <2>9, <2>10, <2>11 DEF Job
  <1>4. ASSUME NEW m \in Procs, Restart(m) PROVE JobTypes'
    BY <1>2, <1>4 DEF Restart, Fail, JobTypes
  <1>5. ASSUME Tick PROVE JobTypes'
    BY <1>2, <1>5 DEF Tick, JobTypes
  <1>6. JobTypes'
    BY <1>3, <1>4, <1>5 DEF JobSide
  <1> QED
    BY <1>1, <1>6 DEF PaymentsTypeOK, JobTypes

\* A handler that goes on, answers or ends keeps its request well formed.
LEMMA GoesTypeOK ==
    ASSUME PaymentsTypeOK, NEW r \in Requests, NEW new \in BOOLEAN,
           NEW pc \in {"lookup", "apply", "claim", "sweep", "answer"},
           For(r) \in Payment, Goes(r, pc, new)
    PROVE  req' \in [Requests -> Request] /\ acked' \subseteq Payment
  <1>1. NoRequest \in Request
    BY DEF NoRequest, Request
  <1>2. pc # "answer" => [pc |-> pc, for |-> For(r), new |-> new] \in Request
    BY DEF Request
  <1> QED
    BY <1>1, <1>2 DEF Goes, PaymentsTypeOK

RequestTypes ==
    /\ req \in [Requests -> Request]
    /\ acked \subseteq Payment /\ log \subseteq Payment /\ credited \subseteq Payment
    /\ balance \in Nat /\ granted \in Nat /\ failures \in Nat
    /\ claims \subseteq Payment /\ funded \subseteq Payment /\ broken \subseteq Payment

LEMMA RequestTypeOK ==
    ASSUME PaymentsTypeOK, RequestsHold, RequestSide
    PROVE  PaymentsTypeOK'
  <1>1. UNCHANGED <<now, offered, charges, enabled, cycle, inFlight, paid>>
    BY RequestSideUntouched
  <1>2. RequestTypes /\ NoRequest \in Request /\ Taken \subseteq Payment
    BY TakenArePayments DEF PaymentsTypeOK, RequestTypes, NoRequest, Request
  <1>3. \A p \in Payment : [pc |-> "lookup", for |-> p, new |-> FALSE] \in Request
    BY DEF Request
  <1>4. ASSUME NEW r \in Deliveries, NEW p \in Taken, Deliver(r, p) PROVE RequestTypes'
    BY <1>2, <1>3, <1>4
    DEF Deliver, DeliverFirst, DeliverDuplicate, Starts, RequestTypes, Requests, ledgerVars
  <1>5. ASSUME NEW r \in Buyers, NEW s \in Sessions, Confirm(r, s) PROVE RequestTypes'
    <2>1. Pack(s) \in Payment
      BY DEF Pack, Payment
    <2> QED
      BY <1>2, <1>3, <1>5, <2>1 DEF Confirm, Starts, RequestTypes, Requests, ledgerVars
  <1>6. ASSUME NEW r \in Requests, Serve(r) \/ RequestFails(r) PROVE RequestTypes'
    <2>1. ~At(r, "idle")
      BY <1>6 DEF Serve, RequestFails, GrantLookup, GrantApply, GrantConflict, Claim,
                  ClaimFails, Sweep, SweepFails, Dies, At
    <2>2. For(r) \in Payment /\ Credits(For(r)) \in Nat /\ req[r].new \in BOOLEAN
      BY <1>2, <2>1, CreditsArePositive DEF RequestsHold, RequestTypes, Request
    <2>3. CASE GrantLookup(r)
      BY <1>2, <2>2, <2>3, GoesTypeOK DEF GrantLookup, Granted, RequestTypes, ledgerVars
    <2>4. CASE GrantApply(r)
      <3>1. Goes(r, Granted(r), TRUE) /\ Granted(r) \in {"claim", "answer"}
        BY <2>4 DEF GrantApply, Granted
      <3>2. req' \in [Requests -> Request] /\ acked' \subseteq Payment
        BY <2>2, <3>1, GoesTypeOK
      <3>3. credited' \subseteq Payment /\ balance' \in Nat /\ granted' \in Nat
        BY <1>2, <2>2, <2>4 DEF GrantApply, RequestTypes
      <3> QED
        BY <1>2, <2>4, <3>2, <3>3 DEF GrantApply, RequestTypes
    <2>5. CASE GrantConflict(r)
      BY <1>2, <2>5 DEF GrantConflict, Ends, RequestTypes, ledgerVars
    <2>6. CASE Claim(r) \/ ClaimFails(r)
      BY <1>2, <2>2, <2>6, GoesTypeOK
      DEF Claim, ClaimFails, AfterClaim, Fail, RequestTypes, ledgerVars
    <2>7. CASE Sweep(r) \/ SweepFails(r)
      BY <1>2, <2>2, <2>7, GoesTypeOK
      DEF Sweep, SweepFails, Fail, RequestTypes, ledgerVars
    <2>8. CASE Dies(r)
      BY <1>2, <2>2, <2>8 DEF Dies, Ends, Fail, RequestTypes, ledgerVars
    <2> QED
      BY <1>6, <2>3, <2>4, <2>5, <2>6, <2>7, <2>8 DEF Serve, RequestFails
  <1>7. RequestTypes'
    BY <1>4, <1>5, <1>6 DEF RequestSide
  <1> QED
    BY <1>1, <1>7 DEF PaymentsTypeOK, RequestTypes

----------------------------------------------------------------------------
(* The other conjuncts                                                     *)

LEMMA KeysNext ==
    ASSUME PaymentsTypeOK, KeysHaveBegun, JobSide
    PROVE  KeysHaveBegun'
  <1>1. now \in Nat /\ Cooldown \in Nat \ {0} /\ cycle \in [Cycles -> Cycle]
    BY PaymentsAssumption DEF PaymentsTypeOK
  <1>2. Bucket \in Nat
    BY <1>1, BucketGrows DEF Bucket
  <1>3. ASSUME NEW c \in Cycles, Job(c) PROVE KeysHaveBegun'
    <2>1. Bucket' = Bucket
      BY <1>3 DEF Job, Scan, Skip, Fire, Charge, KeyReused, ChargeUnanswered,
                  ChargeDeclined, Disable, Mark, Bucket
    <2>2. charges' \subseteq 0..Bucket
      BY <1>3 DEF KeysHaveBegun, Job, Scan, Skip, Fire, Charge, KeyReused,
                  ChargeUnanswered, ChargeDeclined, Disable, Mark
    <2>3. ASSUME NEW d \in Cycles, cycle'[d].pc = "charging"
          PROVE  cycle'[d].key \in 0..Bucket
      <3>1. CASE d # c
        <4>1. cycle'[d] = cycle[d]
          BY <1>1, <1>3, <3>1
          DEF Job, Scan, Skip, Fire, Charge, KeyReused, ChargeUnanswered,
              ChargeDeclined, Disable, Mark
        <4> QED
          BY <2>3, <4>1 DEF KeysHaveBegun
      <3>2. CASE d = c
        <4>1. CASE Fire(c)
          BY <1>1, <1>2, <3>2, <4>1 DEF Fire, Key
        <4>2. CASE ~Fire(c)
          <5>1. cycle'[c].pc # "charging"
            BY <1>1, <1>3, <4>2
            DEF Job, Scan, Skip, Charge, KeyReused, ChargeUnanswered, ChargeDeclined,
                Disable, Mark, NoCycle, Cycle
          <5> QED
            BY <2>3, <3>2, <5>1
        <4> QED
          BY <4>1, <4>2
      <3> QED
        BY <3>1, <3>2
    <2> QED
      BY <2>1, <2>2, <2>3 DEF KeysHaveBegun
  <1>4. ASSUME NEW m \in Procs, Restart(m) PROVE KeysHaveBegun'
    BY <1>1, <1>4 DEF KeysHaveBegun, Restart, NoCycle, Bucket
  <1>5. ASSUME Tick PROVE KeysHaveBegun'
    <2>1. Bucket' \in Nat /\ Bucket <= Bucket'
      BY <1>1, <1>5, BucketGrows DEF Tick, Bucket
    <2>2. UNCHANGED <<charges, cycle>>
      BY <1>5 DEF Tick
    <2> QED
      BY <1>2, <2>1, <2>2 DEF KeysHaveBegun
  <1> QED
    BY <1>3, <1>4, <1>5 DEF JobSide

\* Steps that leave requests and their tables alone, and only add payments.
LEMMA QuietNext ==
    ASSUME RequestsHold, LogIsHandled, FundedIsCredited,
           UNCHANGED <<acked, log, credited, funded, req, broken>>,
           paid \subseteq paid', charges \subseteq charges'
    PROVE  RequestsHold' /\ LogIsHandled' /\ FundedIsCredited'
  <1>1. Taken \subseteq Taken'
    BY DEF Taken
  <1>2. RequestsHold'
    BY <1>1 DEF RequestsHold, At, For
  <1>3. LogIsHandled'
    BY DEF LogIsHandled, BeingGranted, For
  <1>4. FundedIsCredited'
    BY DEF FundedIsCredited
  <1> QED
    BY <1>2, <1>3, <1>4

\* What a request that goes on, or ends, must still satisfy, and what it grants.
LEMMA BusyNext ==
    ASSUME PaymentsTypeOK, RequestsHold, NEW r \in Requests,
           Serve(r) \/ RequestFails(r)
    PROVE  RequestsHold'
  <1>1. /\ ~At(r, "idle") /\ log' = log /\ credited \subseteq credited'
        /\ Taken' = Taken
    BY DEF Serve, RequestFails, GrantLookup, GrantApply, GrantConflict, Claim,
           ClaimFails, Sweep, SweepFails, Dies, At, ledgerVars, jobVars, Taken
  <1>2. req \in [Requests -> Request]
    BY DEF PaymentsTypeOK
  <1>3. ASSUME NEW q \in Requests, q # r PROVE req'[q] = req[q]
    BY <1>2, <1>3 DEF Serve, RequestFails, GrantLookup, GrantApply, GrantConflict,
           Claim, ClaimFails, Sweep, SweepFails, Dies, Goes, Ends
  <1>4. /\ For(r)' = For(r) \/ req'[r].pc = "idle"
        /\ req'[r].pc \in {"claim", "sweep"} =>
               For(r) \in credited' /\ For(r).kind = "pack"
    <2>1. CASE GrantLookup(r)
      BY <1>2, <2>1 DEF GrantLookup, Goes, Granted, HasGrant, For, NoRequest, ledgerVars
    <2>2. CASE GrantApply(r)
      BY <1>2, <2>2 DEF GrantApply, Goes, Granted, For, NoRequest
    <2>3. CASE GrantConflict(r) \/ Dies(r)
      BY <1>2, <2>3 DEF GrantConflict, Dies, Ends, NoRequest
    <2>4. CASE Claim(r) \/ ClaimFails(r)
      <3>1. For(r) \in credited /\ For(r).kind = "pack"
        BY <1>1, <2>4 DEF RequestsHold, Claim, ClaimFails, At
      <3> QED
        BY <1>1, <1>2, <2>4, <3>1
        DEF Claim, ClaimFails, Goes, AfterClaim, For, NoRequest
    <2>5. CASE Sweep(r) \/ SweepFails(r)
      BY <1>2, <2>5 DEF Sweep, SweepFails, Goes, NoRequest
    <2> QED
      BY <2>1, <2>2, <2>3, <2>4, <2>5 DEF Serve, RequestFails
  <1> QED
    BY <1>1, <1>3, <1>4 DEF RequestsHold, At, For

LEMMA StartNext ==
    ASSUME PaymentsTypeOK, RequestsHold,
           \/ \E r \in Deliveries : \E p \in Taken : Deliver(r, p)
           \/ \E r \in Buyers : \E s \in Sessions : Confirm(r, s)
    PROVE  RequestsHold'
  <1> USE DEF RequestsHold, At, For, Starts, ledgerVars, jobVars
  <1>1. req \in [Requests -> Request] /\ Deliveries \subseteq Requests
           /\ Buyers \subseteq Requests
    BY DEF PaymentsTypeOK, Requests
  <1>2. ASSUME NEW r \in Deliveries, NEW p \in Taken, DeliverFirst(r, p)
        PROVE  RequestsHold'
    <2>1. Taken' = Taken /\ credited' = credited /\ log' = log \union {p}
      BY <1>2 DEF DeliverFirst, Taken
    <2>2. req' = [req EXCEPT ![r] = [pc |-> "lookup", for |-> p, new |-> FALSE]]
      BY <1>2 DEF DeliverFirst
    <2> QED
      BY <1>1, <2>1, <2>2
  <1>3. ASSUME NEW r \in Deliveries, NEW p \in Taken, DeliverDuplicate(r, p)
        PROVE  RequestsHold'
    <2>1. Taken' = Taken /\ UNCHANGED <<credited, log, req>>
      BY <1>3 DEF DeliverDuplicate, Taken
    <2> QED
      BY <2>1
  <1>4. ASSUME NEW r \in Buyers, NEW s \in Sessions, Confirm(r, s)
        PROVE  RequestsHold'
    <2>1. Taken' = Taken /\ UNCHANGED <<credited, log>> /\ Pack(s) \in Taken
      BY <1>4 DEF Confirm, Taken
    <2>2. req' = [req EXCEPT ![r] = [pc |-> "lookup", for |-> Pack(s), new |-> FALSE]]
      BY <1>4 DEF Confirm
    <2>3. r \notin Deliveries
      BY PaymentsAssumption
    <2> QED
      BY <1>1, <2>1, <2>2, <2>3
  <1> QED
    BY <1>2, <1>3, <1>4 DEF Deliver

LEMMA FundedNext ==
    ASSUME PaymentsTypeOK, RequestsHold, FundedIsCredited, RequestSide
    PROVE  FundedIsCredited'
  <1>1. paid' = paid
    BY RequestSideUntouched
  <1>2. credited \subseteq credited'
    BY DEF RequestSide, Deliver, DeliverFirst, DeliverDuplicate, Confirm, Serve,
           RequestFails, GrantLookup, GrantApply, GrantConflict, Claim, ClaimFails,
           Sweep, SweepFails, Dies, ledgerVars
  <1>3. CASE funded' = funded
    BY <1>1, <1>2, <1>3 DEF FundedIsCredited
  <1>4. ASSUME NEW r \in Requests, Sweep(r) PROVE FundedIsCredited'
    <2>1. For(r) \in Taken /\ For(r) \in credited /\ For(r).kind = "pack"
      BY <1>4 DEF RequestsHold, Sweep, At
    <2>2. For(r) \in {Pack(s) : s \in paid}
      BY <2>1 DEF Taken, Topup
    <2> QED
      BY <1>1, <1>2, <1>4, <2>1, <2>2 DEF Sweep, FundedIsCredited
  <1> QED
    BY <1>3, <1>4
    DEF RequestSide, Deliver, DeliverFirst, DeliverDuplicate, Confirm, Serve,
        RequestFails, GrantLookup, GrantApply, GrantConflict, Claim, ClaimFails,
        SweepFails, Dies

\* A delivery grants, finds the grant made, or dies and is remembered; a duplicate
\* answers only for an event that is in the log.
LEMMA LogNext ==
    ASSUME PaymentsTypeOK, RequestsHold, LogIsHandled, RequestSide
    PROVE  LogIsHandled'
  <1>1. req \in [Requests -> Request] /\ Deliveries \subseteq Requests
    BY DEF PaymentsTypeOK, Requests
  <1>2. credited \subseteq credited' /\ broken \subseteq broken' /\ log \subseteq log'
    BY DEF RequestSide, Deliver, DeliverFirst, DeliverDuplicate, Confirm, Serve,
           RequestFails, GrantLookup, GrantApply, GrantConflict, Claim, ClaimFails,
           Sweep, SweepFails, Dies, ledgerVars
  <1> DEFINE Safe(p) == p \in credited' \union broken' \/ BeingGranted(p)'
  <1>3. ASSUME NEW r \in Deliveries, NEW p \in Taken, Deliver(r, p)
        PROVE  LogIsHandled'
    <2>1. ASSUME NEW x, BeingGranted(x) PROVE BeingGranted(x)'
      <3>1. PICK q \in Deliveries : For(q) = x /\ req[q].pc \in {"lookup", "apply"}
        BY <2>1 DEF BeingGranted
      <3>2. req'[q] = req[q]
        BY <1>1, <1>3, <3>1 DEF Deliver, DeliverFirst, DeliverDuplicate, Starts, At
      <3> QED
        BY <3>1, <3>2 DEF BeingGranted, For
    <2>2. CASE DeliverFirst(r, p)
      <3>1. BeingGranted(p)'
        BY <1>1, <2>2 DEF BeingGranted, DeliverFirst, Starts, For
      <3> QED
        BY <1>2, <2>1, <2>2, <3>1 DEF LogIsHandled, DeliverFirst
    <2>3. CASE DeliverDuplicate(r, p)
      BY <1>2, <2>1, <2>3 DEF LogIsHandled, DeliverDuplicate
    <2> QED
      BY <1>3, <2>2, <2>3 DEF Deliver
  <1>4. ASSUME NEW r \in Buyers, NEW s \in Sessions, Confirm(r, s)
        PROVE  LogIsHandled'
    <2>1. \A q \in Deliveries : req'[q] = req[q]
      BY <1>1, <1>4, PaymentsAssumption DEF Confirm, Starts
    <2>2. \A x : BeingGranted(x) => BeingGranted(x)'
      BY <2>1 DEF BeingGranted, For
    <2> QED
      BY <1>4, <1>2, <2>2 DEF LogIsHandled, Confirm
  <1>5. ASSUME NEW r \in Requests, Serve(r) \/ RequestFails(r)
        PROVE  LogIsHandled'
    <2>1. ~At(r, "idle") /\ log' = log
      BY <1>5 DEF Serve, RequestFails, GrantLookup, GrantApply, GrantConflict, Claim,
                  ClaimFails, Sweep, SweepFails, Dies, At
    <2>2. acked' \subseteq log'
      <3>1. acked' \subseteq acked \union {For(r)} /\ (r \notin Deliveries => acked' = acked)
        BY <1>5 DEF Serve, RequestFails, GrantLookup, GrantApply, GrantConflict, Claim,
                    ClaimFails, Sweep, SweepFails, Dies, Goes
      <3> QED
        BY <2>1, <3>1 DEF RequestsHold, LogIsHandled
    <2>3. ASSUME NEW q \in Requests, q # r PROVE req'[q] = req[q]
      BY <1>1, <1>5, <2>3
      DEF Serve, RequestFails, GrantLookup, GrantApply, GrantConflict, Claim,
          ClaimFails, Sweep, SweepFails, Dies, Goes, Ends
    <2>4. ASSUME r \in Deliveries, req[r].pc \in {"lookup", "apply"},
                 NEW p, p = For(r)
          PROVE  Safe(p)
      <3>1. CASE GrantLookup(r)
        <4>1. CASE HasGrant(p)
          BY <1>2, <4>1 DEF HasGrant
        <4>2. CASE ~HasGrant(p)
          <5>1. req'[r] = [pc |-> "apply", for |-> p, new |-> FALSE]
            BY <1>1, <2>4, <3>1, <4>2 DEF GrantLookup, Goes
          <5> QED
            BY <2>4, <5>1 DEF BeingGranted, For
        <4> QED
          BY <4>1, <4>2
      <3>2. CASE GrantApply(r)
        BY <2>4, <3>2 DEF GrantApply
      <3>3. CASE GrantConflict(r)
        BY <1>2, <2>4, <3>3 DEF GrantConflict, HasGrant
      <3>4. CASE Dies(r)
        BY <2>4, <3>4 DEF Dies, LeavesHalf
      <3> QED
        BY <1>5, <2>4, <3>1, <3>2, <3>3, <3>4
        DEF Serve, RequestFails, Claim, ClaimFails, Sweep, SweepFails, At
    <2>5. ASSUME NEW p \in log PROVE Safe(p)
      <3>1. CASE p \in credited \union broken
        BY <1>2, <3>1
      <3>2. ASSUME BeingGranted(p) PROVE Safe(p)
        <4>1. PICK q \in Deliveries : For(q) = p /\ req[q].pc \in {"lookup", "apply"}
          BY <3>2 DEF BeingGranted
        <4>2. CASE q = r
          BY <2>4, <4>1, <4>2
        <4>3. CASE q # r
          BY <1>1, <2>3, <4>1, <4>3 DEF BeingGranted, For
        <4> QED
          BY <4>2, <4>3
      <3> QED
        BY <3>1, <3>2 DEF LogIsHandled
    <2> QED
      BY <2>1, <2>2, <2>5 DEF LogIsHandled
  <1> QED
    BY <1>3, <1>4, <1>5 DEF RequestSide

----------------------------------------------------------------------------
(* The invariant, and what follows from it                                 *)

LEMMA NextIInv == IInv /\ [Next]_vars => IInv'
  <1> SUFFICES ASSUME IInv, [Next]_vars PROVE IInv'
    OBVIOUS
  <1> USE DEF IInv
  <1>1. CASE JobSide
    <2>1. /\ UNCHANGED <<offered, paid, acked, log, credited, funded, req, broken>>
          /\ charges \subseteq charges'
      BY <1>1, JobSideUntouched
    <2> QED
      BY <1>1, <2>1, JobTypeOK, KeysNext, QuietNext
  <1>2. CASE RequestSide
    <2>1. UNCHANGED <<now, charges, cycle>>
      BY <1>2, RequestSideUntouched
    <2>2. KeysHaveBegun'
      BY <2>1 DEF KeysHaveBegun, Bucket
    <2>3. RequestsHold'
      BY <1>2, BusyNext, StartNext DEF RequestSide
    <2> QED
      BY <1>2, <2>2, <2>3, RequestTypeOK, LogNext, FundedNext
  <1>3. CASE Spend \/ UNCHANGED vars \/ \E s \in Sessions : Pay(s)
    <2>1. /\ UNCHANGED <<now, charges, cycle, acked, log, credited, funded, req, broken>>
          /\ paid \subseteq paid'
      BY <1>3 DEF Spend, Pay, vars, jobVars, ledgerVars
    <2>2. KeysHaveBegun'
      BY <2>1 DEF KeysHaveBegun, Bucket
    <2>3. PaymentsTypeOK'
      <3>1. CASE Spend
        BY <3>1 DEF Spend, jobVars, PaymentsTypeOK
      <3>2. CASE UNCHANGED vars
        BY <3>2 DEF vars, jobVars, ledgerVars, PaymentsTypeOK
      <3>3. ASSUME NEW s \in Sessions, Pay(s) PROVE PaymentsTypeOK'
        BY <3>3 DEF Pay, jobVars, ledgerVars, PaymentsTypeOK
      <3> QED
        BY <1>3, <3>1, <3>2, <3>3
    <2> QED
      BY <2>1, <2>2, <2>3, QuietNext
  <1> QED
    BY <1>1, <1>2, <1>3 DEF Next, JobSide, RequestSide

LEMMA InvariantHolds == Spec => []IInv
  BY InitIInv, NextIInv, PTL DEF Spec

\* Every variable keeps its type: the balance is never negative, and a request works
\* for a payment.
THEOREM PaymentsTypeCorrect == Spec => []PaymentsTypeOK
  <1>1. IInv => PaymentsTypeOK
    BY DEF IInv
  <1> QED
    BY <1>1, InvariantHolds, PTL

\* However many deliveries and buyers overlap and die, an event is acknowledged only
\* when its payment is credited, being credited, or known to have been dropped.
THEOREM AckedIsCreditedHolds == Spec => []AckedIsCredited
  <1>1. IInv => AckedIsCredited
    BY DEF IInv, LogIsHandled, BeingGranted, AckedIsCredited
  <1> QED
    BY <1>1, InvariantHolds, PTL

\* The treasury is funded from credited purchases only.
THEOREM FundedIsCreditedHolds == Spec => []FundedIsCredited
  <1>1. IInv => FundedIsCredited
    BY DEF IInv
  <1> QED
    BY <1>1, InvariantHolds, PTL

\* Whatever the number of machines, restarts and lost answers, a card is charged at
\* most once per half hour begun.
THEOREM ChargesAreSpacedHolds == Spec => []ChargesAreSpaced
  <1>1. IInv => ChargesAreSpaced
    <2> SUFFICES ASSUME IInv PROVE ChargesAreSpaced
      OBVIOUS
    <2>1. Bucket \in Nat
      BY BucketGrows, PaymentsAssumption DEF IInv, PaymentsTypeOK, Bucket
    <2>2. IsFiniteSet(0..Bucket) /\ Cardinality(0..Bucket) = Bucket + 1
      BY <2>1, FS_Interval
    <2>3. Cardinality(charges) <= Cardinality(0..Bucket)
      BY <2>2, FS_Subset DEF IInv, KeysHaveBegun
    <2> QED
      BY <2>2, <2>3 DEF ChargesAreSpaced
  <1> QED
    BY <1>1, InvariantHolds, PTL
----------------------------------------------------------------------------
(* Credits are given out once                                              *)

OfKind(k) == {p \in credited : p.kind = k}

GrantInv == IsFiniteSet(credited) /\ CreditedOnce

\* Only GrantApply gives credits out.
LEMMA OnlyApplyGrants ==
    ASSUME [Next]_vars
    PROVE  \/ UNCHANGED <<credited, granted>>
           \/ \E r \in Requests : GrantApply(r)
  <1>1. JobSide => UNCHANGED <<credited, granted>>
    BY JobSideUntouched
  <1>2. RequestSide => \/ UNCHANGED <<credited, granted>>
                       \/ \E r \in Requests : GrantApply(r)
    BY DEF RequestSide, Deliver, DeliverFirst, DeliverDuplicate, Confirm, Serve,
           RequestFails, GrantLookup, GrantConflict, Claim, ClaimFails, Sweep,
           SweepFails, Dies, ledgerVars
  <1>3. Spend \/ UNCHANGED vars \/ (\E s \in Sessions : Pay(s))
            => UNCHANGED <<credited, granted>>
    BY DEF Spend, Pay, vars, ledgerVars
  <1> QED
    BY <1>1, <1>2, <1>3 DEF Next, JobSide, RequestSide

\* A grant adds one payment of its kind, and the credits of that kind.
LEMMA ApplyOnce ==
    ASSUME IInv, GrantInv, NEW r \in Requests, GrantApply(r)
    PROVE  GrantInv'
  <1> DEFINE p == For(r)
             packs == OfKind("pack")
             topups == OfKind("topup")
  <1>1. p \in Payment /\ p \notin credited /\ p.kind \in {"pack", "topup"}
    <2>1. p \in Taken
      BY DEF IInv, RequestsHold, GrantApply, At
    <2> QED
      BY <2>1, TakenArePayments DEF IInv, Payment, GrantApply, HasGrant
  <1>2. credited' = credited \union {p} /\ granted' = granted + Credits(p)
    BY DEF GrantApply
  <1>3. IsFiniteSet(credited')
    BY <1>2, FS_AddElement DEF GrantInv
  <1>4. IsFiniteSet(packs) /\ IsFiniteSet(topups)
    BY FS_Subset DEF OfKind, GrantInv
  <1>5. Cardinality(packs) \in Nat /\ Cardinality(topups) \in Nat
    BY <1>4, FS_CardinalityType
  <1>6. granted = PackCredits * Cardinality(packs) + TopupCredits * Cardinality(topups)
    BY DEF GrantInv, CreditedOnce, OfKind
  <1>7. PackCredits \in Nat /\ TopupCredits \in Nat
    BY PaymentsAssumption
  <1>8. CreditedOnce' <=> granted' = PackCredits * Cardinality(OfKind("pack")')
                                      + TopupCredits * Cardinality(OfKind("topup")')
    BY DEF CreditedOnce, OfKind
  <1>9. CASE p.kind = "pack"
    <2>1. /\ OfKind("pack")' = packs \union {p} /\ p \notin packs
          /\ OfKind("topup")' = topups
      BY <1>1, <1>2, <1>9 DEF OfKind
    <2>2. Cardinality(OfKind("pack")') = Cardinality(packs) + 1
      BY <1>4, <2>1, FS_AddElement
    <2>3. granted' = granted + PackCredits
      BY <1>2, <1>9 DEF Credits
    <2>4. PackCredits * (Cardinality(packs) + 1)
              = PackCredits * Cardinality(packs) + PackCredits
      BY <1>5, <1>7
    <2>5. /\ PackCredits * Cardinality(packs) \in Nat
          /\ TopupCredits * Cardinality(topups) \in Nat
      BY <1>5, <1>7
    <2>6. granted' = PackCredits * Cardinality(OfKind("pack")')
                        + TopupCredits * Cardinality(OfKind("topup")')
      BY <1>6, <1>7, <2>1, <2>2, <2>3, <2>4, <2>5
    <2> QED
      BY <1>3, <1>8, <2>6 DEF GrantInv
  <1>10. CASE p.kind = "topup"
    <2>1. /\ OfKind("topup")' = topups \union {p} /\ p \notin topups
          /\ OfKind("pack")' = packs
      BY <1>1, <1>2, <1>10 DEF OfKind
    <2>2. Cardinality(OfKind("topup")') = Cardinality(topups) + 1
      BY <1>4, <2>1, FS_AddElement
    <2>3. granted' = granted + TopupCredits
      BY <1>2, <1>10 DEF Credits
    <2>4. TopupCredits * (Cardinality(topups) + 1)
              = TopupCredits * Cardinality(topups) + TopupCredits
      BY <1>5, <1>7
    <2>5. /\ PackCredits * Cardinality(packs) \in Nat
          /\ TopupCredits * Cardinality(topups) \in Nat
      BY <1>5, <1>7
    <2>6. granted' = PackCredits * Cardinality(OfKind("pack")')
                        + TopupCredits * Cardinality(OfKind("topup")')
      BY <1>6, <1>7, <2>1, <2>2, <2>3, <2>4, <2>5
    <2> QED
      BY <1>3, <1>8, <2>6 DEF GrantInv
  <1> QED
    BY <1>1, <1>9, <1>10

\* However often a payment is delivered and confirmed, and wherever requests die, its
\* credits are given out once.
THEOREM CreditedOnceHolds == Spec => []CreditedOnce
  <1>1. Init => GrantInv
    <2> SUFFICES ASSUME Init PROVE GrantInv
      OBVIOUS
    <2>1. OfKind("pack") = {} /\ OfKind("topup") = {} /\ granted = 0 /\ credited = {}
      BY DEF Init, OfKind
    <2>2. IsFiniteSet({}) /\ Cardinality({}) = 0
      BY FS_EmptySet
    <2> QED
      BY <2>1, <2>2, PaymentsAssumption DEF GrantInv, CreditedOnce, OfKind
  <1>2. IInv /\ GrantInv /\ [Next]_vars => GrantInv'
    <2> SUFFICES ASSUME IInv, GrantInv, [Next]_vars PROVE GrantInv'
      OBVIOUS
    <2>1. CASE UNCHANGED <<credited, granted>>
      BY <2>1 DEF GrantInv, CreditedOnce
    <2> QED
      BY <2>1, ApplyOnce, OnlyApplyGrants
  <1>3. GrantInv => CreditedOnce
    BY DEF GrantInv
  <1> QED
    BY <1>1, <1>2, <1>3, InvariantHolds, PTL DEF Spec
----------------------------------------------------------------------------
(* Every credited purchase funds the treasury                              *)

\* A request that has the pack in hand, and what may become of it in a step: it still
\* has it, the treasury is funded, or it is remembered as broken.
Carries(r, p) == For(r) = p /\ (At(r, "sweep") \/ (At(r, "claim") /\ req[r].new))

\* A request that carries a pack goes on with it, or leaves it funded or broken.
LEMMA CarriedOn ==
    ASSUME PaymentsTypeOK, RequestSide, NEW r \in Requests, NEW p, Carries(r, p)
    PROVE  Carries(r, p)' \/ p \in (funded \union broken)'
  <1>1. req \in [Requests -> Request] /\ r \in DOMAIN req
    BY DEF PaymentsTypeOK
  <1>2. For(r) = p /\ req[r].pc \in {"claim", "sweep"} /\ req[r].pc # "idle"
    BY DEF Carries, At
  <1>3. CASE \/ \E q \in Deliveries : \E x \in Taken : Deliver(q, x)
             \/ \E q \in Buyers : \E s \in Sessions : Confirm(q, s)
    <2>1. req'[r] = req[r]
      BY <1>1, <1>2, <1>3
      DEF Deliver, DeliverFirst, DeliverDuplicate, Confirm, Starts, At
    <2> QED
      BY <2>1 DEF Carries, For, At
  <1>4. ASSUME NEW q \in Requests, Serve(q) \/ RequestFails(q), q # r
        PROVE  Carries(r, p)'
    <2>1. req'[r] = req[r]
      BY <1>1, <1>4
      DEF Serve, RequestFails, GrantLookup, GrantApply, GrantConflict, Claim,
          ClaimFails, Sweep, SweepFails, Dies, Goes, Ends
    <2> QED
      BY <2>1 DEF Carries, For, At
  <1>5. CASE Claim(r) \/ ClaimFails(r)
    <2>1. req[r].new
      BY <1>5 DEF Carries, Claim, ClaimFails, At
    <2>2. req'[r] = [pc |-> "sweep", for |-> p, new |-> req[r].new]
      BY <1>1, <1>2, <1>5, <2>1 DEF Claim, ClaimFails, AfterClaim, Goes
    <2> QED
      BY <2>2 DEF Carries, For, At
  <1>6. CASE Sweep(r) \/ SweepFails(r) \/ Dies(r)
    BY <1>2, <1>6 DEF Sweep, SweepFails, Dies, LeavesHalf
  <1> QED
    BY <1>2, <1>3, <1>4, <1>5, <1>6
    DEF RequestSide, Serve, RequestFails, GrantLookup, GrantApply, GrantConflict, At

\* Whoever grants a pack has it in hand.
LEMMA GranterCarries ==
    ASSUME PaymentsTypeOK, NEW r \in Requests, GrantApply(r),
           NEW p, For(r) = p, p.kind = "pack"
    PROVE  Carries(r, p)'
  <1>1. req'[r] = [pc |-> "claim", for |-> p, new |-> TRUE]
    BY DEF PaymentsTypeOK, GrantApply, Goes, Granted
  <1> QED
    BY <1>1 DEF Carries, For, At

\* However deliveries and confirms of one purchase interleave, fail in their claims
\* and die, none leaves its funding to another that leaves it too.
THEOREM FundingIsOnItsWayHolds == Spec => []FundingIsOnItsWay
  <1>1. Init => FundingIsOnItsWay
    BY DEF Init, FundingIsOnItsWay
  <1>2. IInv /\ FundingIsOnItsWay /\ [Next]_vars => FundingIsOnItsWay'
    <2> SUFFICES ASSUME IInv, FundingIsOnItsWay, [Next]_vars,
                        NEW s \in Sessions,
                        Pack(s) \in credited' \ (funded \union broken)'
                 PROVE  \E r \in Requests : Carries(r, Pack(s))'
      BY DEF FundingIsOnItsWay, Carries
    <2>1. Pack(s) \in credited => \/ \E r \in Requests : Carries(r, Pack(s))
                                  \/ Pack(s) \in funded \union broken
      BY DEF FundingIsOnItsWay, Carries
    <2>2. CASE RequestSide
      <3>1. funded \subseteq funded' /\ broken \subseteq broken'
        BY <2>2
        DEF RequestSide, Deliver, DeliverFirst, DeliverDuplicate, Confirm, Serve,
            RequestFails, GrantLookup, GrantApply, GrantConflict, Claim, ClaimFails,
            Sweep, SweepFails, Dies
      <3>2. CASE Pack(s) \in credited
        <4>1. PICK r \in Requests : Carries(r, Pack(s))
          BY <2>1, <3>1, <3>2
        <4> QED
          BY <2>2, <4>1, CarriedOn DEF IInv
      <3>3. CASE Pack(s) \notin credited
        <4>1. PICK r \in Requests : GrantApply(r)
          BY <3>3, OnlyApplyGrants
        <4>2. For(r) = Pack(s)
          BY <3>3, <4>1 DEF GrantApply
        <4>3. Pack(s).kind = "pack"
          BY DEF Pack
        <4>4. Carries(r, Pack(s))'
          BY <4>1, <4>2, <4>3, GranterCarries DEF IInv
        <4> QED
          BY <4>4
      <3> QED
        BY <3>2, <3>3
    <2>3. CASE ~RequestSide
      <3>1. UNCHANGED <<credited, funded, broken, req>>
        BY <2>3, JobSideUntouched
        DEF Next, RequestSide, JobSide, Spend, Pay, vars, jobVars, ledgerVars
      <3> QED
        BY <2>1, <3>1 DEF Carries, For, At
    <2> QED
      BY <2>2, <2>3
  <1> QED
    BY <1>1, <1>2, InvariantHolds, PTL DEF Spec
=============================================================================
