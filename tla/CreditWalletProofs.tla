------------------------- MODULE CreditWalletProofs -------------------------
(***************************************************************************)
(* The credit wallet's invariants, for any number of executors, call keys, *)
(* purchases and jobs.                                                     *)
(***************************************************************************)
EXTENDS CreditWalletProps, FiniteSetTheorems, WellFoundedInduction, TLAPS

----------------------------------------------------------------------------
(* Type correctness, which contains balance >= 0: no interleaving of       *)
(* reserve, commit, release, grant and expiry overdraws the wallet.        *)

LEMMA InitTypeOK == Init => TypeOK
  <1> SUFFICES ASSUME Init PROVE TypeOK
    OBVIOUS
  <1>1. NoRow \in Row /\ [credits |-> 0, anchor |-> 0] \in [credits : Nat, anchor : Nat]
    BY DEF NoRow, Row
  <1>2. /\ reservation \in [CallKeys -> Row]
        /\ held \in [Executors -> Row]
        /\ seen \in [Jobs -> [credits : Nat, anchor : Nat]]
    BY <1>1 DEF Init
  <1>3. /\ pc \in [Executors -> Returned \union Busy]
        /\ gpc \in [Granters -> GrantPC]
        /\ jpc \in [Jobs -> JobPC]
    BY DEF Init, Returned, GrantPC, JobPC
  <1>4. /\ charged \in [CallKeys -> Nat]
        /\ calls \in [Executors -> Nat]
        /\ estimate \in [Executors -> Nat]
        /\ actual \in [Executors -> Nat]
    BY DEF Init
  <1>5. /\ balance \in Nat /\ lifetimePurchased \in Nat /\ lifetimeConsumed \in Nat
        /\ nextId \in Nat \ {0} /\ anchor \in Nat
        /\ reserved \in Int /\ expired \in Nat
    BY DEF Init
  <1>7. stale \in BOOLEAN
    BY DEF Init
  <1>6. /\ consumption \subseteq CallKeys /\ releases \subseteq CallKeys
        /\ purchases \subseteq GrantKeys /\ expirations \subseteq Nat
        /\ recent \subseteq consumption
    BY DEF Init
  <1> QED
    BY <1>2, <1>3, <1>4, <1>5, <1>6, <1>7 DEF TypeOK

\* An action that moves only an executor's program counter keeps the types.
LEMMA StepTypeOK ==
    ASSUME TypeOK, NEW e \in Executors, NEW from,
           NEW to \in Returned \union Busy, Step(e, from, to)
    PROVE  TypeOK'
  BY DEF TypeOK, Step, Goto, walletVars, ledgerVars, jobVars, history

LEMMA ReserveTypeOK ==
    ASSUME TypeOK, NEW e \in Executors, Reserve(e)
    PROVE  TypeOK'
  <1>1. ASSUME NEW c \in Estimates, StartCall(e, c) PROVE TypeOK'
    <2>1. c \in Nat
      BY WalletAssumption
    <2> QED
      BY <1>1, <2>1 DEF TypeOK, StartCall, Goto, walletVars, ledgerVars, jobVars,
                        history, Returned, Busy
  <1>2. CASE ReserveLookup(e)
    BY <1>2, StepTypeOK DEF ReserveLookup, Returned, Busy
  <1>3. CASE ReserveInsufficient(e)
    BY <1>3, StepTypeOK DEF ReserveInsufficient, Returned, Busy
  <1>4. CASE ReserveConflict(e)
    BY <1>4, StepTypeOK DEF ReserveConflict, Returned, Busy
  <1>5. CASE ReserveApply(e)
    <2>1. CallKeyOf[e] \in CallKeys /\ estimate[e] \in Nat
      BY WalletAssumption DEF TypeOK
    <2>2. [id |-> nextId, credits |-> estimate[e]] \in Row
      BY <2>1 DEF TypeOK, Row
    <2>3. reservation' \in [CallKeys -> Row]
      BY <1>5, <2>1, <2>2 DEF ReserveApply, TypeOK
    <2>4. /\ balance' \in Nat /\ nextId' \in Nat \ {0} /\ reserved' \in Int
          /\ pc' \in [Executors -> Returned \union Busy]
      BY <1>5, <2>1 DEF ReserveApply, TypeOK, Goto, Busy
    <2> QED
      BY <1>5, <2>3, <2>4 DEF TypeOK, ReserveApply, jobVars
  <1> QED
    BY <1>1, <1>2, <1>3, <1>4, <1>5 DEF Reserve

LEMMA CallTypeOK ==
    ASSUME TypeOK, NEW e \in Executors, Call(e)
    PROVE  TypeOK'
  <1>1. CASE LLMFails(e)
    BY <1>1, StepTypeOK DEF LLMFails, Returned, Busy
  <1>2. ASSUME NEW c \in Actuals, LLMAnswers(e, c) PROVE TypeOK'
    BY <1>2, WalletAssumption
    DEF TypeOK, LLMAnswers, Goto, walletVars, ledgerVars, jobVars, history,
        Returned, Busy
  <1>3. CASE Abandon(e)
    BY <1>3
    DEF TypeOK, Abandon, Goto, walletVars, ledgerVars, jobVars, history, Returned
  <1> QED
    BY <1>1, <1>2, <1>3 DEF Call

LEMMA FindTypeOK ==
    ASSUME TypeOK, NEW e \in Executors, NEW from,
           NEW to \in Returned \union Busy, NEW none \in Returned \union Busy,
           FindReservation(e, from, to, none)
    PROVE  TypeOK'
  BY WalletAssumption
  DEF TypeOK, FindReservation, Goto, walletVars, ledgerVars, jobVars, history

\* The clamp of commit_credits: an overspend never takes more than the balance,
\* and what it adds to lifetime_consumed_credits is what the call's hold and the
\* balance together lose.
LEMMA SurplusClamped ==
    ASSUME NEW a \in Nat, NEW h \in Nat, NEW b \in Nat
    PROVE  /\ b - Minimum(a - h, b) \in Nat
           /\ Minimum(a, h + b) \in Nat
           /\ Minimum(a - h, b) + h = Minimum(a, h + b)
  BY DEF Minimum

LEMMA RemoveRowTypeOK ==
    ASSUME TypeOK, NEW k \in CallKeys, NEW row, RemoveRow(k, row)
    PROVE  reservation' \in [CallKeys -> Row] /\ reserved' \in Int
  <1>1. NoRow \in Row
    BY DEF NoRow, Row
  <1>2. reservation' \in [CallKeys -> Row]
    BY <1>1 DEF TypeOK, RemoveRow
  <1>3. reservation[k].credits \in Nat
    BY DEF TypeOK, Row
  <1>4. reserved' \in Int
    BY <1>3 DEF TypeOK, RemoveRow
  <1> QED
    BY <1>2, <1>4

LEMMA CommitTypeOK ==
    ASSUME TypeOK, NEW e \in Executors, Commit(e)
    PROVE  TypeOK'
  <1>1. CASE CommitLookup(e)
    BY <1>1, StepTypeOK DEF CommitLookup, Returned, Busy
  <1>2. CASE CommitFind(e)
    BY <1>2, FindTypeOK DEF CommitFind, Returned, Busy
  <1>3. CASE CommitConflict(e)
    BY <1>3, StepTypeOK DEF CommitConflict, Returned, Busy
  <1>4. CASE CommitApply(e)
    <2> DEFINE k == CallKeyOf[e]
    <2>1. k \in CallKeys /\ actual[e] \in Nat /\ held[e].credits \in Nat
      BY WalletAssumption DEF TypeOK, Row
    <2>2. balance' \in Nat /\ lifetimeConsumed' \in Nat
      <3>1. balance \in Nat /\ lifetimeConsumed \in Nat
        BY DEF TypeOK
      <3>2. /\ balance - Surplus(e) \in Nat
            /\ Minimum(actual[e], held[e].credits + balance) \in Nat
        BY <2>1, <3>1, SurplusClamped DEF Surplus
      <3> QED
        BY <1>4, <3>1, <3>2 DEF CommitApply
    <2>3. reservation' \in [CallKeys -> Row] /\ reserved' \in Int
      BY <1>4, <2>1, RemoveRowTypeOK DEF CommitApply
    <2>4. /\ charged' \in [CallKeys -> Nat]
          /\ consumption' \subseteq CallKeys
          /\ recent' \subseteq consumption'
          /\ pc' \in [Executors -> Returned \union Busy]
      BY <1>4, <2>1 DEF CommitApply, Goto, TypeOK, Returned
    <2> QED
      BY <1>4, <2>2, <2>3, <2>4 DEF CommitApply, TypeOK, jobVars
  <1> QED
    BY <1>1, <1>2, <1>3, <1>4 DEF Commit

LEMMA ReleaseTypeOK ==
    ASSUME TypeOK, NEW e \in Executors, Release(e)
    PROVE  TypeOK'
  <1>1. CASE ReleaseLookup(e)
    BY <1>1, StepTypeOK DEF ReleaseLookup, Returned, Busy
  <1>2. CASE ReleaseFind(e)
    BY <1>2, FindTypeOK DEF ReleaseFind, Returned, Busy
  <1>3. CASE ReleaseConflict(e)
    BY <1>3, StepTypeOK DEF ReleaseConflict, Returned, Busy
  <1>4. CASE ReleaseApply(e)
    <2>1. CallKeyOf[e] \in CallKeys /\ held[e].credits \in Nat
      BY WalletAssumption DEF TypeOK, Row
    <2>2. reservation' \in [CallKeys -> Row] /\ reserved' \in Int
      BY <1>4, <2>1, RemoveRowTypeOK DEF ReleaseApply
    <2>3. /\ balance' \in Nat
          /\ releases' \subseteq CallKeys
          /\ pc' \in [Executors -> Returned \union Busy]
      BY <1>4, <2>1 DEF ReleaseApply, Goto, TypeOK, Returned
    <2> QED
      BY <1>4, <2>2, <2>3 DEF ReleaseApply, TypeOK, jobVars
  <1> QED
    BY <1>1, <1>2, <1>3, <1>4 DEF Release

LEMMA GrantTypeOK ==
    ASSUME TypeOK, NEW g \in Granters, Grant(g)
    PROVE  TypeOK'
  <1>1. CASE GrantLookup(g)
    BY <1>1 DEF GrantLookup, TypeOK, walletVars, ledgerVars, frameVars, history, GrantPC
  <1>2. CASE GrantConflict(g)
    BY <1>2 DEF GrantConflict, TypeOK, walletVars, ledgerVars, frameVars, history, GrantPC
  <1>3. CASE GrantApply(g)
    <2>1. GrantKeyOf[g] \in GrantKeys /\ PackCredits \in Nat
      BY WalletAssumption
    <2>2. /\ balance' \in Nat /\ lifetimePurchased' \in Nat /\ anchor' \in Nat
          /\ purchases' \subseteq GrantKeys
      BY <1>3, <2>1 DEF GrantApply, TypeOK
    <2>4. stale' \in BOOLEAN
      BY <1>3 DEF GrantApply
    <2>3. gpc' \in [Granters -> GrantPC]
      BY <1>3 DEF GrantApply, TypeOK, GrantPC
    <2> QED
      BY <1>3, <2>2, <2>3, <2>4 DEF GrantApply, TypeOK, frameVars, history
  <1> QED
    BY <1>1, <1>2, <1>3 DEF Grant

LEMMA ExpireTypeOK ==
    ASSUME TypeOK, NEW j \in Jobs, Expire(j)
    PROVE  TypeOK'
  <1>1. CASE ExpireScan(j)
    BY <1>1 DEF ExpireScan, TypeOK, walletVars, ledgerVars, frameVars, history, JobPC
  <1>2. CASE ExpireInsert(j)
    BY <1>2 DEF ExpireInsert, TypeOK, walletVars, frameVars, history, JobPC
  <1>3. CASE ExpireDrain(j)
    BY <1>3 DEF ExpireDrain, TypeOK, ledgerVars, frameVars, JobPC
  <1>4. CASE ExpireCrash(j)
    BY <1>4 DEF ExpireCrash, TypeOK, walletVars, ledgerVars, frameVars, history, JobPC
  <1> QED
    BY <1>1, <1>2, <1>3, <1>4 DEF Expire

LEMMA TimeTypeOK ==
    ASSUME TypeOK, TwelveMonthsPass \/ \E k \in CallKeys : WindowRolls(k)
    PROVE  TypeOK'
  BY DEF TypeOK, TwelveMonthsPass, WindowRolls, walletVars, frameVars, jobVars, history

LEMMA NextTypeOK == TypeOK /\ [Next]_vars => TypeOK'
  <1> SUFFICES ASSUME TypeOK, [Next]_vars PROVE TypeOK'
    OBVIOUS
  <1>1. CASE UNCHANGED vars
    BY <1>1 DEF vars, walletVars, ledgerVars, frameVars, jobVars, history, TypeOK
  <1>2. CASE Next
    BY <1>2, ReserveTypeOK, CallTypeOK, CommitTypeOK, ReleaseTypeOK, GrantTypeOK,
       ExpireTypeOK, TimeTypeOK DEF Next
  <1> QED
    BY <1>1, <1>2

\* Every reachable state is well typed; in particular balance_credits >= 0, the
\* CHECK of migration 067, is never what stops a transaction.
THEOREM TypeCorrect == Spec => []TypeOK
  BY InitTypeOK, NextTypeOK, PTL DEF Spec

----------------------------------------------------------------------------
(* Charged once, however many executors share a call key                   *)

ChargeStep ==
    /\ \A k \in consumption : k \in consumption' /\ charged'[k] = charged[k]
    /\ lifetimeConsumed' # lifetimeConsumed => consumption' # consumption

\* Only CommitApply writes the consumption rows and the consumed total.
LEMMA OnlyCommitCharges ==
    ASSUME [Next]_vars, \A e \in Executors : ~CommitApply(e)
    PROVE  UNCHANGED <<consumption, charged, lifetimeConsumed>>
  <1> USE DEF walletVars, ledgerVars, frameVars, jobVars, history
  <1>1. CASE UNCHANGED vars
    BY <1>1 DEF vars
  <1>2. ASSUME NEW e \in Executors, Reserve(e) \/ Call(e) \/ Commit(e) \/ Release(e)
        PROVE  UNCHANGED <<consumption, charged, lifetimeConsumed>>
    BY <1>2
    DEF Reserve, StartCall, ReserveLookup, ReserveInsufficient, ReserveConflict,
        ReserveApply, Call, LLMFails, LLMAnswers, Abandon, Commit, CommitLookup,
        CommitFind, CommitConflict, Release, ReleaseLookup, ReleaseFind,
        ReleaseConflict, ReleaseApply, FindReservation, Step
  <1>3. ASSUME NEW g \in Granters, Grant(g)
        PROVE  UNCHANGED <<consumption, charged, lifetimeConsumed>>
    BY <1>3 DEF Grant, GrantLookup, GrantConflict, GrantApply
  <1>4. ASSUME NEW j \in Jobs, Expire(j)
        PROVE  UNCHANGED <<consumption, charged, lifetimeConsumed>>
    BY <1>4 DEF Expire, ExpireScan, ExpireInsert, ExpireDrain, ExpireCrash
  <1>5. ASSUME TwelveMonthsPass \/ \E k \in CallKeys : WindowRolls(k)
        PROVE  UNCHANGED <<consumption, charged, lifetimeConsumed>>
    BY <1>5 DEF TwelveMonthsPass, WindowRolls
  <1> QED
    BY <1>1, <1>2, <1>3, <1>4, <1>5 DEF Next

LEMMA NextChargeStep == TypeOK /\ [Next]_vars => [ChargeStep]_vars
  <1> SUFFICES ASSUME TypeOK, [Next]_vars PROVE ChargeStep
    OBVIOUS
  <1>1. CASE \A e \in Executors : ~CommitApply(e)
    BY <1>1, OnlyCommitCharges DEF ChargeStep
  <1>2. ASSUME NEW e \in Executors, CommitApply(e) PROVE ChargeStep
    <2>1. CallKeyOf[e] \in CallKeys /\ CallKeyOf[e] \notin consumption
      BY <1>2, WalletAssumption DEF CommitApply, HasCommit
    <2>2. consumption' = consumption \union {CallKeyOf[e]}
      BY <1>2 DEF CommitApply
    <2>3. \A k \in consumption : charged'[k] = charged[k]
      BY <1>2, <2>1 DEF CommitApply, TypeOK
    <2> QED
      BY <2>1, <2>2, <2>3 DEF ChargeStep
  <1> QED
    BY <1>1, <1>2

\* A call key is charged at most once, with no assumption on who shares it: the
\* commit that comes second runs into the UNIQUE key and is rolled back whole.
THEOREM ChargedOnceHolds == Spec => ChargedOnce
  <1>1. TypeOK /\ [Next]_vars => [ChargeStep]_vars
    BY NextChargeStep
  <1>2. ChargedOnce <=> [][ChargeStep]_vars
    BY PTL DEF ChargedOnce, ChargeStep
  <1> QED
    BY <1>1, <1>2, TypeCorrect, PTL DEF Spec

----------------------------------------------------------------------------
(* A caller told "ok" has been charged                                     *)

LEMMA NextOkMeansCharged ==
    TypeOK /\ OkMeansCharged /\ [Next]_vars => OkMeansCharged'
  <1> SUFFICES ASSUME TypeOK, OkMeansCharged, [Next]_vars,
                      NEW e \in Executors, pc'[e] = "ok"
               PROVE  CallKeyOf[e] \in consumption'
    BY DEF OkMeansCharged
  <1>1. consumption \subseteq consumption'
    BY NextChargeStep DEF ChargeStep, vars, ledgerVars
  <1>2. CASE pc[e] = "ok"
    BY <1>1, <1>2 DEF OkMeansCharged
  <1>3. CASE pc[e] # "ok"
    <2>1. CommitLookup(e) \/ CommitApply(e)
      <3> USE DEF Goto, TypeOK, OverCap
      <3>1. ASSUME NEW f \in Executors, Reserve(f) \/ Call(f) \/ Release(f) PROVE FALSE
        BY <1>3, <3>1
        DEF Reserve, StartCall, ReserveLookup, ReserveInsufficient, ReserveConflict,
            ReserveApply, Call, LLMFails, LLMAnswers, Abandon, Release, ReleaseLookup,
            ReleaseFind, ReleaseConflict, ReleaseApply, FindReservation, Step
      <3>2. ASSUME NEW f \in Executors, Commit(f) PROVE CommitLookup(e) \/ CommitApply(e)
        BY <1>3, <3>2
        DEF Commit, CommitLookup, CommitFind, CommitConflict, CommitApply,
            FindReservation, Step
      <3>3. ~UNCHANGED pc
        BY <1>3
      <3>4. ASSUME NEW g \in Granters, Grant(g) PROVE FALSE
        BY <3>3, <3>4 DEF Grant, GrantLookup, GrantConflict, GrantApply, frameVars
      <3>5. ASSUME NEW j \in Jobs, Expire(j) PROVE FALSE
        BY <3>3, <3>5 DEF Expire, ExpireScan, ExpireInsert, ExpireDrain, ExpireCrash,
                          frameVars
      <3>6. ASSUME TwelveMonthsPass \/ \E k \in CallKeys : WindowRolls(k) PROVE FALSE
        BY <3>3, <3>6 DEF TwelveMonthsPass, WindowRolls, frameVars
      <3> QED
        BY <3>1, <3>2, <3>3, <3>4, <3>5, <3>6 DEF Next, vars, frameVars
    <2>2. CASE CommitLookup(e)
      BY <1>1, <1>3, <2>2 DEF CommitLookup, HasCommit, Step, Goto, TypeOK
    <2>3. CASE CommitApply(e)
      BY <2>3 DEF CommitApply
    <2> QED
      BY <2>1, <2>2, <2>3
  <1> QED
    BY <1>2, <1>3

\* No caller gets a model answer reported as paid without a consumption row.
THEOREM OkMeansChargedHolds == Spec => []OkMeansCharged
  <1>1. Init => OkMeansCharged
    BY DEF Init, OkMeansCharged
  <1> QED
    BY <1>1, NextOkMeansCharged, TypeCorrect, PTL DEF Spec

----------------------------------------------------------------------------
(* A purchase is credited once                                             *)

PurchaseInv == IsFiniteSet(purchases) /\ PurchaseCreditedOnce

LEMMA NextPurchaseInv == TypeOK /\ PurchaseInv /\ [Next]_vars => PurchaseInv'
  <1> SUFFICES ASSUME TypeOK, PurchaseInv, [Next]_vars PROVE PurchaseInv'
    OBVIOUS
  <1> USE DEF walletVars, ledgerVars, frameVars, jobVars, history
  <1>1. ASSUME UNCHANGED <<purchases, lifetimePurchased>> PROVE PurchaseInv'
    BY <1>1 DEF PurchaseInv, PurchaseCreditedOnce
  <1>2. CASE UNCHANGED vars
    BY <1>1, <1>2 DEF vars
  <1>3. ASSUME NEW e \in Executors, Reserve(e) \/ Call(e) \/ Commit(e) \/ Release(e)
        PROVE  PurchaseInv'
    BY <1>1, <1>3
    DEF Reserve, StartCall, ReserveLookup, ReserveInsufficient, ReserveConflict,
        ReserveApply, Call, LLMFails, LLMAnswers, Abandon, Commit, CommitLookup,
        CommitFind, CommitConflict, CommitApply, Release, ReleaseLookup, ReleaseFind,
        ReleaseConflict, ReleaseApply, FindReservation, Step
  <1>4. ASSUME NEW g \in Granters, Grant(g) PROVE PurchaseInv'
    <2>1. CASE GrantLookup(g) \/ GrantConflict(g)
      BY <1>1, <2>1 DEF GrantLookup, GrantConflict
    <2>2. CASE GrantApply(g)
      <3>1. /\ GrantKeyOf[g] \notin purchases
            /\ purchases' = purchases \union {GrantKeyOf[g]}
            /\ lifetimePurchased' = lifetimePurchased + PackCredits
        BY <2>2 DEF GrantApply, HasPurchase
      <3>2. /\ IsFiniteSet(purchases')
            /\ Cardinality(purchases') = Cardinality(purchases) + 1
        BY <3>1, FS_AddElement DEF PurchaseInv
      <3>3. Cardinality(purchases) \in Nat /\ PackCredits \in Nat
        BY FS_CardinalityType, WalletAssumption DEF PurchaseInv
      <3>4. lifetimePurchased' = PackCredits * Cardinality(purchases')
        BY <3>1, <3>2, <3>3 DEF PurchaseInv, PurchaseCreditedOnce
      <3> QED
        BY <3>2, <3>4 DEF PurchaseInv, PurchaseCreditedOnce
    <2> QED
      BY <1>4, <2>1, <2>2 DEF Grant
  <1>5. ASSUME NEW j \in Jobs, Expire(j) PROVE PurchaseInv'
    BY <1>1, <1>5 DEF Expire, ExpireScan, ExpireInsert, ExpireDrain, ExpireCrash
  <1>6. ASSUME TwelveMonthsPass \/ \E k \in CallKeys : WindowRolls(k) PROVE PurchaseInv'
    BY <1>1, <1>6 DEF TwelveMonthsPass, WindowRolls
  <1> QED
    BY <1>2, <1>3, <1>4, <1>5, <1>6 DEF Next

\* However often and in whatever overlap the confirm endpoint and the webhook
\* deliver a paid session, the pack reaches the wallet once.
THEOREM PurchaseCreditedOnceHolds == Spec => []PurchaseCreditedOnce
  <1>1. Init => PurchaseInv
    BY FS_EmptySet, WalletAssumption DEF Init, PurchaseInv, PurchaseCreditedOnce
  <1>2. PurchaseInv => PurchaseCreditedOnce
    BY DEF PurchaseInv
  <1> QED
    BY <1>1, <1>2, NextPurchaseInv, TypeCorrect, PTL DEF Spec

----------------------------------------------------------------------------
(* Conservation, when no two executors share a call key.                   *)
(*                                                                         *)
(* Conservation alone is not inductive: commit and release give back what  *)
(* their own SELECT saw of the reservation, while the DELETE that follows  *)
(* takes away the row that is there.  What makes the two agree is that the *)
(* row cannot have changed in between, and that is the executor's          *)
(* exclusive hold on its key.                                              *)

\* What an executor read of its reservation is still what the ledger holds.
HeldIsCurrent ==
    \A e \in Executors :
        pc[e] \in {"commit_apply", "release_apply"} =>
            held[e] = reservation[CallKeyOf[e]]

IInv == Conservation /\ CallIsFunded /\ HeldIsCurrent

InCall == {"calling", "commit_lookup", "commit_find", "commit_apply",
           "release_lookup", "release_find", "release_apply"}

\* IInv survives a step that leaves the wallet's totals and the reservations
\* alone and takes no executor to a place where it needs a reservation.
LEMMA QuietStep ==
    ASSUME IInv, TypeOK,
           UNCHANGED <<balance, reserved, lifetimeConsumed, expired,
                       lifetimePurchased, reservation>>,
           \A e \in Executors :
               \/ pc'[e] = pc[e] /\ held'[e] = held[e]
               \/ pc'[e] \notin InCall \union {"wallet_error"}
               \/ /\ HasReservation(CallKeyOf[e])
                  /\ pc'[e] \in InCall
                  /\ pc'[e] \in {"commit_apply", "release_apply"} =>
                         held'[e] = reservation[CallKeyOf[e]]
    PROVE  IInv'
  BY DEF IInv, Conservation, CallIsFunded, HeldIsCurrent, InCall, HasReservation

\* A step of one executor that moves its program counter, and reads at most its
\* own reservation.
LEMMA QuietExecutorStep ==
    ASSUME IInv, TypeOK, NEW e \in Executors,
           \/ \E c \in Estimates : StartCall(e, c)
           \/ ReserveLookup(e) \/ ReserveInsufficient(e) \/ ReserveConflict(e)
           \/ Call(e)
           \/ CommitLookup(e) \/ CommitFind(e) \/ CommitConflict(e)
           \/ ReleaseLookup(e) \/ ReleaseFind(e) \/ ReleaseConflict(e)
    PROVE  IInv'
  <1> USE DEF walletVars, ledgerVars, jobVars, history, Goto, Step, InCall
  <1>1. UNCHANGED <<balance, reserved, lifetimeConsumed, expired, lifetimePurchased,
                    reservation>>
    BY DEF StartCall, ReserveLookup, ReserveInsufficient, ReserveConflict, Call,
           LLMFails, LLMAnswers, Abandon, CommitLookup, CommitFind, CommitConflict,
           ReleaseLookup, ReleaseFind, ReleaseConflict, FindReservation
  <1>2. ASSUME NEW f \in Executors, f # e PROVE pc'[f] = pc[f] /\ held'[f] = held[f]
    BY <1>2
    DEF TypeOK, StartCall, ReserveLookup, ReserveInsufficient, ReserveConflict, Call,
        LLMFails, LLMAnswers, Abandon, CommitLookup, CommitFind, CommitConflict,
        ReleaseLookup, ReleaseFind, ReleaseConflict, FindReservation
  <1>3. \/ pc'[e] \notin InCall \union {"wallet_error"}
        \/ /\ HasReservation(CallKeyOf[e])
           /\ pc'[e] \in InCall
           /\ pc'[e] \in {"commit_apply", "release_apply"} =>
                  held'[e] = reservation[CallKeyOf[e]]
    <2> USE DEF IInv, CallIsFunded, TypeOK
    <2>1. CASE \E c \in Estimates : StartCall(e, c)
      BY <2>1 DEF StartCall
    <2>2. CASE ReserveLookup(e) \/ ReserveInsufficient(e) \/ ReserveConflict(e)
      BY <2>2 DEF ReserveLookup, ReserveInsufficient, ReserveConflict
    <2>3. CASE Call(e)
      BY <2>3 DEF Call, LLMFails, LLMAnswers, Abandon
    <2>4. CASE CommitLookup(e) \/ CommitFind(e) \/ CommitConflict(e)
      BY <2>4 DEF CommitLookup, CommitFind, CommitConflict, FindReservation
    <2>5. CASE ReleaseLookup(e) \/ ReleaseFind(e) \/ ReleaseConflict(e)
      BY <2>5 DEF ReleaseLookup, ReleaseFind, ReleaseConflict, FindReservation
    <2> QED
      BY <2>1, <2>2, <2>3, <2>4, <2>5
  <1> QED
    BY <1>1, <1>2, <1>3, QuietStep

\* A reservation takes from the balance what it puts in the row.
LEMMA ReserveKeepsIInv ==
    ASSUME ExclusiveKeys, IInv, TypeOK, NEW e \in Executors, ReserveApply(e)
    PROVE  IInv'
  <1> DEFINE k == CallKeyOf[e]
  <1>1. k \in CallKeys /\ estimate[e] \in Nat
    BY WalletAssumption DEF TypeOK
  <1>2. reservation'[k] = [id |-> nextId, credits |-> estimate[e]] /\ nextId # 0
    BY <1>1 DEF ReserveApply, TypeOK
  <1>3. Conservation'
    BY <1>1 DEF ReserveApply, IInv, Conservation, TypeOK
  <1>4. ASSUME NEW f \in Executors, f # e
        PROVE  /\ pc'[f] = pc[f] /\ held'[f] = held[f]
               /\ reservation'[CallKeyOf[f]] = reservation[CallKeyOf[f]]
    BY <1>1, <1>4, WalletAssumption DEF ReserveApply, Goto, TypeOK, ExclusiveKeys
  <1>5. pc'[e] = "calling" /\ reservation'[k].id # 0
    BY <1>1, <1>2 DEF ReserveApply, Goto, TypeOK
  <1>6. CallIsFunded'
    BY <1>4, <1>5 DEF IInv, CallIsFunded, HasReservation
  <1>7. HeldIsCurrent'
    BY <1>4, <1>5 DEF IInv, HeldIsCurrent
  <1> QED
    BY <1>3, <1>6, <1>7 DEF IInv

\* Settling an executor's own, current row touches nobody else's.
LEMMA SettleKeepsFunding ==
    ASSUME ExclusiveKeys, IInv, TypeOK, NEW e \in Executors,
           CommitApply(e) \/ ReleaseApply(e)
    PROVE  CallIsFunded' /\ HeldIsCurrent'
  <1>1. CallKeyOf[e] \in CallKeys
    BY WalletAssumption
  <1>2. ASSUME NEW f \in Executors, f # e
        PROVE  /\ pc'[f] = pc[f] /\ held'[f] = held[f]
               /\ reservation'[CallKeyOf[f]] = reservation[CallKeyOf[f]]
    BY <1>1, <1>2, WalletAssumption
    DEF CommitApply, ReleaseApply, RemoveRow, Goto, TypeOK, ExclusiveKeys
  <1>3. pc'[e] \in {"ok", "llm_error"}
    BY DEF CommitApply, ReleaseApply, Goto, TypeOK
  <1>4. CallIsFunded'
    BY <1>2, <1>3 DEF IInv, CallIsFunded, HasReservation
  <1>5. HeldIsCurrent'
    BY <1>2, <1>3 DEF IInv, HeldIsCurrent
  <1> QED
    BY <1>4, <1>5

LEMMA CommitConserves ==
    ASSUME IInv, TypeOK, NEW e \in Executors, CommitApply(e)
    PROVE  Conservation'
  <1> DEFINE h == held[e].credits
  <1>1. /\ actual[e] \in Nat /\ h \in Nat /\ balance \in Nat
        /\ lifetimeConsumed \in Nat /\ reserved \in Int /\ expired \in Nat
    BY DEF TypeOK, Row
  <1>2. reserved' = reserved - h
    BY DEF IInv, HeldIsCurrent, CommitApply, RemoveRow
  <1>3. /\ Minimum(actual[e] - h, balance) \in Int
        /\ Minimum(actual[e], h + balance) \in Int
        /\ Minimum(actual[e] - h, balance) + h = Minimum(actual[e], h + balance)
    BY <1>1 DEF Minimum
  <1>4. /\ balance' = balance - Minimum(actual[e] - h, balance)
        /\ lifetimeConsumed' = lifetimeConsumed + Minimum(actual[e], h + balance)
        /\ expired' = expired /\ lifetimePurchased' = lifetimePurchased
    BY DEF CommitApply, Surplus
  <1>5. balance' + reserved' + lifetimeConsumed' = balance + reserved + lifetimeConsumed
    <2> HIDE DEF h
    <2> QED
      BY <1>1, <1>2, <1>3, <1>4
  <1>6. lifetimePurchased = balance + reserved + lifetimeConsumed + expired
    BY DEF IInv, Conservation
  <1> QED
    BY <1>4, <1>5, <1>6 DEF Conservation

LEMMA ReleaseConserves ==
    ASSUME IInv, TypeOK, NEW e \in Executors, ReleaseApply(e)
    PROVE  Conservation'
  <1>1. /\ held[e].credits \in Nat /\ balance \in Nat
        /\ lifetimeConsumed \in Nat /\ reserved \in Int /\ expired \in Nat
    BY DEF TypeOK, Row
  <1>2. reserved' = reserved - held[e].credits
    BY DEF IInv, HeldIsCurrent, ReleaseApply, RemoveRow
  <1>3. /\ balance' = balance + held[e].credits
        /\ lifetimeConsumed' = lifetimeConsumed
        /\ expired' = expired /\ lifetimePurchased' = lifetimePurchased
    BY DEF ReleaseApply
  <1> QED
    BY <1>1, <1>2, <1>3 DEF IInv, Conservation

\* Purchases, expiry and time leave every reservation and executor alone.
LEMMA OutsideKeepsIInv ==
    ASSUME IInv, TypeOK,
           \/ \E g \in Granters : Grant(g)
           \/ \E j \in Jobs : Expire(j)
           \/ TwelveMonthsPass \/ \E k \in CallKeys : WindowRolls(k)
           \/ UNCHANGED vars
    PROVE  IInv'
  <1> USE DEF walletVars, ledgerVars, frameVars, jobVars, history
  <1>1. UNCHANGED <<reservation, reserved, lifetimeConsumed, pc, held>>
    BY DEF Grant, GrantLookup, GrantConflict, GrantApply, Expire, ExpireScan,
           ExpireInsert, ExpireDrain, ExpireCrash, TwelveMonthsPass, WindowRolls, vars
  <1>2. Conservation'
    <2>1. ASSUME UNCHANGED <<balance, expired, lifetimePurchased>> PROVE Conservation'
      BY <1>1, <2>1 DEF IInv, Conservation
    <2>2. ASSUME NEW g \in Granters, Grant(g) PROVE Conservation'
      <3>1. CASE GrantLookup(g) \/ GrantConflict(g)
        BY <2>1, <3>1 DEF GrantLookup, GrantConflict
      <3>2. CASE GrantApply(g)
        BY <1>1, <3>2, WalletAssumption DEF GrantApply, IInv, Conservation, TypeOK
      <3> QED
        BY <2>2, <3>1, <3>2 DEF Grant
    <2>3. ASSUME NEW j \in Jobs, Expire(j) PROVE Conservation'
      <3>1. CASE ExpireScan(j) \/ ExpireInsert(j) \/ ExpireCrash(j)
        BY <2>1, <3>1 DEF ExpireScan, ExpireInsert, ExpireCrash
      <3>2. CASE ExpireDrain(j)
        BY <1>1, <3>2 DEF ExpireDrain, IInv, Conservation, TypeOK
      <3> QED
        BY <2>3, <3>1, <3>2 DEF Expire
    <2>4. ASSUME \/ TwelveMonthsPass \/ \E k \in CallKeys : WindowRolls(k)
                 \/ UNCHANGED vars
          PROVE  Conservation'
      BY <2>1, <2>4 DEF TwelveMonthsPass, WindowRolls, vars
    <2> QED
      BY <2>2, <2>3, <2>4
  <1>3. CallIsFunded' /\ HeldIsCurrent'
    BY <1>1 DEF IInv, CallIsFunded, HeldIsCurrent, HasReservation
  <1> QED
    BY <1>2, <1>3 DEF IInv

LEMMA NextIInv ==
    ASSUME ExclusiveKeys
    PROVE  IInv /\ TypeOK /\ [Next]_vars => IInv'
  <1> SUFFICES ASSUME IInv, TypeOK, [Next]_vars PROVE IInv'
    OBVIOUS
  <1>1. ASSUME NEW e \in Executors, Reserve(e) \/ Call(e) \/ Commit(e) \/ Release(e)
        PROVE  IInv'
    <2>1. CASE ReserveApply(e)
      BY <2>1, ReserveKeepsIInv
    <2>2. CASE CommitApply(e)
      BY <2>2, CommitConserves, SettleKeepsFunding DEF IInv
    <2>3. CASE ReleaseApply(e)
      BY <2>3, ReleaseConserves, SettleKeepsFunding DEF IInv
    <2> QED
      BY <1>1, <2>1, <2>2, <2>3, QuietExecutorStep DEF Reserve, Commit, Release
  <1> QED
    BY <1>1, OutsideKeepsIInv DEF Next

LEMMA InvariantOfExclusiveKeys ==
    ASSUME ExclusiveKeys
    PROVE  Spec => []IInv
  <1>1. Init => IInv
    BY DEF Init, IInv, Conservation, CallIsFunded, HeldIsCurrent
  <1> QED
    BY <1>1, NextIInv, TypeCorrect, PTL DEF Spec

\* With one executor per call key, credits are neither made nor lost, for any
\* number of executors, retries, crashes, purchases and expiration jobs.
THEOREM ConservationHolds ==
    ASSUME ExclusiveKeys
    PROVE  Spec => []Conservation
  <1>1. IInv => Conservation
    BY DEF IInv
  <1> QED
    BY <1>1, InvariantOfExclusiveKeys, PTL

\* With one executor per call key, every LLM call is made on credits set aside for
\* it, and its commit finds them.
THEOREM CallIsFundedHolds ==
    ASSUME ExclusiveKeys
    PROVE  Spec => []CallIsFunded
  <1>1. IInv => CallIsFunded
    BY DEF IInv
  <1> QED
    BY <1>1, InvariantOfExclusiveKeys, PTL

----------------------------------------------------------------------------
(* What SumFunction computes on a finite set.  Its fold is a recursive     *)
(* function, so that it has a value is itself a lemma; induction is by a   *)
(* smallest counterexample.                                                *)
Picked(s) == CHOOSE x \in s : TRUE

\* g is the function of the fold's recursion on the subsets of S.
Sums(f, S, g) ==
    g = [s \in SUBSET S |->
            IF s = {} THEN 0 ELSE f[Picked(s)] + g[s \ {Picked(s)}]]

\* Induction on finite sets: a set of subsets that is not empty has a smallest one.
LEMMA SmallestSubset ==
    ASSUME NEW S, IsFiniteSet(S), NEW T \in SUBSET (SUBSET S), T # {}
    PROVE  \E s \in T : \A t \in T : t \subseteq s => t = s
  <1> DEFINE R == StrictSubsetOrdering(S)
  <1>1. IsWellFoundedOn(R, SUBSET S)
    BY FS_StrictSubsetOrderingWellFounded, FS_FiniteSubsetsOfFinite
  <1>2. PICK s \in T : \A t \in T : <<t, s>> \notin R
    <2> HIDE DEF R
    <2> QED
      BY <1>1, WFMin
  <1>3. \A t \in T : t \subseteq s => t = s
    BY <1>2 DEF StrictSubsetOrdering
  <1> QED
    BY <1>3

LEMMA PickedIsIn == ASSUME NEW s, s # {} PROVE Picked(s) \in s
  BY DEF Picked

LEMMA SumsUnique ==
    ASSUME NEW f, NEW S, IsFiniteSet(S), NEW T \in SUBSET S,
           NEW g, Sums(f, S, g), NEW h, Sums(f, T, h)
    PROVE  \A s \in SUBSET T : h[s] = g[s]
  <1> DEFINE Bad == {s \in SUBSET T : h[s] # g[s]}
  <1>1. SUFFICES ASSUME Bad # {} PROVE FALSE
    OBVIOUS
  <1>2. PICK s \in Bad : \A t \in Bad : t \subseteq s => t = s
    <2>1. Bad \in SUBSET (SUBSET S)
      OBVIOUS
    <2> HIDE DEF Bad
    <2> QED
      BY <1>1, <2>1, SmallestSubset
  <1>3. /\ s \in SUBSET T /\ s \in SUBSET S
        /\ h[s] = IF s = {} THEN 0 ELSE f[Picked(s)] + h[s \ {Picked(s)}]
        /\ g[s] = IF s = {} THEN 0 ELSE f[Picked(s)] + g[s \ {Picked(s)}]
    BY DEF Sums
  <1>4. CASE s = {}
    BY <1>3, <1>4
  <1>5. CASE s # {}
    <2>1. Picked(s) \in s
      BY <1>5, PickedIsIn
    <2>2. s \ {Picked(s)} \notin Bad
      BY <1>2, <2>1
    <2>3. h[s \ {Picked(s)}] = g[s \ {Picked(s)}]
      BY <1>3, <2>2
    <2> QED
      BY <1>3, <1>5, <2>3
  <1> QED
    BY <1>4, <1>5

LEMMA SumIsChosen ==
    ASSUME NEW f, NEW S
    PROVE  SumFunctionOnSet(f, S) = (CHOOSE g : Sums(f, S, g))[S]
  BY DEF SumFunctionOnSet, FoldFunctionOnSet, MapThenFoldSet, Sums, Picked

LEMMA SumsRestrict ==
    ASSUME NEW f, NEW S, NEW T \in SUBSET S, NEW g, Sums(f, S, g)
    PROVE  Sums(f, T, [s \in SUBSET T |-> g[s]])
  <1> DEFINE h == [s \in SUBSET T |-> g[s]]
  <1>1. ASSUME NEW s \in SUBSET T
        PROVE h[s] = IF s = {} THEN 0 ELSE f[Picked(s)] + h[s \ {Picked(s)}]
    <2>1. s \in SUBSET S /\ s \ {Picked(s)} \in SUBSET T
      OBVIOUS
    <2>2. g[s] = IF s = {} THEN 0 ELSE f[Picked(s)] + g[s \ {Picked(s)}]
      BY <2>1 DEF Sums
    <2> QED
      BY <2>1, <2>2
  <1>2. h = [s \in SUBSET T |-> h[s]]
    OBVIOUS
  <1> HIDE DEF h
  <1>3. h = [s \in SUBSET T |-> IF s = {} THEN 0 ELSE f[Picked(s)] + h[s \ {Picked(s)}]]
    BY <1>1, <1>2
  <1> QED
    BY <1>3 DEF Sums, h

\* The recursion of the fold has a solution on a finite set.
LEMMA SumsExist ==
    ASSUME NEW f, NEW S, IsFiniteSet(S)
    PROVE  \E g : Sums(f, S, g)
  <1> DEFINE Bad == {s \in SUBSET S : ~\E g : Sums(f, s, g)}
             V(s) == (CHOOSE g : Sums(f, s, g))[s]
  <1>1. SUFFICES ASSUME Bad # {} PROVE FALSE
    <2>1. S \in SUBSET S
      OBVIOUS
    <2> QED
      BY <2>1
  <1>2. PICK T \in Bad : \A t \in Bad : t \subseteq T => t = T
    <2>1. Bad \in SUBSET (SUBSET S)
      OBVIOUS
    <2> HIDE DEF Bad
    <2> QED
      BY <1>1, <2>1, SmallestSubset
  <1>3. IsFiniteSet(T) /\ T \in SUBSET S
    BY FS_Subset
  <1>4. ASSUME NEW s \in SUBSET T, s # T
        PROVE  Sums(f, s, CHOOSE g : Sums(f, s, g))
    <2>1. \E g : Sums(f, s, g)
      BY <1>2, <1>4
    <2> QED
      BY <2>1
  <1>5. ASSUME NEW s \in SUBSET T, s # T, s # {}
        PROVE  V(s) = f[Picked(s)] + V(s \ {Picked(s)})
    <2> DEFINE p == Picked(s)
               g == CHOOSE h : Sums(f, s, h)
               h == CHOOSE k : Sums(f, s \ {p}, k)
    <2>1. p \in s
      BY <1>5, PickedIsIn
    <2>2. Sums(f, s, g) /\ Sums(f, s \ {p}, h)
      <3>1. s \ {p} \in SUBSET T /\ s \ {p} # T
        BY <2>1
      <3> QED
        BY <1>4, <1>5, <3>1
    <2>3. IsFiniteSet(s)
      BY <1>3, FS_Subset
    <2>4. s \in SUBSET s /\ s \ {p} \in SUBSET s /\ s \ {p} \in SUBSET (s \ {p})
      OBVIOUS
    <2>5. V(s) = g[s] /\ V(s \ {p}) = h[s \ {p}]
      OBVIOUS
    <2>6. h[s \ {p}] = g[s \ {p}]
      <3> HIDE DEF g, h
      <3> QED
        BY <2>2, <2>3, <2>4, SumsUnique
    <2>7. g[s] = f[p] + g[s \ {p}]
      <3> HIDE DEF g
      <3> QED
        BY <1>5, <2>2, <2>4 DEF Sums
    <2> QED
      BY <2>5, <2>6, <2>7
  <1>6. V({}) = 0 \/ T = {}
    <2>1. CASE T # {}
      <3>1. Sums(f, {}, CHOOSE g : Sums(f, {}, g))
        BY <1>4, <2>1
      <3>2. (CHOOSE g : Sums(f, {}, g))[{}] = 0
        <4> DEFINE g == CHOOSE k : Sums(f, {}, k)
        <4> HIDE DEF g
        <4>1. Sums(f, {}, g)
          BY <3>1 DEF g
        <4>2. g[{}] = 0
          BY <4>1 DEF Sums
        <4> QED
          BY <4>2 DEF g
      <3> QED
        BY <3>2
    <2> QED
      BY <2>1
  <1> DEFINE top == IF T = {} THEN 0 ELSE f[Picked(T)] + V(T \ {Picked(T)})
             k == [s \in SUBSET T |-> IF s = T THEN top ELSE V(s)]
  <1>7. \A s \in SUBSET T : k[s] = IF s = {} THEN 0 ELSE f[Picked(s)] + k[s \ {Picked(s)}]
    <2> SUFFICES ASSUME NEW s \in SUBSET T
                 PROVE k[s] = IF s = {} THEN 0 ELSE f[Picked(s)] + k[s \ {Picked(s)}]
      OBVIOUS
    <2> HIDE DEF V
    <2>1. CASE s = {}
      BY <1>6, <2>1
    <2>2. CASE s # {}
      <3>1. Picked(s) \in s
        BY <2>2, PickedIsIn
      <3>2. s \ {Picked(s)} \in SUBSET T /\ s \ {Picked(s)} # T
        BY <3>1
      <3>3. k[s \ {Picked(s)}] = V(s \ {Picked(s)})
        BY <3>2
      <3>4. CASE s = T
        BY <2>2, <3>3, <3>4
      <3>5. CASE s # T
        BY <1>5, <2>2, <3>3, <3>5
      <3> QED
        BY <3>4, <3>5
    <2> QED
      BY <2>1, <2>2
  <1>8. Sums(f, T, k)
    <2>1. k = [s \in SUBSET T |-> k[s]]
      OBVIOUS
    <2> HIDE DEF k
    <2> QED
      BY <1>7, <2>1 DEF Sums
  <1> HIDE DEF k
  <1> QED
    BY <1>8

LEMMA SumEmpty ==
    ASSUME NEW f
    PROVE  SumFunctionOnSet(f, {}) = 0
  <1> DEFINE g == CHOOSE h : Sums(f, {}, h)
  <1>1. Sums(f, {}, g)
    BY SumsExist, FS_EmptySet
  <1>2. SumFunctionOnSet(f, {}) = g[{}]
    BY SumIsChosen
  <1> HIDE DEF g
  <1> QED
    BY <1>1, <1>2 DEF Sums

LEMMA SumPicked ==
    ASSUME NEW f, NEW S, IsFiniteSet(S), S # {}
    PROVE  SumFunctionOnSet(f, S)
               = f[Picked(S)] + SumFunctionOnSet(f, S \ {Picked(S)})
  <1> DEFINE T == S \ {Picked(S)}
             g == CHOOSE h : Sums(f, S, h)
             t == CHOOSE h : Sums(f, T, h)
  <1>1. IsFiniteSet(T) /\ T \in SUBSET S
    BY FS_Subset
  <1>2. Sums(f, S, g) /\ Sums(f, T, t)
    BY <1>1, SumsExist
  <1>3. SumFunctionOnSet(f, S) = g[S] /\ SumFunctionOnSet(f, T) = t[T]
    BY SumIsChosen
  <1>4. t[T] = g[T]
    <2>1. \A s \in SUBSET T : t[s] = g[s]
      <3> HIDE DEF g, t, T
      <3> QED
        BY <1>1, <1>2, SumsUnique
    <2> QED
      BY <2>1
  <1> HIDE DEF g, t
  <1>5. g[S] = f[Picked(S)] + g[T]
    BY <1>2 DEF Sums
  <1> QED
    BY <1>3, <1>4, <1>5

\* A fold of numbers is a number.
LEMMA SumType ==
    ASSUME NEW D, NEW f \in [D -> Nat], NEW S \in SUBSET D, IsFiniteSet(S)
    PROVE  SumFunctionOnSet(f, S) \in Nat
  <1> DEFINE Bad == {s \in SUBSET S : SumFunctionOnSet(f, s) \notin Nat}
  <1>1. SUFFICES ASSUME Bad # {} PROVE FALSE
    OBVIOUS
  <1>2. PICK s \in Bad : \A t \in Bad : t \subseteq s => t = s
    <2>1. Bad \in SUBSET (SUBSET S)
      OBVIOUS
    <2> HIDE DEF Bad
    <2> QED
      BY <1>1, <2>1, SmallestSubset
  <1>3. IsFiniteSet(s)
    BY FS_Subset
  <1>4. CASE s = {}
    BY <1>4, SumEmpty
  <1>5. CASE s # {}
    <2>1. Picked(s) \in s
      BY <1>5, PickedIsIn
    <2>2. s \ {Picked(s)} \notin Bad
      BY <1>2, <2>1
    <2>3. SumFunctionOnSet(f, s \ {Picked(s)}) \in Nat /\ f[Picked(s)] \in Nat
      BY <2>1, <2>2
    <2>4. SumFunctionOnSet(f, s) = f[Picked(s)] + SumFunctionOnSet(f, s \ {Picked(s)})
      BY <1>3, <1>5, SumPicked
    <2> QED
      BY <2>3, <2>4
  <1> QED
    BY <1>4, <1>5

\* Any element may be the one a fold takes first.
LEMMA SumRemove ==
    ASSUME NEW D, NEW f \in [D -> Nat], NEW S \in SUBSET D, IsFiniteSet(S),
           NEW x \in S
    PROVE  SumFunctionOnSet(f, S) = f[x] + SumFunctionOnSet(f, S \ {x})
  <1> DEFINE Sum(s) == SumFunctionOnSet(f, s)
             Bad == {s \in SUBSET S : \E y \in s : Sum(s) # f[y] + Sum(s \ {y})}
  <1>1. SUFFICES ASSUME Bad # {} PROVE FALSE
    OBVIOUS
  <1>2. PICK s \in Bad : \A t \in Bad : t \subseteq s => t = s
    <2>1. Bad \in SUBSET (SUBSET S)
      OBVIOUS
    <2> HIDE DEF Bad
    <2> QED
      BY <1>1, <2>1, SmallestSubset
  <1>3. PICK y \in s : Sum(s) # f[y] + Sum(s \ {y})
    OBVIOUS
  <1> DEFINE p == Picked(s)
  <1>4. p \in s /\ IsFiniteSet(s) /\ s \in SUBSET D
    BY PickedIsIn, FS_Subset
  <1>5. Sum(s) = f[p] + Sum(s \ {p})
    BY <1>4, SumPicked
  <1> HIDE DEF Sum, p
  <1>6. p # y
    BY <1>3, <1>5
  <1>7. Sum(s \ {p}) = f[y] + Sum(s \ {p, y})
    <2>1. s \ {p} \notin Bad /\ y \in s \ {p} /\ s \ {p} \in SUBSET S
      BY <1>2, <1>4, <1>6
    <2>2. (s \ {p}) \ {y} = s \ {p, y}
      OBVIOUS
    <2> QED
      BY <2>1, <2>2
  <1>8. Sum(s \ {y}) = f[p] + Sum(s \ {p, y})
    <2>1. s \ {y} \notin Bad /\ p \in s \ {y} /\ s \ {y} \in SUBSET S
      BY <1>2, <1>4, <1>6
    <2>2. (s \ {y}) \ {p} = s \ {p, y}
      OBVIOUS
    <2> QED
      BY <2>1, <2>2
  <1>9. f[p] \in Nat /\ f[y] \in Nat /\ Sum(s \ {p, y}) \in Nat
    <2>1. s \ {p, y} \in SUBSET D /\ IsFiniteSet(s \ {p, y})
      BY <1>4, FS_Subset
    <2> QED
      BY <1>4, <2>1, SumType DEF Sum
  <1> QED
    BY <1>3, <1>5, <1>7, <1>8, <1>9

\* A fold reads the function on its own set only.
LEMMA SumSame ==
    ASSUME NEW f, NEW h, NEW S, IsFiniteSet(S), \A x \in S : f[x] = h[x]
    PROVE  SumFunctionOnSet(f, S) = SumFunctionOnSet(h, S)
  <1> DEFINE Bad == {s \in SUBSET S : SumFunctionOnSet(f, s) # SumFunctionOnSet(h, s)}
  <1>1. SUFFICES ASSUME Bad # {} PROVE FALSE
    OBVIOUS
  <1>2. PICK s \in Bad : \A t \in Bad : t \subseteq s => t = s
    <2>1. Bad \in SUBSET (SUBSET S)
      OBVIOUS
    <2> HIDE DEF Bad
    <2> QED
      BY <1>1, <2>1, SmallestSubset
  <1>3. IsFiniteSet(s) /\ s \in SUBSET S
    BY FS_Subset
  <1>4. s # {}
    BY SumEmpty
  <1>5. Picked(s) \in s
    BY <1>4, PickedIsIn
  <1>6. s \ {Picked(s)} \notin Bad
    BY <1>2, <1>5
  <1>7. SumFunctionOnSet(f, s \ {Picked(s)}) = SumFunctionOnSet(h, s \ {Picked(s)})
    BY <1>3, <1>6
  <1>8. /\ SumFunctionOnSet(f, s) = f[Picked(s)] + SumFunctionOnSet(f, s \ {Picked(s)})
        /\ SumFunctionOnSet(h, s) = h[Picked(s)] + SumFunctionOnSet(h, s \ {Picked(s)})
    BY <1>3, <1>4, SumPicked
  <1> QED
    BY <1>3, <1>5, <1>7, <1>8

\* What changing one entry does to a sum, and that no entry exceeds it.
LEMMA SumExcept ==
    ASSUME NEW D, IsFiniteSet(D), NEW f \in [D -> Nat], NEW k \in D, NEW n \in Nat
    PROVE  /\ SumFunction(f) \in Nat /\ f[k] \in 0..SumFunction(f)
           /\ SumFunction([f EXCEPT ![k] = n]) = SumFunction(f) - f[k] + n
  <1> DEFINE h == [f EXCEPT ![k] = n]
             Rest == SumFunctionOnSet(f, D \ {k})
  <1>1. h \in [D -> Nat] /\ h[k] = n /\ \A x \in D \ {k} : f[x] = h[x]
    OBVIOUS
  <1>2. IsFiniteSet(D \ {k}) /\ D \in SUBSET D /\ D \ {k} \in SUBSET D
    BY FS_Subset
  <1>3. SumFunctionOnSet(h, D \ {k}) = Rest
    <2> HIDE DEF h
    <2> QED
      BY <1>1, <1>2, SumSame
  <1>4. SumFunctionOnSet(f, D) = f[k] + Rest
    BY <1>2, SumRemove
  <1>5. SumFunctionOnSet(h, D) = n + Rest
    <2> HIDE DEF h
    <2> QED
      BY <1>1, <1>2, <1>3, SumRemove
  <1>6. Rest \in Nat /\ f[k] \in Nat
    BY <1>2, SumType
  <1>7. SumFunction(f) = SumFunctionOnSet(f, D) /\ SumFunction(h) = SumFunctionOnSet(h, D)
    BY DEF SumFunction
  <1> HIDE DEF Rest, h
  <1>8. SumFunction(f) \in Nat /\ f[k] \in 0..SumFunction(f)
    BY <1>4, <1>6, <1>7
  <1>9. SumFunction(h) = SumFunction(f) - f[k] + n
    BY <1>4, <1>5, <1>6, <1>7
  <1> QED
    BY <1>8, <1>9 DEF h

LEMMA SumZero ==
    ASSUME NEW D, IsFiniteSet(D)
    PROVE  SumFunction([k \in D |-> 0]) = 0
  <1> DEFINE f == [k \in D |-> 0]
             Bad == {s \in SUBSET D : SumFunctionOnSet(f, s) # 0}
  <1>1. SUFFICES ASSUME Bad # {} PROVE FALSE
    <2>1. SumFunction(f) = SumFunctionOnSet(f, D) /\ D \in SUBSET D
      BY DEF SumFunction
    <2> QED
      BY <2>1
  <1>2. PICK s \in Bad : \A t \in Bad : t \subseteq s => t = s
    <2>1. Bad \in SUBSET (SUBSET D)
      OBVIOUS
    <2> HIDE DEF Bad
    <2> QED
      BY <1>1, <2>1, SmallestSubset
  <1>3. IsFiniteSet(s) /\ s \in SUBSET D
    BY FS_Subset
  <1>4. s # {}
    BY SumEmpty
  <1>5. Picked(s) \in s
    BY <1>4, PickedIsIn
  <1>6. s \ {Picked(s)} \notin Bad
    BY <1>2, <1>5
  <1>7. SumFunctionOnSet(f, s) = f[Picked(s)] + SumFunctionOnSet(f, s \ {Picked(s)})
    BY <1>3, <1>4, SumPicked
  <1> QED
    BY <1>3, <1>5, <1>6, <1>7

----------------------------------------------------------------------------
(* The wallet is an account, when no two executors share a call key.       *)

\* What is on hold for a key is what its row says, and a row holds something.
HoldsArePositive ==
    /\ \A k \in CallKeys : HasReservation(k) <=> reservation[k].credits # 0
    /\ \A e \in Executors :
           pc[e] \in {"reserve_lookup", "reserve_apply"} => estimate[e] # 0

HeldFor == [k \in CallKeys |-> reservation[k].credits]

AInv == TypeOK /\ IInv /\ HoldsArePositive

LEMMA HoldsType == TypeOK => HeldFor \in [CallKeys -> Nat]
  BY DEF TypeOK, Row, HeldFor

\* Only a reservation, a commit or a release writes a reservation row, and only
\* they, a grant and a drain move credits.
LEMMA OtherStepsStutter ==
    ASSUME [Next]_vars,
           \A e \in Executors : ~ReserveApply(e) /\ ~CommitApply(e) /\ ~ReleaseApply(e),
           \A g \in Granters : ~GrantApply(g),
           \A j \in Jobs : ~ExpireDrain(j)
    PROVE  UNCHANGED <<balance, reservation, lifetimeConsumed, expired, lifetimePurchased>>
  <1> USE DEF walletVars, ledgerVars, frameVars, jobVars, history
  <1>1. CASE UNCHANGED vars
    BY <1>1 DEF vars
  <1>2. ASSUME NEW e \in Executors, Reserve(e) \/ Call(e) \/ Commit(e) \/ Release(e)
        PROVE  UNCHANGED <<balance, reservation, lifetimeConsumed, expired, lifetimePurchased>>
    BY <1>2
    DEF Reserve, StartCall, ReserveLookup, ReserveInsufficient, ReserveConflict,
        Call, LLMFails, LLMAnswers, Abandon, Commit, CommitLookup, CommitFind,
        CommitConflict, Release, ReleaseLookup, ReleaseFind, ReleaseConflict,
        FindReservation, Step
  <1>3. ASSUME NEW g \in Granters, Grant(g)
        PROVE  UNCHANGED <<balance, reservation, lifetimeConsumed, expired, lifetimePurchased>>
    BY <1>3 DEF Grant, GrantLookup, GrantConflict
  <1>4. ASSUME NEW j \in Jobs, Expire(j)
        PROVE  UNCHANGED <<balance, reservation, lifetimeConsumed, expired, lifetimePurchased>>
    BY <1>4 DEF Expire, ExpireScan, ExpireInsert, ExpireCrash
  <1>5. ASSUME TwelveMonthsPass \/ \E k \in CallKeys : WindowRolls(k)
        PROVE  UNCHANGED <<balance, reservation, lifetimeConsumed, expired, lifetimePurchased>>
    BY <1>5 DEF TwelveMonthsPass, WindowRolls
  <1> QED
    BY <1>1, <1>2, <1>3, <1>4, <1>5 DEF Next

\* Settling removes the executor's own row whole.
LEMMA SettledRow ==
    ASSUME AInv, NEW e \in Executors, CommitApply(e) \/ ReleaseApply(e)
    PROVE  /\ held[e].credits \in Nat \ {0}
           /\ HeldFor[CallKeyOf[e]] = held[e].credits
           /\ reservation' = [reservation EXCEPT ![CallKeyOf[e]] = NoRow]
  <1>1. CallKeyOf[e] \in CallKeys
    BY WalletAssumption
  <1>2. held[e] = reservation[CallKeyOf[e]] /\ HasReservation(CallKeyOf[e])
    BY DEF AInv, IInv, HeldIsCurrent, CallIsFunded, CommitApply, ReleaseApply
  <1>3. held[e].credits \in Nat \ {0}
    BY <1>1, <1>2 DEF AInv, HoldsArePositive, TypeOK, Row
  <1>4. reservation' = [reservation EXCEPT ![CallKeyOf[e]] = NoRow]
    BY <1>2 DEF CommitApply, ReleaseApply, RemoveRow
  <1> QED
    BY <1>1, <1>2, <1>3, <1>4 DEF HeldFor

LEMMA NextHoldsArePositive ==
    ASSUME AInv, [Next]_vars
    PROVE  HoldsArePositive'
  <1> DEFINE Rows == \A k \in CallKeys : HasReservation(k) <=> reservation[k].credits # 0
  <1>1. Rows'
    <2>1. CASE reservation' = reservation
      BY <2>1 DEF AInv, HoldsArePositive, HasReservation
    <2>2. ASSUME NEW e \in Executors, ReserveApply(e) PROVE Rows'
      <3>1. CallKeyOf[e] \in CallKeys /\ estimate[e] # 0 /\ nextId # 0
        BY <2>2, WalletAssumption DEF AInv, HoldsArePositive, ReserveApply, TypeOK
      <3>2. reservation' = [reservation EXCEPT
                               ![CallKeyOf[e]] = [id |-> nextId, credits |-> estimate[e]]]
        BY <2>2 DEF ReserveApply
      <3> QED
        BY <3>1, <3>2 DEF AInv, HoldsArePositive, HasReservation, TypeOK
    <2>3. ASSUME NEW e \in Executors, CommitApply(e) \/ ReleaseApply(e) PROVE Rows'
      <3>1. reservation' = [reservation EXCEPT ![CallKeyOf[e]] = NoRow]
        BY <2>3, SettledRow
      <3> QED
        BY <3>1, WalletAssumption DEF AInv, HoldsArePositive, HasReservation, TypeOK, NoRow
    <2>4. CASE \A e \in Executors : ~ReserveApply(e) /\ ~CommitApply(e) /\ ~ReleaseApply(e)
      <3>1. ASSUME NEW g \in Granters, GrantApply(g) PROVE reservation' = reservation
        BY <3>1 DEF GrantApply
      <3>2. ASSUME NEW j \in Jobs, ExpireDrain(j) PROVE reservation' = reservation
        BY <3>2 DEF ExpireDrain, ledgerVars
      <3> QED
        BY <2>1, <2>4, <3>1, <3>2, OtherStepsStutter
    <2> QED
      BY <2>2, <2>3, <2>4
  <1>2. ASSUME NEW f \in Executors, pc'[f] \in {"reserve_lookup", "reserve_apply"}
        PROVE  estimate'[f] # 0
    <2> USE DEF walletVars, ledgerVars, frameVars, jobVars, history, Goto, Step
    <2>1. CASE \E c \in Estimates : StartCall(f, c)
      BY <2>1, WalletAssumption DEF StartCall, AInv, TypeOK
    <2>2. CASE ReserveLookup(f)
      BY <2>2 DEF ReserveLookup, AInv, HoldsArePositive, TypeOK
    <2>3. CASE pc'[f] = pc[f] /\ estimate'[f] = estimate[f]
      BY <1>2, <2>3 DEF AInv, HoldsArePositive
    <2>4. ASSUME NEW e \in Executors, Reserve(e), ~ReserveLookup(f),
                 ~\E c \in Estimates : StartCall(f, c)
          PROVE  pc'[f] = pc[f] /\ estimate'[f] = estimate[f]
      BY <1>2, <2>4
      DEF Reserve, StartCall, ReserveLookup, ReserveInsufficient, ReserveConflict,
          ReserveApply, AInv, TypeOK
    <2>5. ASSUME NEW e \in Executors, Call(e) \/ Commit(e) \/ Release(e)
          PROVE  pc'[f] = pc[f] /\ estimate'[f] = estimate[f]
      BY <1>2, <2>5
      DEF Call, LLMFails, LLMAnswers, Abandon, Commit, CommitLookup, CommitFind,
          CommitConflict, CommitApply, Release, ReleaseLookup, ReleaseFind,
          ReleaseConflict, ReleaseApply, FindReservation, AInv, TypeOK
    <2>6. ASSUME \/ \E g \in Granters : Grant(g)
                 \/ \E j \in Jobs : Expire(j)
                 \/ TwelveMonthsPass \/ \E k \in CallKeys : WindowRolls(k)
                 \/ UNCHANGED vars
          PROVE  pc'[f] = pc[f] /\ estimate'[f] = estimate[f]
      BY <2>6
      DEF Grant, GrantLookup, GrantConflict, GrantApply, Expire, ExpireScan,
          ExpireInsert, ExpireDrain, ExpireCrash, TwelveMonthsPass, WindowRolls, vars
    <2> QED
      BY <2>1, <2>2, <2>3, <2>4, <2>5, <2>6 DEF Next
  <1> QED
    BY <1>1, <1>2 DEF HoldsArePositive

OnHold == SumFunction(HeldFor)

LEMMA ReserveHolds ==
    ASSUME AInv, IsFiniteSet(CallKeys), NEW e \in Executors, ReserveApply(e)
    PROVE  Account!Hold
  <1> DEFINE k == CallKeyOf[e]
             n == estimate[e]
  <1>1. k \in CallKeys /\ n \in Nat /\ n # 0 /\ balance \in Nat /\ n <= balance
    BY WalletAssumption DEF AInv, HoldsArePositive, ReserveApply, TypeOK
  <1>2. HeldFor[k] = 0 /\ HeldFor \in [CallKeys -> Nat]
    BY <1>1, HoldsType DEF AInv, HoldsArePositive, ReserveApply, HeldFor
  <1>3. HeldFor' = [HeldFor EXCEPT ![k] = n]
    BY <1>1 DEF ReserveApply, HeldFor, AInv, TypeOK
  <1>4. OnHold \in Nat /\ OnHold' = OnHold + n
    <2> HIDE DEF k, n
    <2>1. SumFunction([HeldFor EXCEPT ![k] = n]) = SumFunction(HeldFor) - HeldFor[k] + n
      BY <1>1, <1>2, SumExcept
    <2>2. SumFunction(HeldFor) \in Nat
      BY <1>1, <1>2, SumExcept
    <2> QED
      BY <1>1, <1>2, <1>3, <2>1, <2>2 DEF OnHold
  <1>5. balance' = balance - n
    BY DEF ReserveApply
  <1>6. UNCHANGED <<lifetimeConsumed, expired, lifetimePurchased>>
    BY DEF ReserveApply
  <1> QED
    BY <1>1, <1>4, <1>5, <1>6 DEF Account!Hold, OnHold, HeldFor

\* Removing a row takes what it held from what is on hold.
LEMMA SettledSum ==
    ASSUME AInv, IsFiniteSet(CallKeys), NEW e \in Executors,
           CommitApply(e) \/ ReleaseApply(e)
    PROVE  held[e].credits \in 1..OnHold /\ OnHold \in Nat
           /\ OnHold' = OnHold - held[e].credits
  <1> DEFINE k == CallKeyOf[e]
  <1>1. k \in CallKeys /\ HeldFor \in [CallKeys -> Nat]
    BY WalletAssumption, HoldsType DEF AInv
  <1>2. /\ held[e].credits \in Nat \ {0} /\ HeldFor[k] = held[e].credits
        /\ reservation' = [reservation EXCEPT ![k] = NoRow]
    BY SettledRow
  <1>3. HeldFor' = [HeldFor EXCEPT ![k] = 0]
    BY <1>1, <1>2 DEF HeldFor, NoRow, AInv, TypeOK
  <1> HIDE DEF k
  <1>4. /\ OnHold \in Nat /\ HeldFor[k] \in 0..OnHold
        /\ SumFunction([HeldFor EXCEPT ![k] = 0]) = OnHold - HeldFor[k] + 0
    <2>1. 0 \in Nat
      OBVIOUS
    <2> QED
      BY <1>1, <2>1, SumExcept DEF OnHold
  <1> QED
    BY <1>2, <1>3, <1>4 DEF OnHold

LEMMA CommitSettles ==
    ASSUME AInv, IsFiniteSet(CallKeys), NEW e \in Executors, CommitApply(e)
    PROVE  Account!Settle
  <1> DEFINE h == held[e].credits
             taken == Minimum(actual[e], h + balance)
  <1>1. /\ actual[e] \in Nat /\ h \in Nat /\ balance \in Nat /\ lifetimeConsumed \in Nat
    BY DEF AInv, TypeOK, Row
  <1>2. h \in 1..OnHold /\ OnHold \in Nat /\ OnHold' = OnHold - h
    BY SettledSum
  <1>3. /\ balance' = balance - Minimum(actual[e] - h, balance)
        /\ lifetimeConsumed' = lifetimeConsumed + taken
        /\ UNCHANGED <<expired, lifetimePurchased>>
    BY DEF CommitApply, Surplus
  <1>4. /\ taken \in 0..(h + balance)
        /\ balance' = balance + h - taken
    <2> HIDE DEF h
    <2> QED
      BY <1>1, <1>3 DEF Minimum
  <1> HIDE DEF h, taken
  <1> QED
    BY <1>2, <1>3, <1>4 DEF Account!Settle, OnHold, HeldFor

LEMMA ReleaseSettles ==
    ASSUME AInv, IsFiniteSet(CallKeys), NEW e \in Executors, ReleaseApply(e)
    PROVE  Account!Settle
  <1> DEFINE h == held[e].credits
  <1>1. h \in Nat /\ balance \in Nat /\ lifetimeConsumed \in Nat
    BY DEF AInv, TypeOK, Row
  <1>2. h \in 1..OnHold /\ OnHold \in Nat /\ OnHold' = OnHold - h
    BY SettledSum
  <1>3. /\ balance' = balance + h
        /\ UNCHANGED <<lifetimeConsumed, expired, lifetimePurchased>>
    BY DEF ReleaseApply
  <1> HIDE DEF h
  <1>4. 0 \in 0..(h + balance) /\ balance' = balance + h - 0
        /\ lifetimeConsumed' = lifetimeConsumed + 0
    BY <1>1, <1>3
  <1> QED
    BY <1>2, <1>3, <1>4 DEF Account!Settle, OnHold, HeldFor

LEMMA NextAccount ==
    ASSUME AInv, IsFiniteSet(CallKeys), [Next]_vars
    PROVE  [Account!Next]_(Account!accountVars)
  <1>1. ASSUME NEW e \in Executors, ReserveApply(e) PROVE Account!Next
    BY <1>1, ReserveHolds DEF Account!Next
  <1>2. ASSUME NEW e \in Executors, CommitApply(e) \/ ReleaseApply(e) PROVE Account!Next
    BY <1>2, CommitSettles, ReleaseSettles DEF Account!Next
  <1>3. ASSUME NEW g \in Granters, GrantApply(g) PROVE Account!Next
    <2>1. balance \in Nat /\ lifetimePurchased \in Nat /\ PackCredits \in Nat \ {0}
      BY WalletAssumption DEF AInv, TypeOK
    <2>2. OnHold' = OnHold
      BY <1>3 DEF GrantApply, OnHold, HeldFor
    <2>3. /\ lifetimePurchased' > lifetimePurchased
          /\ balance' = balance + (lifetimePurchased' - lifetimePurchased)
          /\ UNCHANGED <<lifetimeConsumed, expired>>
      BY <1>3, <2>1 DEF GrantApply, history
    <2>4. Account!Deposit
      BY <2>2, <2>3 DEF Account!Deposit, OnHold, HeldFor
    <2> QED
      BY <2>4 DEF Account!Next
  <1>4. ASSUME NEW j \in Jobs, ExpireDrain(j)
        PROVE  [Account!Next]_(Account!accountVars)
    <2>1. CASE balance = seen[j].credits
      BY <1>4, <2>1 DEF ExpireDrain, ledgerVars, Account!Next, Account!Expire
    <2>2. CASE balance # seen[j].credits
      BY <1>4, <2>2 DEF ExpireDrain, ledgerVars, Account!accountVars
    <2> QED
      BY <2>1, <2>2
  <1>5. ASSUME UNCHANGED <<balance, reservation, lifetimeConsumed, expired, lifetimePurchased>>
        PROVE  UNCHANGED Account!accountVars
    BY <1>5 DEF Account!accountVars
  <1> QED
    BY <1>1, <1>2, <1>3, <1>4, <1>5, OtherStepsStutter

\* With one executor per call key, every step of the wallet is a deposit, a hold, a
\* settlement that takes at most its hold and the balance, an expiry, or a stutter.
THEOREM ImplementsAccountHolds ==
    ASSUME ExclusiveKeys, IsFiniteSet(CallKeys)
    PROVE  Spec => ImplementsAccount
  <1>1. Init => AInv /\ Account!Init
    <2> SUFFICES ASSUME Init PROVE AInv /\ Account!Init
      OBVIOUS
    <2>1. AInv
      BY InitTypeOK DEF Init, AInv, IInv, Conservation, CallIsFunded, HeldIsCurrent,
         HoldsArePositive, HasReservation, NoRow
    <2>2. [k \in CallKeys |-> reservation[k].credits] = [k \in CallKeys |-> 0]
      BY DEF Init, NoRow
    <2>3. Account!Init
      BY <2>2, SumZero DEF Init, Account!Init
    <2> QED
      BY <2>1, <2>3
  <1>2. AInv /\ [Next]_vars => AInv'
    BY NextTypeOK, NextIInv, NextHoldsArePositive DEF AInv
  <1>3. AInv /\ [Next]_vars => [Account!Next]_(Account!accountVars)
    BY NextAccount
  <1> QED
    BY <1>1, <1>2, <1>3, PTL DEF Spec, ImplementsAccount, Account!Spec
=============================================================================
