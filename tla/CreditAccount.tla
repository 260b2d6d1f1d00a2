--------------------------- MODULE CreditAccount ---------------------------
(***************************************************************************)
(* What the credit wallet promises, with nothing of how: credits are       *)
(* deposited, set aside for a call, settled at what the call really took   *)
(* (the rest goes back), or expire.  They are never made or lost.          *)
(* CreditWallet implements this while no two executors share a call key.   *)
(***************************************************************************)
EXTENDS Integers

VARIABLES
    available,   \* credits a call may be given
    onHold,      \* set aside for calls in flight
    spent,       \* taken for good by settled calls
    lapsed,      \* expired
    deposited    \* paid in

accountVars == <<available, onHold, spent, lapsed, deposited>>

Init == available = 0 /\ onHold = 0 /\ spent = 0 /\ lapsed = 0 /\ deposited = 0

Deposit ==
    /\ deposited' > deposited
    /\ available' = available + (deposited' - deposited)
    /\ UNCHANGED <<onHold, spent, lapsed>>

\* Only what is available can be set aside.
Hold ==
    /\ \E n \in 1..available : available' = available - n /\ onHold' = onHold + n
    /\ UNCHANGED <<spent, lapsed, deposited>>

\* A settled call takes at most its hold and whatever is available.
Settle ==
    /\ \E h \in 1..onHold : \E taken \in 0..(h + available) :
          /\ onHold' = onHold - h
          /\ spent' = spent + taken
          /\ available' = available + h - taken
    /\ UNCHANGED <<lapsed, deposited>>

Expire ==
    /\ available' = 0
    /\ lapsed' = lapsed + available
    /\ UNCHANGED <<onHold, spent, deposited>>

Next == Deposit \/ Hold \/ Settle \/ Expire

Spec == Init /\ [][Next]_accountVars
=============================================================================
