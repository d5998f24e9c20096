------------------------------ MODULE Admission ------------------------------
(***************************************************************************)
(* What a pool of credentials owes its provider's quota, whatever it does  *)
(* inside: a metered key is admitted at most Limit times in a window, and  *)
(* an admission may put the key on hold, during which nobody else is       *)
(* admitted until the hold is settled or its time has passed.              *)
(***************************************************************************)
EXTENDS Integers

CONSTANTS
    Key,
    Metered,        \* the keys that have a limit
    Limit,          \* Metered -> admissions in a window
    HoldTime        \* how long an unsettled hold lasts

VARIABLES
    used,           \* Metered -> admissions in this window
    hold            \* Key -> time left of its hold; 0: none

Init ==
    /\ used = [k \in Metered |-> 0]
    /\ hold = [k \in Key |-> 0]

Admit(k) ==
    /\ hold[k] = 0
    /\ k \in Metered => used[k] < Limit[k]
    /\ used' = [j \in Metered |-> IF j = k THEN used[j] + 1 ELSE used[j]]
    /\ \E t \in {0, HoldTime} : hold' = [hold EXCEPT ![k] = t]

(* Somebody has heard from the provider about k.                           *)
Settle(k) ==
    /\ hold' = [hold EXCEPT ![k] = 0]
    /\ UNCHANGED used

(* Time passes; it may end the window.                                     *)
Tick ==
    /\ hold' = [k \in Key |-> IF hold[k] > 0 THEN hold[k] - 1 ELSE 0]
    /\ \/ UNCHANGED used
       \/ used' = [k \in Metered |-> 0]

(* The pool is replaced.                                                   *)
Replace ==
    /\ used' = [k \in Metered |-> 0]
    /\ hold' = [k \in Key |-> 0]

Next ==
    \/ \E k \in Key : Admit(k) \/ Settle(k)
    \/ Tick
    \/ Replace

Spec == Init /\ [][Next]_<<used, hold>>

=============================================================================
