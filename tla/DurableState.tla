---------------------------- MODULE DurableState -----------------------------
(***************************************************************************)
(* What saving is for: the running state moves on, a save makes some state *)
(* between the last saved one and the present one the saved one, and a     *)
(* restart goes back to the saved state and never to anything else.        *)
(*                                                                         *)
(* A state has parts; of each part only the number of its changes counts.  *)
(***************************************************************************)
EXTENDS Naturals

CONSTANTS Part

VARIABLES
    live,       \* Part -> changes made so far
    stored      \* Part -> changes that are saved

vars == <<live, stored>>

AtMost(a, b) == \A x \in Part : a[x] <= b[x]

Init ==
    /\ live = [x \in Part |-> 0]
    /\ stored = live

Change(x) ==
    /\ live' = [live EXCEPT ![x] = @ + 1]
    /\ UNCHANGED stored

Save ==
    /\ stored' \in [Part -> Nat]
    /\ AtMost(stored, stored') /\ AtMost(stored', live)
    /\ UNCHANGED live

Restart ==
    /\ live' = stored
    /\ UNCHANGED stored

Next == Save \/ Restart \/ \E x \in Part : Change(x)

Spec == Init /\ [][Next]_vars

=============================================================================
