------------------------------ MODULE MCKeyPool ------------------------------
(***************************************************************************)
(* Values for the constants of KeyPool and the runs made of them.  One     *)
(* tick stands for the shortest escalation step; what matters is the order *)
(* of the durations, not their size.                                       *)
(***************************************************************************)
EXTENDS KeyPool, TLC

CONSTANTS RpmLimit, RpdLimit    \* the configured limits of every key

MCEscalation      == [t \in 0..MaxTier |-> t + 1]
MCConfiguredLimit == [k \in Key |-> [a \in Axis |-> IF a = "rpm" THEN RpmLimit
                                                                 ELSE RpdLimit]]
MCWindowTicks     == [a \in Axis |-> IF a = "rpm" THEN 2 ELSE 4]

(* Sets with None in them; a configuration file has no negative numbers.   *)
NoneOnly    == {NoLimit}
NoneOrOne   == {NoLimit, 1}
NoneOrZero  == {NoLimit, 0}
NoneToOne   == {NoLimit, 0, 1}

Symmetry == Permutations(Caller)

=============================================================================
