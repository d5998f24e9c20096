--------------------------- MODULE MCModelRouter ----------------------------
(* Instances of ModelRouter for TLC. *)
EXTENDS ModelRouter, TLC

CONSTANTS p1, p2, k1, k2, k3, x1

(* A provider with two free keys and a paid one, and another with a free key. *)
MCOwner == k1 :> p1 @@ x1 :> p1 @@ k2 :> p1 @@ k3 :> p2

=============================================================================
