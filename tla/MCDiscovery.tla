----------------------------- MODULE MCDiscovery -----------------------------
(***************************************************************************)
(* One key, its traffic and everybody who asks for its models.             *)
(***************************************************************************)
EXTENDS Discovery, TLC

MCEscalation      == [t \in 0..MaxTier |-> t + 1]
MCConfiguredLimit == [k \in Key |-> [a \in Axis |-> NoLimit]]
MCWindowTicks     == [a \in Axis |-> 1]
MCBackoff         == <<1, 2>>

MCSaved           == -1..CooldownSeconds

(* Windows that run on and windows that have ended.  The run counts no     *)
(* requests: a limit would only postpone what it is about, and what limits *)
(* do is the other run's.                                                  *)
MCSavedBudget     == {b \in Budget : \A a \in Axis : b[a].limit = NoLimit /\ b[a].source = "none"}

NoneOnly  == {NoLimit}
NoneOrOne == {NoLimit, 1}

=============================================================================
