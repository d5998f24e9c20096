------------------------------ MODULE KeyStates ------------------------------
(***************************************************************************)
(* The availability record of one credential, and what each operation of   *)
(* KeyPool (src/src/keyhub/mod.rs) does to it.  These are functions of the *)
(* record alone; KeyPool.tla turns them into actions on a pool.            *)
(*                                                                         *)
(* Deadlines.  The code stores `cooldown_until` as an absolute second and  *)
(* only ever compares it with `now`.  Here a deadline is the time that is  *)
(* left: `Some(now + d)` is d, an expired deadline is 0, `None` is         *)
(* NoDeadline, and the passage of a tick ages it (Age).                    *)
(*                                                                         *)
(* Left out: timestamps, `next_probe_at`, the textual reasons and          *)
(* `total_fail_count`.  The code writes them and decides nothing by them   *)
(* in this component.  Of `last_error_status` only the test                *)
(* `== Some(429)` is ever made, so it is a Boolean.                        *)
(***************************************************************************)
EXTENDS Integers

CONSTANTS
    Model,              \* model identifiers a provider may advertise
    CooldownSeconds,    \* routing.cooldown_seconds, in ticks
    FailThreshold,      \* routing.fail_threshold
    MaxTier,            \* last index of COOLDOWN_ESCALATION_S
    Escalation,         \* COOLDOWN_ESCALATION_S : tier -> ticks
    RealModelCooldown,  \* REAL_MODEL_RECOVERY_COOLDOWN_S
    FailCap             \* bound: failCount saturates here (see KeyStateAssumption)

NoDeadline == -1    \* None, for cooldown_until
NoRetry    == -1    \* None, for retry_after_seconds

(* No decision tells two failure counts apart once both have passed the    *)
(* threshold and the last escalation tier, so a count that saturates at or *)
(* above them behaves as the code's counter does.                          *)
ASSUME KeyStateAssumption ==
    /\ CooldownSeconds \in Nat
    /\ FailThreshold \in Nat
    /\ MaxTier \in Nat
    /\ Escalation \in [0..MaxTier -> Nat]
    /\ RealModelCooldown \in Nat
    /\ FailCap \in Nat
    /\ FailCap >= FailThreshold
    /\ FailCap >= MaxTier

Status == {"available", "probing", "rate_limited", "cooldown", "disabled"}

Deadline == Nat \cup {NoDeadline}
Retry    == Nat \cup {NoRetry}

KeyState ==
    [status    : Status,
     failCount : 0..FailCap,
     cooldown  : Deadline,
     last429   : BOOLEAN,
     models    : SUBSET Model]

FreshKey ==
    [status    |-> "available",
     failCount |-> 0,
     cooldown  |-> NoDeadline,
     last429   |-> FALSE,
     models    |-> {}]

(* The two states in which a key waits for its deadline.                   *)
Cooling(s) == s.status \in {"rate_limited", "cooldown"}

(* The status half of is_request_selectable.                               *)
Admissible(s) == s.status \in {"available", "probing"}

Bump(n) == IF n < FailCap THEN n + 1 ELSE n

-----------------------------------------------------------------------------
Age(s) == [s EXCEPT !.cooldown = IF @ > 0 THEN @ - 1 ELSE @]

(* Mutant of Recover: only a cooldown expires.                             *)
RecoverCooldownOnly(s) ==
    IF s.cooldown = 0 /\ s.status = "cooldown"
    THEN [s EXCEPT !.status = "available", !.failCount = 0, !.cooldown = NoDeadline]
    ELSE s

(* An expired cooldown forgets its failures and is simply over; an expired *)
(* rate limit keeps its failure count and only earns a probe.              *)
Recover(s) ==
    IF s.cooldown = 0 /\ s.status = "cooldown"
    THEN [s EXCEPT !.status = "available", !.failCount = 0, !.cooldown = NoDeadline]
    ELSE IF s.cooldown = 0 /\ s.status = "rate_limited"
    THEN [s EXCEPT !.status = "probing", !.cooldown = NoDeadline]
    ELSE s

(* Mutant of BeginProbe: the probing key stays selectable.                 *)
BeginProbeWithoutParking(s) == s

(* A probing key is parked while its one probe is out.                     *)
BeginProbe(s) ==
    IF s.status = "probing"
    THEN [s EXCEPT !.status = "cooldown", !.cooldown = CooldownSeconds]
    ELSE s

PromotedBySuccess(s) ==
    \/ s.status \in {"probing", "rate_limited", "disabled"}
    \/ s.status = "cooldown" /\ s.last429

(* Mutant of Succeed: the deadline is not cleared.                         *)
SucceedKeepsDeadline(s) ==
    IF PromotedBySuccess(s)
    THEN [s EXCEPT !.failCount = 0, !.status = "available"]
    ELSE [s EXCEPT !.failCount = 0]

Succeed(s) ==
    IF PromotedBySuccess(s)
    THEN [s EXCEPT !.failCount = 0, !.status = "available",
                   !.cooldown = NoDeadline]
    ELSE [s EXCEPT !.failCount = 0]

(* 401, or 403 with the wording of a bad credential.                       *)
FailAuth(s) == [s EXCEPT !.status = "disabled", !.last429 = FALSE]

Tier(s) == IF s.failCount < MaxTier THEN s.failCount ELSE MaxTier

(* 429 outside the chat loop: the tier is read before the count moves.     *)
FailRateLimited(s, retry) ==
    [s EXCEPT !.status = "rate_limited",
              !.cooldown = IF retry = NoRetry THEN Escalation[Tier(s)] ELSE retry,
              !.failCount = Bump(@),
              !.last429 = TRUE]

(* record_general_failure: whatever the key's status was, the threshold    *)
(* puts it in cooldown.                                                    *)
FailGeneral(s) ==
    LET n == Bump(s.failCount) IN
    IF n >= FailThreshold
    THEN [s EXCEPT !.failCount = n, !.last429 = FALSE,
                   !.status = "cooldown", !.cooldown = CooldownSeconds]
    ELSE [s EXCEPT !.failCount = n, !.last429 = FALSE]

ForceCooldown(s) ==
    [s EXCEPT !.failCount = Bump(@), !.last429 = FALSE,
              !.status = "cooldown", !.cooldown = CooldownSeconds]

(* "real_model_unavailable": never a 429, which is always classified as    *)
(* "real_model_rate_limited".  A Retry-After of zero counts as none.       *)
FailRealModelUnavailable(s, retry) ==
    [s EXCEPT !.failCount = Bump(@), !.last429 = FALSE,
              !.status = "rate_limited",
              !.cooldown = IF retry > 0 THEN retry ELSE RealModelCooldown]

(* "real_model_rate_limited": the status stays, the deadline does not.     *)
FailRealModelRateLimited(s) ==
    [s EXCEPT !.failCount = Bump(@), !.last429 = TRUE,
              !.cooldown = NoDeadline]

RestoreByHand(s) ==
    [s EXCEPT !.status = "available", !.failCount = 0, !.cooldown = NoDeadline]

(* update_models: a disabled key that can list models is taken back.       *)
WithModels(s, ms) ==
    IF s.status = "disabled" /\ ms # {}
    THEN [s EXCEPT !.models = ms, !.status = "available", !.failCount = 0,
                   !.cooldown = NoDeadline]
    ELSE [s EXCEPT !.models = ms]

=============================================================================
