------------------------------- MODULE KeyPool -------------------------------
(***************************************************************************)
(* The key pool of one provider (KeyPool in src/src/keyhub/mod.rs) and the *)
(* callers that use it concurrently: chat requests, which reserve a key,   *)
(* wait for the upstream and report; and the operator's endpoints, which   *)
(* act on a key nobody reserved.                                           *)
(*                                                                         *)
(* Every method of KeyPool holds the write lock on `keys` from its first   *)
(* line to its last, so a method is one action.  What is not atomic is the *)
(* caller: between its reservation and its report it holds no lock, and    *)
(* the actions of everyone else and of the clock fall in between.          *)
(***************************************************************************)
EXTENDS KeyStates, RateBudgets

CONSTANTS
    Key,                \* the configured credentials
    Caller,             \* concurrent requests
    NoKey,              \* a caller that holds no key
    ConfiguredLimit,    \* Key -> Axis -> Limit: rpm_limit, rpd_limit of the config
    WindowTicks,        \* Axis -> ticks in its window (60 s, 86400 s)
    RetryAfter,         \* the Retry-After values an upstream may send, and NoRetry
    HeaderLimit,        \* X-RateLimit-Limit values, and NoLimit
    HeaderRemaining,    \* X-RateLimit-Remaining values, and NoLimit
    OfficialLimit       \* request limits a provider's key API may report

ASSUME PoolAssumption ==
    /\ NoKey \notin Key
    /\ ConfiguredLimit \in [Key -> [Axis -> Limit]]
    /\ WindowTicks \in [Axis -> Nat \ {0}]
    /\ RetryAfter \subseteq Retry
    /\ HeaderLimit \subseteq Limit
    /\ HeaderRemaining \subseteq Limit
    /\ OfficialLimit \subseteq 0..CountCap

VARIABLES
    keys,               \* Key -> KeyState
    budget,             \* Key -> Budget
    clock,              \* Axis -> ticks since the window of the axis began
    pc,                 \* Caller -> where the caller is
    holds,              \* Caller -> the key it reserved
    granted,            \* history: Key -> Axis -> reservations granted in the window
    probe               \* history: Key -> ticks a probe nobody answered yet has left

poolVars   == <<keys, budget>>
callerVars == <<pc, holds>>
history    == <<granted, probe>>
vars       == <<poolVars, clock, callerVars, history>>

TypeOK ==
    /\ keys \in [Key -> KeyState]
    /\ budget \in [Key -> Budget]
    /\ clock \in [Axis -> Nat]
    /\ pc \in [Caller -> {"idle", "sent", "learn"}]
    /\ holds \in [Caller -> Key \cup {NoKey}]
    /\ granted \in [Key -> [Axis -> 0..CountCap]]
    /\ probe \in [Key -> 0..CooldownSeconds]

(* KeyPool::new                                                            *)
FreshBudget(k) == [a \in Axis |-> FreshEntry(ConfiguredLimit[k][a])]

Init ==
    /\ keys = [k \in Key |-> FreshKey]
    /\ budget = [k \in Key |-> FreshBudget(k)]
    /\ clock = [a \in Axis |-> 0]
    /\ pc = [c \in Caller |-> "idle"]
    /\ holds = [c \in Caller |-> NoKey]
    /\ granted = [k \in Key |-> [a \in Axis |-> 0]]
    /\ probe = [k \in Key |-> 0]

-----------------------------------------------------------------------------
(* Building blocks.                                                        *)

Recovered == [k \in Key |-> Recover(keys[k])]

(* is_request_selectable, after the caller has reset the windows           *)
Selectable(s, b) == Admissible(s) /\ ~IsRateLimited(b)

(* A report about key k: its record becomes s and its probe is answered.   *)
Settle(k, s) ==
    /\ keys' = [keys EXCEPT ![k] = s]
    /\ probe' = [probe EXCEPT ![k] = 0]

-----------------------------------------------------------------------------
(* reserve_key.  The check is made again under the lock, on what the key   *)
(* is now, not on what it was when the candidate list was built.           *)

Reserve(c, k) ==
    LET s == Recover(keys[k])
        b == ResetWindows(budget[k])
    IN  /\ pc[c] = "idle"
        /\ Selectable(s, b)
        /\ keys' = [Recovered EXCEPT ![k] = BeginProbe(s)]
        /\ budget' = [budget EXCEPT ![k] = Charge(b)]
        /\ pc' = [pc EXCEPT ![c] = "sent"]
        /\ holds' = [holds EXCEPT ![c] = k]
        /\ granted' = [granted EXCEPT ![k] = [a \in Axis |-> SatAdd(@[a], 1)]]
        /\ probe' = IF s.status = "probing"
                    THEN [probe EXCEPT ![k] = CooldownSeconds] ELSE probe
        /\ UNCHANGED clock

ReserveRefused(c, k) ==
    LET b == ResetWindows(budget[k])
    IN  /\ pc[c] = "idle"
        /\ ~Selectable(Recover(keys[k]), b)
        /\ keys' = Recovered
        /\ budget' = [budget EXCEPT ![k] = b]
        /\ UNCHANGED <<clock, callerVars, history>>

-----------------------------------------------------------------------------
(* What a report does to the pool.                                         *)

(* report_reserved_success                                                 *)
ReservedSuccess(k) ==
    /\ Settle(k, Succeed(keys[k]))
    /\ budget' = [budget EXCEPT ![k] = ResetWindows(@)]

(* report_success: for a request nobody reserved, counted only now         *)
UnreservedSuccess(k) ==
    /\ Settle(k, Succeed(keys[k]))
    /\ budget' = [budget EXCEPT ![k] = Charge(ResetWindows(@))]

(* report_failure_with_retry_after, 401 and credential 403                 *)
AuthFailure(k) ==
    /\ Settle(k, FailAuth(keys[k]))
    /\ UNCHANGED budget

(* report_failure_with_retry_after, 429                                    *)
RateLimitFailure(k) ==
    \E retry \in RetryAfter :
        /\ Settle(k, FailRateLimited(keys[k], retry))
        /\ budget' = [budget EXCEPT ![k] = LearnFrom429(@, retry)]

(* report_transient_failure                                                *)
TransientFailure(k) ==
    /\ Settle(k, FailGeneral(keys[k]))
    /\ UNCHANGED budget

(* force_transient_cooldown                                                *)
StreamBodyFailure(k) ==
    /\ Settle(k, ForceCooldown(keys[k]))
    /\ UNCHANGED budget

(* report_real_model_failure                                               *)
RealModelUnavailable(k) ==
    \E retry \in RetryAfter :
        /\ Settle(k, FailRealModelUnavailable(keys[k], retry))
        /\ UNCHANGED budget

RealModelRateLimited(k) ==
    /\ Settle(k, FailRealModelRateLimited(keys[k]))
    /\ UNCHANGED budget

(* report_gateway_error, for an error that is attributable to the key      *)
GatewayError(k) == AuthFailure(k) \/ RateLimitFailure(k) \/ TransientFailure(k)

-----------------------------------------------------------------------------
(* The rest of a request's life.                                           *)

Release(c, to) ==
    /\ pc' = [pc EXCEPT ![c] = to]
    /\ holds' = [holds EXCEPT ![c] = IF to = "idle" THEN NoKey ELSE @]
    /\ UNCHANGED <<clock, granted>>

(* An answer; the rate headers of a chat answer are read afterwards.       *)
Answered(c) ==
    /\ pc[c] = "sent"
    /\ ReservedSuccess(holds[c])
    /\ \E to \in {"idle", "learn"} : Release(c, to)

(* update_observed_limits                                                  *)
ReadHeaders(c) ==
    /\ pc[c] = "learn"
    /\ \E limit \in HeaderLimit, remaining \in HeaderRemaining :
          budget' = [budget EXCEPT ![holds[c]] = LearnFromHeaders(@, limit, remaining)]
    /\ Release(c, "idle")
    /\ UNCHANGED <<keys, probe>>

Failed(c) ==
    /\ pc[c] = "sent"
    /\ \/ GatewayError(holds[c])
       \/ StreamBodyFailure(holds[c])
       \/ RealModelUnavailable(holds[c])
       \/ RealModelRateLimited(holds[c])
    /\ Release(c, "idle")

(* The request ends and nobody reports: the gateway's deadline cancels it, *)
(* the client drops the stream, or the error is not attributable to a key. *)
Abandoned(c) ==
    /\ pc[c] = "sent"
    /\ Release(c, "idle")
    /\ UNCHANGED <<poolVars, probe>>

-----------------------------------------------------------------------------
(* Selection and inspection.                                               *)

(* free_candidate_infos and its siblings once the provider's gate let them *)
(* through (ProviderGate), available_count, discovery_keys,                *)
(* model_probe_keys, acquire_key: all keys, and what they return is stale  *)
(* as soon as the lock is released.                                        *)
Survey ==
    /\ keys' = Recovered
    /\ budget' = [k \in Key |-> ResetWindows(budget[k])]
    /\ UNCHANGED <<clock, callerVars, history>>

(* snapshot: taken every 30 s by the background task                       *)
Snapshot ==
    /\ keys' = Recovered
    /\ UNCHANGED <<budget, clock, callerVars, history>>

-----------------------------------------------------------------------------
(* The operator and the background jobs.                                   *)

(* admin_provider_key_validate reports on a key it never reserved.         *)
Validate(k) ==
    /\ UnreservedSuccess(k) \/ GatewayError(k)
    /\ UNCHANGED <<clock, callerVars, granted>>

(* restore_key_by_id                                                       *)
RestoreKey(k) ==
    /\ Settle(k, RestoreByHand(keys[k]))
    /\ UNCHANGED <<budget, clock, callerVars, granted>>

(* update_models                                                           *)
UpdateModels(k) ==
    /\ \E ms \in SUBSET Model :
          keys' = [keys EXCEPT ![k] = WithModels(@, ms)]
    /\ UNCHANGED <<budget, clock, callerVars, history>>

(* apply_request_limits, from the provider's key API; an axis it says      *)
(* nothing about has the value zero, which set_request_limit ignores.      *)
ApplyOfficialLimits(k) ==
    /\ \E value \in [Axis -> OfficialLimit \cup {0}] :
          budget' = [budget EXCEPT ![k] =
                        [a \in Axis |-> SetLimit(@[a], value[a], "official_api")]]
    /\ UNCHANGED <<keys, clock, callerVars, history>>

(* register_provider on a provider that exists: a new pool takes its name. *)
(* Requests in flight report to the new pool.                              *)
Register ==
    /\ keys' = [k \in Key |-> FreshKey]
    /\ budget' = [k \in Key |-> FreshBudget(k)]
    /\ granted' = [k \in Key |-> [a \in Axis |-> 0]]
    /\ probe' = [k \in Key |-> 0]
    /\ UNCHANGED <<clock, callerVars>>

-----------------------------------------------------------------------------
(* One tick.  Windows end where their length divides the time.             *)

Ended == {a \in Axis : clock[a] + 1 >= WindowTicks[a]}

Tick ==
    /\ keys' = [k \in Key |-> Age(keys[k])]
    /\ clock' = [a \in Axis |-> IF a \in Ended THEN 0 ELSE clock[a] + 1]
    /\ budget' = [k \in Key |-> Elapse(budget[k], Ended)]
    /\ granted' = [k \in Key |-> [a \in Axis |-> IF a \in Ended THEN 0
                                                 ELSE granted[k][a]]]
    /\ probe' = [k \in Key |-> IF probe[k] > 0 THEN probe[k] - 1 ELSE probe[k]]
    /\ UNCHANGED callerVars

-----------------------------------------------------------------------------
Request(c) ==
    \/ \E k \in Key : Reserve(c, k) \/ ReserveRefused(c, k)
    \/ Answered(c)
    \/ ReadHeaders(c)
    \/ Failed(c)
    \/ Abandoned(c)

(* Traffic and time, without the operator and the background jobs that     *)
(* change a key.                                                           *)
TrafficNext ==
    \/ \E c \in Caller : Request(c)
    \/ Survey
    \/ Snapshot
    \/ Tick

Next ==
    \/ TrafficNext
    \/ \E k \in Key : \/ Validate(k)
                      \/ RestoreKey(k)
                      \/ UpdateModels(k)
                      \/ ApplyOfficialLimits(k)
    \/ Register

Spec == Init /\ [][Next]_vars

(* Time passes, the background task takes its snapshot every 30 s (main.rs *)
(* spawns it and never stops it).  Nothing else is owed: an upstream may   *)
(* never answer and a client may never come.                               *)
TrafficSpec == Init /\ [][TrafficNext]_vars /\ WF_vars(Tick) /\ WF_vars(Snapshot)

-----------------------------------------------------------------------------
(* What the pool guarantees.                                               *)

(* A key that may be reserved carries no deadline: whichever method takes  *)
(* a key out of its cooldown also clears `cooldown_until`, so no stale     *)
(* deadline can later pull a healthy key through recover_expired.          *)
SelectableHasNoDeadline ==
    \A k \in Key : Admissible(keys[k]) => keys[k].cooldown = NoDeadline

(* However many requests run at once, the reservations of one key inside   *)
(* one window of an axis stay within the limit the operator configured,    *)
(* for as long as that limit is the one in force: reserve_key tests and    *)
(* counts under one lock, and nothing lowers a count inside its window.    *)
ConfiguredLimitRespected ==
    \A k \in Key, a \in Axis :
        budget[k][a].source = "config" => granted[k][a] <= ConfiguredLimit[k][a]

(* The same for the minute axis without the proviso: a configured          *)
(* rpm_limit is never replaced while the pool lives.                       *)
ConfiguredRpmRespected ==
    \A k \in Key :
        ConfiguredLimit[k]["rpm"] # NoLimit
            => granted[k]["rpm"] <= ConfiguredLimit[k]["rpm"]

(* Half-open: once a probe has been let out, nobody else is given the key  *)
(* until somebody reports on it or cooldown_seconds have passed, although  *)
(* every caller selects, recovers and reserves on its own.                 *)
HalfOpenExclusive ==
    [][\A k \in Key :
         probe[k] > 0 => \A c \in Caller : holds'[c] = k => holds[c] = k]_vars

(* "Tightens observed limits but never relaxes them": a limit whose source *)
(* is an observation is no higher than the limit it replaced, whichever of *)
(* the three learning paths wrote it.                                      *)
ObservedLimitOnlyTightens ==
    [][\A k \in Key, a \in Axis :
         LET old == budget[k][a]
             new == budget'[k][a]
         IN  new.source = "observed" /\ old.limit # NoLimit
                => new.limit # NoLimit /\ new.limit <= old.limit]_vars

(* A cooling key that has a deadline does not wait for ever: time and the  *)
(* background snapshot alone bring it back or a reservation takes it out   *)
(* as a probe, unless a model-level report takes the deadline away first   *)
(* (TemporarilyUnavailableKeysRecover says what then).                     *)
Waiting(k) == Cooling(keys[k]) /\ probe[k] = 0

DeadlineRunsOut ==
    \A k \in Key :
        (Waiting(k) /\ keys[k].cooldown # NoDeadline)
            ~> ~(Waiting(k) /\ keys[k].cooldown # NoDeadline)

-----------------------------------------------------------------------------
(* The inductive invariant behind the guarantees (KeyPoolProofs).          *)

(* A caller that is past its reservation holds a key.                      *)
CallersHoldKeys == \A c \in Caller : pc[c] # "idle" => holds[c] \in Key

(* The counter of the current window is never below the reservations made  *)
(* in it; a counter left over from an earlier window stands for none.      *)
CountsCoverGrants ==
    \A k \in Key, a \in Axis :
        IF budget[k][a].current THEN granted[k][a] <= budget[k][a].count
                                ELSE granted[k][a] = 0

(* A limit marked "config" is the configured one, and on the minute axis   *)
(* the mark is never lost.                                                 *)
ConfigMarkIsTrue ==
    \A k \in Key, a \in Axis :
        /\ budget[k][a].source = "config" =>
              /\ ConfiguredLimit[k][a] # NoLimit
              /\ budget[k][a].limit = ConfiguredLimit[k][a]
        /\ a = "rpm" /\ ConfiguredLimit[k][a] # NoLimit =>
              budget[k][a].source = "config"

(* While a probe is out and unanswered the key is parked, and parked for   *)
(* exactly the time the probe has left.                                    *)
ProbedKeyIsParked ==
    \A k \in Key :
        probe[k] > 0 => keys[k].status = "cooldown" /\ keys[k].cooldown = probe[k]

IInv ==
    /\ TypeOK
    /\ CallersHoldKeys
    /\ CountsCoverGrants
    /\ ConfigMarkIsTrue
    /\ ConfiguredLimitRespected
    /\ ProbedKeyIsParked
    /\ SelectableHasNoDeadline

-----------------------------------------------------------------------------
(* The pool implements the admission control of Admission.tla.             *)

MeteredKey == {k \in Key : ConfiguredLimit[k]["rpm"] # NoLimit}

Promise == INSTANCE Admission
    WITH Metered  <- MeteredKey,
         Limit    <- [k \in MeteredKey |-> ConfiguredLimit[k]["rpm"]],
         HoldTime <- CooldownSeconds,
         used     <- [k \in MeteredKey |-> granted[k]["rpm"]],
         hold     <- probe

(* Every behaviour of the pool is one of the admission control: a metered  *)
(* key is admitted at most Limit times a window and a probed key is held.  *)
ImplementsAdmission == Promise!Spec

-----------------------------------------------------------------------------
(* What the repository says of the pool and the code does not do.          *)

(* docs/key-availability-improvement-plan.md:18, "temporarily unavailable  *)
(* keys can recover automatically".  A failed probe, or a model-level 429  *)
(* reported on a key another request has just cooled, erases the deadline  *)
(* of a cooling key, and recover_expired never touches it again.           *)
TemporarilyUnavailableKeysRecover ==
    \A k \in Key : Waiting(k) ~> ~Waiting(k)

(* ARCHITECTURE.md:110, "the gateway never auto-recovers that key".  A     *)
(* request that was in flight when its key was disabled, and then fails    *)
(* for another reason, overwrites the disabled status with one that        *)
(* expires.  (A success counts as proof that the key works.)               *)
DisabledUntilRestored ==
    [][\A k \in Key :
         keys[k].status = "disabled" =>
            \/ keys'[k].status = "disabled"
            \/ RestoreKey(k)
            \/ \E c \in Caller : Answered(c) /\ holds[c] = k]_vars

=============================================================================
