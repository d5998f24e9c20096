---------------------------- MODULE ProviderGate ----------------------------
(***************************************************************************)
(* The provider-level cooldown of a key pool: the two atomics              *)
(* provider_fail_count and provider_cooldown_until of KeyPool              *)
(* (src/src/keyhub/mod.rs).                                                *)
(*                                                                         *)
(* Reports write them while they hold the write lock on `keys`; candidate  *)
(* selection reads and clears them before it takes that lock.  A step here *)
(* is therefore one access to one atomic, and `lock` is the write lock as  *)
(* far as the reports exclude one another.  What reports and selection do  *)
(* to the keys themselves is in KeyPool.tla, which reads neither atomic.   *)
(*                                                                         *)
(* The rounds of the router and the forwarding select through this gate;   *)
(* adaptive routing and the operator's checks and refreshes take a key     *)
(* without a look at it, and report to it all the same.                    *)
(***************************************************************************)
EXTENDS Integers, FiniteSets

CONSTANTS
    Key,                \* the keys of the provider
    Task,               \* concurrent requests and checks
    Direct,             \* those of them that do not look at the cooldown
    FailThreshold,      \* routing.fail_threshold
    CooldownSeconds,    \* routing.cooldown_seconds, in ticks
    MaxAttempts         \* bound: candidates a task tries after one selection

ASSUME GateAssumption ==
    /\ IsFiniteSet(Key)
    /\ Direct \subseteq Task
    /\ FailThreshold \in Nat
    /\ CooldownSeconds \in Nat
    /\ MaxAttempts \in Nat

VARIABLES
    fails,      \* provider_fail_count
    cooldown,   \* provider_cooldown_until as the time left; 0: expired, NoDeadline: 0 in the code
    lock,       \* "free" or "held": the write lock, as the reports see it
    pc,         \* Task -> where the task is
    tries,      \* Task -> candidates of its list not tried yet
    streak      \* history: failures reported since the last success

vars == <<fails, cooldown, lock, pc, tries, streak>>

NoDeadline == -1

Threshold == Cardinality(Key) * FailThreshold

(* Bound: a count decides nothing above the threshold and saturates there. *)
CountUp(n) == IF n < Threshold THEN n + 1 ELSE n

TypeOK ==
    /\ fails \in 0..Threshold
    /\ cooldown \in Nat \cup {NoDeadline}
    /\ lock \in {"free", "held"}
    /\ pc \in [Task -> {"idle", "expired", "opened", "selected",
                        "cooling", "clearing"}]
    /\ tries \in [Task -> 0..MaxAttempts]
    /\ streak \in 0..Threshold

Init ==
    /\ fails = 0
    /\ cooldown = NoDeadline
    /\ lock = "free"
    /\ pc = [t \in Task |-> "idle"]
    /\ tries = [t \in Task |-> 0]
    /\ streak = 0

-----------------------------------------------------------------------------
(* Selection: the provider cooldown check of free_candidate_infos,         *)
(* free_provider_candidate_infos, any_free_key and                         *)
(* paid_candidate_for_model.  While the cooldown runs it yields nothing.   *)

(* Mutant of Select: the cooldown is not looked at.                        *)
SelectUngated(t) ==
    /\ t \notin Direct /\ pc[t] = "idle"
    /\ pc' = [pc EXCEPT ![t] = IF cooldown = 0 THEN "expired" ELSE "selected"]
    /\ tries' = [tries EXCEPT ![t] = MaxAttempts]
    /\ UNCHANGED <<fails, cooldown, lock, streak>>

Select(t) ==
    /\ t \notin Direct /\ pc[t] = "idle"
    /\ cooldown <= 0
    /\ pc' = [pc EXCEPT ![t] = IF cooldown = 0 THEN "expired" ELSE "selected"]
    /\ tries' = [tries EXCEPT ![t] = MaxAttempts]
    /\ UNCHANGED <<fails, cooldown, lock, streak>>

(* provider_cooldown_until.store(0), whatever has been stored since        *)
ClearExpired(t) ==
    /\ pc[t] = "expired"
    /\ cooldown' = NoDeadline
    /\ pc' = [pc EXCEPT ![t] = "opened"]
    /\ UNCHANGED <<fails, lock, tries, streak>>

(* provider_fail_count.store(0)                                            *)
ClearFails(t) ==
    /\ pc[t] = "opened"
    /\ fails' = 0
    /\ pc' = [pc EXCEPT ![t] = "selected"]
    /\ UNCHANGED <<cooldown, lock, tries, streak>>

(* collect_candidates of adaptive routing, admin_provider_refresh,         *)
(* admin_provider_test and admin_key_validate: neither atomic is read.     *)
SelectDirectly(t) ==
    /\ t \in Direct /\ pc[t] = "idle"
    /\ pc' = [pc EXCEPT ![t] = "selected"]
    /\ tries' = [tries EXCEPT ![t] = MaxAttempts]
    /\ UNCHANGED <<fails, cooldown, lock, streak>>

-----------------------------------------------------------------------------
(* Reports.                                                                *)

(* Mutant of Failure: the count moves without the lock on the keys.        *)
FailureUnlocked(t) ==
    /\ pc[t] = "selected"
    /\ tries[t] > 0
    /\ fails' = CountUp(fails)
    /\ tries' = [tries EXCEPT ![t] = @ - 1]
    /\ IF fails + 1 >= Threshold
       THEN pc' = [pc EXCEPT ![t] = "cooling"] /\ lock' = "held"
       ELSE UNCHANGED <<pc, lock>>
    /\ streak' = CountUp(streak)
    /\ UNCHANGED cooldown

(* record_provider_failure: fetch_add, and the decision on what it returned. *)
(* The request goes on to its next candidate.                              *)
Failure(t) ==
    /\ pc[t] = "selected"
    /\ tries[t] > 0
    /\ lock = "free"
    /\ fails' = CountUp(fails)
    /\ tries' = [tries EXCEPT ![t] = @ - 1]
    /\ IF fails + 1 >= Threshold
       THEN pc' = [pc EXCEPT ![t] = "cooling"] /\ lock' = "held"
       ELSE UNCHANGED <<pc, lock>>
    /\ streak' = CountUp(streak)
    /\ UNCHANGED cooldown

(* provider_cooldown_until.store(now + cooldown_seconds)                   *)
EnterCooldown(t) ==
    /\ pc[t] = "cooling"
    /\ cooldown' = CooldownSeconds
    /\ lock' = "free"
    /\ pc' = [pc EXCEPT ![t] = "selected"]
    /\ UNCHANGED <<fails, tries, streak>>

(* Mutants of Success: without the lock on the keys; without the reset of  *)
(* the count.                                                              *)
SuccessUnlocked(t) ==
    /\ pc[t] = "selected"
    /\ tries[t] > 0
    /\ fails' = 0
    /\ lock' = "held"
    /\ pc' = [pc EXCEPT ![t] = "clearing"]
    /\ streak' = 0
    /\ UNCHANGED <<cooldown, tries>>

SuccessKeepsCount(t) ==
    /\ pc[t] = "selected"
    /\ tries[t] > 0
    /\ lock = "free"
    /\ lock' = "held"
    /\ pc' = [pc EXCEPT ![t] = "clearing"]
    /\ streak' = 0
    /\ UNCHANGED <<fails, cooldown, tries>>

(* report_success, report_reserved_success: provider_fail_count.store(0)   *)
Success(t) ==
    /\ pc[t] = "selected"
    /\ tries[t] > 0
    /\ lock = "free"
    /\ fails' = 0
    /\ lock' = "held"
    /\ pc' = [pc EXCEPT ![t] = "clearing"]
    /\ streak' = 0
    /\ UNCHANGED <<cooldown, tries>>

(* provider_cooldown_until.store(0), and the request is answered; the      *)
(* operator's refresh goes on to its next key.                             *)
ClearCooldown(t) ==
    /\ pc[t] = "clearing"
    /\ cooldown' = NoDeadline
    /\ lock' = "free"
    /\ pc' = [pc EXCEPT ![t] = IF t \in Direct THEN "selected" ELSE "idle"]
    /\ tries' = [tries EXCEPT ![t] = IF t \in Direct /\ @ > 0 THEN @ - 1 ELSE 0]
    /\ UNCHANGED <<fails, streak>>

(* The report of an answer that says nothing about the provider (401, 403, *)
(* 429, the exhausted quota of a key), or no report: both atomics are left *)
(* alone and the request goes on to its next candidate.                    *)
Spare(t) ==
    /\ pc[t] = "selected"
    /\ tries[t] > 0
    /\ tries' = [tries EXCEPT ![t] = @ - 1]
    /\ UNCHANGED <<fails, cooldown, lock, pc, streak>>

(* No candidate is left, or the request ends without a report.             *)
Leave(t) ==
    /\ pc[t] = "selected"
    /\ pc' = [pc EXCEPT ![t] = "idle"]
    /\ tries' = [tries EXCEPT ![t] = 0]
    /\ UNCHANGED <<fails, cooldown, lock, streak>>

-----------------------------------------------------------------------------
(* The section under the lock is a few instructions: no tick falls in it.  *)
Tick ==
    /\ lock = "free"
    /\ cooldown' = IF cooldown > 0 THEN cooldown - 1 ELSE cooldown
    /\ UNCHANGED <<fails, lock, pc, tries, streak>>

Gate(t) == Select(t) \/ ClearExpired(t) \/ ClearFails(t) \/ SelectDirectly(t)

LockedStore(t) == EnterCooldown(t) \/ ClearCooldown(t)

Report(t) == Failure(t) \/ Success(t) \/ LockedStore(t)

Next == Tick \/ \E t \in Task : Gate(t) \/ Report(t) \/ Spare(t) \/ Leave(t)

Spec == Init /\ [][Next]_vars

(* Time passes and a thread that holds the lock releases it.  Nothing is   *)
(* assumed of requests: they may hang, and fail whenever they like.        *)
FairSpec == Spec /\ WF_vars(Tick) /\ \A t \in Task : WF_vars(LockedStore(t))

-----------------------------------------------------------------------------
(* However reports and selections interleave, the provider is put into     *)
(* cooldown only when key_count * fail_threshold failures have been        *)
(* reported since the last success: a success cannot fall between the      *)
(* count that crossed the threshold and the store that acts on it.         *)
CooldownIsEarned ==
    [][cooldown' > 0 /\ cooldown' > cooldown => streak = Threshold]_vars

(* A success that has been reported leaves the provider open and its count *)
(* at zero, although a failure or a selection may be half done when it     *)
(* begins.                                                                 *)
SuccessOpensProvider ==
    [][\A t \in Task : pc[t] = "clearing" /\ pc'[t] # "clearing"
                          => cooldown' = NoDeadline /\ fails' = 0]_vars

(* A provider in cooldown is open again some day, unless those who do not  *)
(* look at the cooldown fail again and again: requests already past the    *)
(* gate may renew it, but the gate lets no new ones in and they run out of *)
(* candidates.  The condition is needed: adaptive requests and the         *)
(* operator's refreshes alone can keep a provider closed to everybody else *)
(* for ever.                                                               *)
ProviderReopens ==
    <>[][\A t \in Direct : ~Failure(t)]_vars => (cooldown > 0 ~> cooldown <= 0)

(* The inductive invariant behind CooldownIsEarned and                     *)
(* SuccessOpensProvider.                                                   *)
InCritical(t) == pc[t] \in {"cooling", "clearing"}

LockExcludes ==
    /\ \A t \in Task : InCritical(t) => lock = "held"
    /\ \A t, u \in Task : InCritical(t) /\ InCritical(u) => t = u

FailsAreConsecutive ==
    /\ fails <= streak
    /\ \A t \in Task : /\ pc[t] = "cooling" => streak = Threshold
                       /\ pc[t] = "clearing" => fails = 0

GateInv == TypeOK /\ LockExcludes /\ FailsAreConsecutive

=============================================================================
