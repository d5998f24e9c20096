----------------------------- MODULE RateBudgets -----------------------------
(***************************************************************************)
(* The local request counters of one credential: KeyState's rpm_* and      *)
(* rpd_* fields (src/src/models/mod.rs) and the helpers of KeyPool that    *)
(* count, test and learn them (src/src/keyhub/mod.rs).                     *)
(*                                                                         *)
(* A budget has one entry per axis in Axis.  The code keeps the number of  *)
(* the window a count belongs to and compares it with the current one;     *)
(* `current` is the outcome of that comparison.  Token axes (tpm, tpd) are *)
(* counted after the fact and are not part of this module.                 *)
(***************************************************************************)
EXTENDS Integers

CONSTANTS
    Axis,               \* the request axes in use: {"rpm"} or {"rpm", "rpd"}
    CountCap,           \* u32::MAX: the counters are saturating_add'ed
    ShortRetry,         \* a Retry-After up to this (300 s) speaks of the minute
    LowRemaining,       \* headers: "remaining is near-zero" (2)
    ManySent            \* headers: "we've sent a lot" (5)

NoLimit == -1           \* None, for rpm_limit and rpd_limit

ASSUME BudgetAssumption ==
    /\ Axis \subseteq {"rpm", "rpd"}
    /\ "rpm" \in Axis
    /\ CountCap \in Nat
    /\ ShortRetry \in Nat
    /\ LowRemaining \in Nat
    /\ ManySent \in Nat

Limit  == 0..CountCap \cup {NoLimit}
Source == {"none", "config", "official_api", "observed"}

Entry  == [limit : Limit, source : Source, count : 0..CountCap, current : BOOLEAN]
Budget == [Axis -> Entry]

SatAdd(x, y) == IF x + y <= CountCap THEN x + y ELSE CountCap

FreshEntry(limit) ==
    [limit |-> limit, source |-> IF limit = NoLimit THEN "none" ELSE "config",
     count |-> 0, current |-> TRUE]

-----------------------------------------------------------------------------
(* Mutant of IsRateLimited: one request too many.                          *)
IsRateLimitedLate(b) ==
    \E a \in Axis : /\ b[a].limit # NoLimit
                    /\ b[a].current
                    /\ b[a].count > b[a].limit

IsRateLimited(b) ==
    \E a \in Axis : /\ b[a].limit # NoLimit
                    /\ b[a].current
                    /\ b[a].count >= b[a].limit

(* Mutant of ResetEntry: the count is reset, the window is not.            *)
ResetEntryForgetsWindow(e) == IF e.current THEN e ELSE [e EXCEPT !.count = 0]

ResetEntry(e) == IF e.current THEN e ELSE [e EXCEPT !.count = 0, !.current = TRUE]

ResetWindows(b) == [a \in Axis |-> ResetEntry(b[a])]

(* Mutants of Charge: a counter that does not saturate, a request that is  *)
(* not counted.                                                            *)
ChargeUnchecked(b) == [a \in Axis |-> [b[a] EXCEPT !.count = @ + 1]]
ChargeForgotten(b) == b

(* The request is counted whatever window the entry belongs to; callers    *)
(* reset the windows first.                                                *)
Charge(b) == [a \in Axis |-> [b[a] EXCEPT !.count = SatAdd(@, 1)]]

(* The window of axis a has ended.                                         *)
Elapse(b, ended) ==
    [a \in Axis |-> IF a \in ended THEN [b[a] EXCEPT !.current = FALSE] ELSE b[a]]

(* Mutant of Tightened: the latest observation wins.                       *)
TakenAsObserved(limit, observed) == IF observed = 0 THEN limit ELSE observed

(* tighten_observed_limit: observations only lower a limit; zero is none.  *)
Tightened(limit, observed) ==
    IF observed = 0 \/ (limit # NoLimit /\ limit <= observed)
    THEN limit
    ELSE observed

MarkObserved(e, limit) ==
    [e EXCEPT !.limit = limit,
              !.source = IF limit = NoLimit THEN @ ELSE "observed"]

CanObserve(e) == e.source \notin {"config", "official_api"}

Observe(e, observed) ==
    IF CanObserve(e) THEN MarkObserved(e, Tightened(e.limit, observed)) ELSE e

(* Mutant of SetLimit: the source in place is not looked at.               *)
SetLimitUnguarded(e, value, source) ==
    IF value = 0 THEN e ELSE [e EXCEPT !.limit = value, !.source = source]

(* set_request_limit: zero is ignored, a configured limit is never         *)
(* replaced by another source.                                             *)
SetLimit(e, value, source) ==
    IF value = 0 \/ (e.source = "config" /\ source # "config")
    THEN e
    ELSE [e EXCEPT !.limit = value, !.source = source]

(* A 429 teaches the minute limit when it asks for a short pause and the   *)
(* day limit otherwise; the count at that moment is what was too much.     *)
TaughtAxis(retry) == IF retry \in 0..ShortRetry THEN "rpm" ELSE "rpd"

LearnFrom429(b, retry) ==
    LET r == ResetWindows(b) IN
    [a \in Axis |-> IF a = TaughtAxis(retry) THEN Observe(r[a], r[a].count)
                                             ELSE r[a]]

(* update_observed_limits, request axes: the header's absolute limit and   *)
(* its remaining count teach the minute axis if it may be taught; a        *)
(* remaining count near zero after many requests lowers the day limit,     *)
(* and that write asks nobody.                                             *)
LearnFromHeaders(b, limit, remaining) ==
    LET r        == ResetWindows(b)
        sent     == r["rpm"].count
        byLimit  == IF limit = NoLimit THEN r["rpm"] ELSE Observe(r["rpm"], limit)
        byRemain == IF remaining = NoLimit THEN byLimit
                    ELSE Observe(byLimit, SatAdd(sent, remaining))
        daySpent == remaining # NoLimit /\ remaining <= LowRemaining /\ sent >= ManySent
    IN [a \in Axis |->
            IF a = "rpm" THEN byRemain
            ELSE IF daySpent THEN MarkObserved(r[a], Tightened(r[a].limit, sent))
            ELSE r[a]]

=============================================================================
