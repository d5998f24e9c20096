------------------------------ MODULE Discovery ------------------------------
(***************************************************************************)
(* How the keys of one provider come to know its models, beside the        *)
(* traffic on its pool (KeyPool): the discovery a request runs when nothing*)
(* serves it (refresh_free_models of src/src/router/mod.rs), the watcher   *)
(* (src/src/watcher/mod.rs), which also runs once at startup, and the      *)
(* operator's refresh (src/src/api/admin.rs).  Each asks key after key and *)
(* holds no lock while the provider answers.  And what a start of the      *)
(* process makes of the keys in the state file (restore_states).           *)
(*                                                                         *)
(* last_attempt is the second at which the failed request began; here the  *)
(* backoff and the requests have ages, and `now - last_attempt` is the     *)
(* difference of two ages.                                                 *)
(***************************************************************************)
EXTENDS KeyPool, Sequences, FiniteSets

CONSTANTS
    Requester,          \* requests that may have to discover models
    Alone,              \* bound: those that do so with none but Requesters about
    Free,               \* the keys of the free tier
    DiscoveryBackoff,   \* DISCOVERY_BACKOFF_S, in ticks
    WatcherEnabled,     \* watcher.enabled, the settings in question
    Watcher,            \* the watcher's loop, and the check at startup
    SavedDeadline,      \* deadlines a state file may hold
    SavedBudget,        \* request counters and limits a state file may hold
    RunLimit,           \* bound: ticks a request spends on discovery
    MaxOutages          \* bound: times the provider's model list fails and returns

Longest == DiscoveryBackoff[Len(DiscoveryBackoff)]

ASSUME DiscoveryAssumption ==
    /\ Free \subseteq Key /\ Alone \subseteq Requester
    /\ DiscoveryBackoff \in Seq(Nat \ {0}) /\ Len(DiscoveryBackoff) > 0
    /\ WatcherEnabled \subseteq BOOLEAN
    /\ SavedDeadline \subseteq Deadline /\ SavedBudget \subseteq Budget
    /\ RunLimit \in Nat /\ MaxOutages \in Nat
    /\ "admin" \notin Requester \cup Watcher

Run == Requester \cup Watcher \cup {"admin"}

VARIABLES
    watching,       \* watcher.enabled, fixed
    backoff,        \* the provider's entry of discovery_backoff
    run,            \* Run -> where it is
    up,             \* does the provider list its models?
    outages         \* how often it has stopped to

discoveryVars == <<watching, backoff, run, up, outages>>
allVars == <<vars, discoveryVars>>

(* fail_count 0 stands for no entry. *)
NoBackoff == [fails |-> 0, age |-> 0]
IdleRun == [phase |-> "idle", todo |-> {}, elapsed |-> 0, found |-> FALSE,
            asked |-> {}, reserved |-> {}]
DueRun == [IdleRun EXCEPT !.phase = "due"]

-----------------------------------------------------------------------------
(* A start of the process, without a state file or with one.  What was     *)
(* under way when the previous process ended is gone; deadlines are        *)
(* absolute, so a file may be of any age.                                  *)

(* The records the pool may have saved. *)
Savable ==
    {s \in [status : Status, failCount : 0..FailCap, cooldown : SavedDeadline,
            last429 : BOOLEAN, models : SUBSET Model] :
        Admissible(s) => s.cooldown = NoDeadline}

(* Mutant of Restored: the deadline of a key taken back stays. *)
RestoredWithDeadline(s) ==
    IF s.status = "disabled" /\ s.models # {}
    THEN [s EXCEPT !.status = "available", !.failCount = 0] ELSE s

(* restore_states: a key that was disabled after it had listed models is   *)
(* taken back.                                                             *)
Restored(s) ==
    IF s.status = "disabled" /\ s.models # {}
    THEN [s EXCEPT !.status = "available", !.failCount = 0, !.cooldown = NoDeadline] ELSE s

(* Counts, windows and learned limits come back as they were saved, a      *)
(* configured limit as it is configured now.  Bound: none was taken out of *)
(* the configuration, where the saved one would stay, marked as configured.*)
SavedFor(k) ==
    {b \in SavedBudget : \A a \in Axis : b[a].source = "config" => ConfiguredLimit[k][a] # NoLimit}

RestoredEntry(e, limit) ==
    IF limit = NoLimit THEN e ELSE [e EXCEPT !.limit = limit, !.source = "config"]

RestoredBudgets(k) ==
    {[a \in Axis |-> RestoredEntry(b[a], ConfiguredLimit[k][a])] : b \in SavedFor(k)}

(* What the previous process granted in the window and the file counts;    *)
(* no more than a limit that was lowered meanwhile.                        *)
Carried(e) ==
    IF e.current /\ (e.limit = NoLimit \/ e.count <= e.limit) THEN e.count ELSE 0

RestoredInit ==
    /\ keys \in [Key -> {Recover(Restored(s)) : s \in Savable}]
    /\ budget \in {b \in [Key -> Budget] : \A k \in Key : b[k] \in RestoredBudgets(k)}
    /\ granted = [k \in Key |-> [a \in Axis |-> Carried(budget[k][a])]]
    /\ clock \in {age \in [Axis -> UNION {0..(WindowTicks[a] - 1) : a \in Axis}] :
                    \A a \in Axis : age[a] < WindowTicks[a]}
    /\ pc = [c \in Caller |-> "idle"] /\ holds = [c \in Caller |-> NoKey]
    /\ probe = [k \in Key |-> 0]

DiscoveryInit ==
    /\ Init \/ RestoredInit
    /\ watching \in WatcherEnabled
    /\ backoff = NoBackoff
    /\ run = [d \in Run |-> IdleRun]
    /\ up = TRUE /\ outages = 0

-----------------------------------------------------------------------------
(* Which keys are asked.  All of these survey the pool as Survey does.     *)

Surveyed == [k \in Key |-> ResetWindows(budget[k])]
SurveyPool == keys' = Recovered /\ budget' = Surveyed

Ready == {k \in Key : Recovered[k].status = "available" /\ ~IsRateLimited(Surveyed[k])}

(* Mutant of DiscoveryKeys: the keys that could be candidates. *)
ServingKeys == {k \in Ready \cap Free : keys[k].models # {}}

DiscoveryKeys == Ready \cap Free                \* discovery_keys, free ones only

(* Mutant of ProbeKeys: a disabled key is not asked. *)
ProbeReadyKeys == Ready

ProbeKeys == Ready \cup {k \in Key : Recovered[k].status = "disabled"}    \* model_probe_keys

(* candidates is empty: no free key that may be asked knows a model.       *)
Unserved ==
    \A k \in Free : ~Selectable(Recovered[k], Surveyed[k]) \/ keys[k].models = {}

-----------------------------------------------------------------------------
(* refresh_free_models *)

NobodyAlone == \A d \in Alone : run[d].phase = "idle"      \* bound

Set(d, r) == run' = [run EXCEPT ![d] = r]

(* candidates_with_refresh: the request reads the clock once; its turn at  *)
(* this provider comes after the others of the chain were asked.           *)
Begin(d) ==
    /\ run[d].phase = "idle"
    /\ Unserved
    /\ d \in Alone =>         \* bound
          ~watching /\ run["admin"].phase = "idle" /\ \A c \in Caller : pc[c] = "idle"
    /\ SurveyPool
    /\ Set(d, DueRun)
    /\ UNCHANGED <<clock, callerVars, history, watching, backoff, up, outages>>

(* now - last_attempt < backoff_s, in u64: a request older than the entry  *)
(* wraps around and is not put off.                                        *)
PutOff(d) ==
    /\ backoff.fails > 0
    /\ backoff.age >= run[d].elapsed
    /\ backoff.age - run[d].elapsed < DiscoveryBackoff[backoff.fails]

Skip(d) ==
    /\ run[d].phase = "due" /\ PutOff(d)
    /\ Set(d, IdleRun)
    /\ UNCHANGED <<vars, watching, backoff, up, outages>>

Ask(d) ==
    /\ run[d].phase = "due" /\ ~PutOff(d)
    /\ SurveyPool
    /\ Set(d, [run[d] EXCEPT !.phase = "listing", !.todo = DiscoveryKeys])
    /\ UNCHANGED <<clock, callerVars, history, watching, backoff, up, outages>>

(* The attempt is dated back to its beginning; nobody looks whether a      *)
(* later one has been entered meanwhile.                                   *)
Failure(d) ==
    [fails |-> IF backoff.fails < Len(DiscoveryBackoff) THEN backoff.fails + 1 ELSE backoff.fails,
     age   |-> run[d].elapsed]

Finish(d) ==
    /\ run[d].phase = "listing" /\ run[d].todo = {}
    /\ backoff' = IF run[d].found THEN NoBackoff ELSE Failure(d)
    /\ Set(d, IdleRun)
    /\ UNCHANGED <<vars, watching, up, outages>>

-----------------------------------------------------------------------------
(* The answers to list_models *)

Unlisted(d, k) == [run[d] EXCEPT !.todo = @ \ {k}, !.asked = @ \ {k}, !.reserved = @ \ {k}]
Listed(d, k) == [Unlisted(d, k) EXCEPT !.found = d \in Requester]

Listing(d, k) == run[d].phase = "listing" /\ k \in run[d].todo

(* update_models *)
Lists(d, k) ==
    /\ d # "admin" /\ Listing(d, k) /\ up
    /\ keys' = [keys EXCEPT ![k] = WithModels(@, Model)]
    /\ Set(d, Listed(d, k))
    /\ UNCHANGED <<budget, clock, callerVars, history, watching, backoff, up, outages>>

(* An error or, for the watcher, its timeout: record_model_error, which    *)
(* touches nothing but the text shown.                                     *)
ListFails(d, k) ==
    /\ d # "admin" /\ Listing(d, k) /\ ~up
    /\ Set(d, Unlisted(d, k))
    /\ UNCHANGED <<vars, watching, backoff, up, outages>>

-----------------------------------------------------------------------------
(* The watcher (check_all; the loop and the check at startup do not know   *)
(* of each other).  What it writes to the health registry at the end is    *)
(* only shown.                                                             *)

Watch(d) ==
    /\ d \in Watcher /\ watching /\ run[d].phase = "idle"
    /\ SurveyPool
    /\ Set(d, [IdleRun EXCEPT !.phase = "listing", !.todo = ProbeKeys])
    /\ UNCHANGED <<clock, callerVars, history, watching, backoff, up, outages>>

(* available_count surveys the pool once more. *)
CheckEnds(d) ==
    /\ d \notin Requester
    /\ run[d].phase = "listing" /\ run[d].todo = {}
    /\ SurveyPool
    /\ Set(d, IdleRun)
    /\ UNCHANGED <<clock, callerVars, history, watching, backoff, up, outages>>

-----------------------------------------------------------------------------
(* admin_provider_refresh: it reserves what it asks and reports on it *)

RefreshBegins ==
    /\ run["admin"].phase = "idle" /\ NobodyAlone
    /\ SurveyPool
    /\ Set("admin", [IdleRun EXCEPT !.phase = "listing", !.todo = ProbeKeys])
    /\ UNCHANGED <<clock, callerVars, history, watching, backoff, up, outages>>

(* A disabled key is asked as it is. *)
RefreshAsksDisabled(k) ==
    /\ Listing("admin", k) /\ run["admin"].asked = {}
    /\ keys[k].status = "disabled"
    /\ Set("admin", [run["admin"] EXCEPT !.asked = {k}])
    /\ UNCHANGED <<vars, watching, backoff, up, outages>>

(* Any other is reserved, or left out when it no longer can be. *)
RefreshAsks(k) ==
    LET s == Recover(keys[k])
        b == ResetWindows(budget[k])
        free == Selectable(s, b)
    IN  /\ Listing("admin", k) /\ run["admin"].asked = {}
        /\ keys[k].status # "disabled"
        /\ keys' = [Recovered EXCEPT ![k] = IF free THEN BeginProbe(s) ELSE s]
        /\ budget' = [budget EXCEPT ![k] = IF free THEN Charge(b) ELSE b]
        /\ probe' = IF free /\ s.status = "probing" THEN [probe EXCEPT ![k] = CooldownSeconds] ELSE probe
        /\ granted' = IF free THEN [granted EXCEPT ![k] = [a \in Axis |-> SatAdd(@[a], 1)]]
                      ELSE granted
        /\ Set("admin", IF free THEN [run["admin"] EXCEPT !.asked = {k}, !.reserved = {k}]
                                ELSE Unlisted("admin", k))
        /\ UNCHANGED <<clock, callerVars, watching, backoff, up, outages>>

(* update_models; a key that was reserved is still to be reported.         *)
RefreshLists(k) ==
    /\ k \in run["admin"].asked /\ ~run["admin"].found /\ up
    /\ keys' = [keys EXCEPT ![k] = WithModels(@, Model)]
    /\ Set("admin", IF k \in run["admin"].reserved THEN [run["admin"] EXCEPT !.found = TRUE]
                    ELSE Listed("admin", k))
    /\ UNCHANGED <<budget, clock, callerVars, history, watching, backoff, up, outages>>

(* report_reserved_success, under the lock a second time.                  *)
RefreshReports(k) ==
    /\ k \in run["admin"].reserved /\ run["admin"].found
    /\ ReservedSuccess(k)
    /\ Set("admin", Listed("admin", k))
    /\ UNCHANGED <<clock, callerVars, granted, watching, backoff, up, outages>>

(* report_gateway_error, as for a request; or nothing, when the check      *)
(* timed out or the error is not attributable to the key: the reservation  *)
(* is not settled.                                                         *)
RefreshFails(k) ==
    /\ k \in run["admin"].asked /\ ~run["admin"].found /\ ~up
    /\ GatewayError(k) \/ UNCHANGED <<keys, budget, probe>>
    /\ Set("admin", Unlisted("admin", k))
    /\ UNCHANGED <<clock, callerVars, granted, watching, backoff, up, outages>>

-----------------------------------------------------------------------------
(* The provider fails to list its models for a while. *)
Outage ==
    /\ up => outages < MaxOutages        \* bound
    /\ up' = ~up
    /\ outages' = IF up THEN outages + 1 ELSE outages
    /\ UNCHANGED <<vars, watching, backoff, run>>

(* Time passes for the backoff and the requests as well. *)
Older(n, limit) == IF n < limit THEN n + 1 ELSE n

Passes ==
    /\ \A d \in Requester : run[d].phase # "idle" => run[d].elapsed < RunLimit      \* bound
    /\ Tick
    /\ backoff' = IF backoff.fails = 0 THEN backoff
                  ELSE [backoff EXCEPT !.age = Older(@, Longest + RunLimit)]
    /\ run' = [d \in Run |-> IF d \in Requester /\ run[d].phase # "idle"
                             THEN [run[d] EXCEPT !.elapsed = @ + 1] ELSE run[d]]
    /\ UNCHANGED <<watching, up, outages>>

-----------------------------------------------------------------------------
(* Requests on the pool and its surveys, from KeyPool. *)
Traffic == (NobodyAlone /\ \E c \in Caller : Request(c)) \/ Survey \/ Snapshot

DiscoveryStep(d) ==
    \/ d \in Requester /\ (Begin(d) \/ Skip(d) \/ Ask(d) \/ Finish(d))
    \/ \E k \in Key : Lists(d, k) \/ ListFails(d, k)
    \/ Watch(d)
    \/ CheckEnds(d)

DiscoveryNext ==
    \/ Traffic /\ UNCHANGED discoveryVars
    \/ Passes
    \/ \E d \in Run : DiscoveryStep(d)
    \/ RefreshBegins
    \/ \E k \in Key : \/ RefreshAsks(k) \/ RefreshAsksDisabled(k)
                      \/ RefreshLists(k) \/ RefreshReports(k) \/ RefreshFails(k)
    \/ Outage

(* Time passes; the background task takes its snapshot; the watcher, where *)
(* it is enabled, never stops (main.rs spawns it), and every call it makes *)
(* has a timeout.  A request that has begun its discovery goes on with it; *)
(* no request has to begin.                                                *)
Asked(d) == \E k \in Key : Lists(d, k) \/ ListFails(d, k)
Watched(d) == Asked(d) \/ Watch(d) \/ CheckEnds(d)
Discovered(d) == Asked(d) \/ Skip(d) \/ Ask(d) \/ Finish(d)

DiscoverySpec ==
    /\ DiscoveryInit /\ [][DiscoveryNext]_allVars
    /\ WF_allVars(Passes)
    /\ WF_allVars(Snapshot /\ UNCHANGED discoveryVars)
    /\ \A d \in Watcher : WF_allVars(Watched(d))
    /\ \A d \in Requester : WF_allVars(Discovered(d))

-----------------------------------------------------------------------------
(* Properties *)

(* A key the upstream refused, and that nobody looks at any more, is taken *)
(* back on its own once its provider lists models again: the watcher asks  *)
(* disabled keys too, whatever the operator's refreshes, the restarts and  *)
(* the requests in flight do to the key meanwhile.                         *)
DisabledKeyReturns ==
    <>[](up /\ watching) =>
        \A k \in Key : keys[k].status = "disabled" ~> keys[k].status # "disabled"

(* The backoff ends.  As long as requests that nothing serves come again   *)
(* and again and the provider lists models again, a free key without       *)
(* models gets some, or leaves service, although overlapping requests each *)
(* count their failure and date it back to their own beginning, and        *)
(* without a watcher.  Not a key that has a limit: discovery passes over   *)
(* it while its window is used up, and others may use up every window.     *)
Unlimited(k) == \A a \in Axis : budget[k][a].limit = NoLimit
Modelless(k) == keys[k].status = "available" /\ keys[k].models = {} /\ Unlimited(k)

ModelsAreFoundAgain ==
    <>[]up /\ (\E d \in Requester : []<>(~Unserved \/ run[d].phase # "idle")) =>
        \A k \in Free : Modelless(k) ~> ~Modelless(k)

=============================================================================
