--------------------------- MODULE ModelMetaStore ----------------------------
(***************************************************************************)
(* The metadata database: ModelMetaStore (src/src/metadata/mod.rs), the    *)
(* learner that turns outcomes of requests into rows (learner.rs), the     *)
(* synchronisation with a public catalogue (sync.rs), a crash of the       *)
(* process anywhere and the migration that every start runs.               *)
(*                                                                         *)
(* A method of the store holds the mutex on the connection from its first  *)
(* statement to its last, so it is one step for everyone else.  Its        *)
(* statements are not a transaction, though: when one fails, or when the   *)
(* process dies, those before it stay.  Learning from one request takes    *)
(* several methods, and other callers come between them.                   *)
(*                                                                         *)
(* Prompt and completion tokens are one number; a limit is per minute or   *)
(* per day; of the columns that describe a model only the limits are kept. *)
(***************************************************************************)
EXTENDS Integers, Sequences, FiniteSetsExt, Functions

CONSTANTS
    Deployment,     \* provider, model and key
    Model,          \* provider and model
    ModelOf,        \* Deployment -> Model
    Caller,         \* requests whose outcomes are learnt concurrently
    Agent,          \* named agents of adaptive requests
    NoAgent,        \* agent is NULL
    Null,
    LimitType,      \* of "rpm" and "rpd"
    LimitValue,     \* limits an upstream or the catalogue may state
    CatalogueRpd,   \* the daily limit read into any per_request_limits
    LastDay,        \* bound: dates the run spans
    MaxTokens,      \* bound: tokens of a request
    MaxRequests,    \* bound: requests learnt from
    MaxFaults       \* bound: failed statements and crashes together

Day       == 1..LastDay
Category  == {"rate_limit", "other"}

ASSUME StoreAssumption ==
    /\ ModelOf \in [Deployment -> Model]
    /\ IsFiniteSet(Model) /\ IsFiniteSet(Caller)
    /\ NoAgent \notin Agent
    /\ LimitType # {} /\ LimitType \subseteq {"rpm", "rpd"}
    /\ LimitValue \subseteq Nat /\ CatalogueRpd \in Nat /\ Null \notin Nat
    /\ LastDay \in Nat \ {0} /\ MaxTokens \in Nat
    /\ MaxRequests \in Nat /\ MaxFaults \in Nat

VARIABLES
    up,                         \* the process runs and has the database open
    today,
    daily, hourly, lifetime,    \* model_usage, model_usage_hourly, usage_lifetime
    errors,                     \* model_errors
    limit,                      \* rpm_limit and rpd_limit of model_meta
    known,                      \* models with a row in model_meta
    learned,                    \* rate_limit_learned
    attempts,                   \* request_attempts: Deployment -> outcomes in order
    deployment,                 \* deployment_state
    tasks,                      \* model_task_stats: the request_count of every row
    observed,                   \* model_capability_observations: counts
    status,                     \* sync_state of the catalogue
    sync,                       \* where sync_openrouter is
    call,                       \* Caller -> the outcome it is recording
    begun,                      \* requests learnt from so far
    lost                        \* history: methods, and outcomes of requests, that were cut short

usage   == <<daily, hourly, lifetime>>
limits  == <<limit, known, learned>>
tries   == <<attempts, deployment>>
scores  == <<tasks, observed>>
syncing == <<status, sync>>
vars    == <<up, today, usage, errors, limits, tries, scores, syncing, call, begun, lost>>

-----------------------------------------------------------------------------
(* Rows *)

(* A row of the three usage tables; success_count is requests less errors. *)
Usage == [requests : Nat, errors : Nat, tokens : Nat, reported : Nat,
          estimated : Nat, reportedRequests : Nat]

Unused == [requests |-> 0, errors |-> 0, tokens |-> 0, reported |-> 0,
           estimated |-> 0, reportedRequests |-> 0]

Plus(u, v) ==
    [requests |-> u.requests + v.requests, errors |-> u.errors + v.errors,
     tokens |-> u.tokens + v.tokens, reported |-> u.reported + v.reported,
     estimated |-> u.estimated + v.estimated,
     reportedRequests |-> u.reportedRequests + v.reportedRequests]

(* Mutant of UsageOf: tokens count on both sides. *)
UsageOfBoth(k) ==
    [requests |-> 1, errors |-> IF k.ok THEN 0 ELSE 1, tokens |-> k.tokens,
     reported |-> IF k.reported THEN k.tokens ELSE 0, estimated |-> k.tokens,
     reportedRequests |-> IF k.reported THEN 1 ELSE 0]

(* What record_usage adds for one request. *)
UsageOf(k) ==
    [requests |-> 1, errors |-> IF k.ok THEN 0 ELSE 1, tokens |-> k.tokens,
     reported |-> IF k.reported THEN k.tokens ELSE 0,
     estimated |-> IF k.reported THEN 0 ELSE k.tokens,
     reportedRequests |-> IF k.reported THEN 1 ELSE 0]

Untried == [ok |-> 0, bad |-> 0, streak |-> 0, cooling |-> FALSE]

(* Mutant of AfterAttempt: a success takes one failure off the streak. *)
AfterAttemptDecays(r, k) ==
    IF k.ok THEN [r EXCEPT !.ok = @ + 1, !.streak = @ - 1, !.cooling = FALSE]
            ELSE [r EXCEPT !.bad = @ + 1, !.streak = @ + 1, !.cooling = @ \/ k.cooldown]

(* Mutant of AfterAttempt: a success leaves the cooldown. *)
AfterAttemptKeepsCooldown(r, k) ==
    IF k.ok THEN [r EXCEPT !.ok = @ + 1, !.streak = 0]
            ELSE [r EXCEPT !.bad = @ + 1, !.streak = @ + 1, !.cooling = @ \/ k.cooldown]

(* The deployment_state row after one attempt; a failure without a         *)
(* cooldown leaves the one that is there.                                  *)
AfterAttempt(r, k) ==
    IF k.ok THEN [r EXCEPT !.ok = @ + 1, !.streak = 0, !.cooling = FALSE]
            ELSE [r EXCEPT !.bad = @ + 1, !.streak = @ + 1, !.cooling = @ \/ k.cooldown]

(* An outcome to record: what is still to be written, and about what.      *)
Idle == [todo |-> <<>>, at |-> Null, ok |-> TRUE, tokens |-> 0, reported |-> FALSE,
         category |-> "other", stated |-> Null, type |-> "rpm", cooldown |-> FALSE,
         agent |-> NoAgent]

InitTables ==
    /\ daily = [r \in Model \X Day |-> Unused]
    /\ hourly = [r \in Model \X Day |-> Unused]
    /\ lifetime = Unused
    /\ errors = [r \in Model \X Category |-> 0]
    /\ limit = [m \in Model |-> [t \in LimitType |-> Null]]
    /\ known = {} /\ learned = {}
    /\ attempts = [d \in Deployment |-> <<>>]
    /\ deployment = [d \in Deployment |-> Untried]
    /\ tasks = [r \in Model \X (Agent \cup {NoAgent}) |-> <<>>]
    /\ observed = [m \in Model |-> 0]
    /\ status = [error |-> FALSE, found |-> 0, updated |-> 0]

NotSyncing == [at |-> "idle", models |-> {}, left |-> {}, updated |-> 0,
               stated |-> [m \in Model |-> Null]]

Init ==
    /\ up = TRUE /\ today = 1
    /\ InitTables
    /\ sync = NotSyncing
    /\ call = [c \in Caller |-> Idle]
    /\ begun = 0 /\ lost = 0

Midnight ==
    /\ today < LastDay
    /\ today' = today + 1
    /\ UNCHANGED <<up, usage, errors, limits, tries, scores, syncing, call, begun, lost>>

-----------------------------------------------------------------------------
(* The outcomes of requests.                                               *)

Begin(c, d, k) ==
    /\ up /\ call[c] = Idle /\ begun < MaxRequests
    /\ begun' = begun + 1
    /\ call' = [call EXCEPT ![c] = [k EXCEPT !.at = d]]
    /\ UNCHANGED <<up, today, usage, errors, limits, tries, scores, syncing, lost>>

(* An answer of chat, or of an endpoint that records no attempts: upstream *)
(* reports its tokens or the gateway estimates them.                       *)
Answered(c, d) == \E reported, traced \in BOOLEAN, n \in 0..MaxTokens :
    Begin(c, d, [Idle EXCEPT !.todo = <<"usage">> \o IF traced THEN <<"attempt">> ELSE <<>>,
                             !.tokens = n, !.reported = reported])

(* Mutant of Failed: having learnt a limit it does not count the request. *)
FailedUncounted(c, d) == \E v \in {n \in LimitValue : n > 0}, t \in LimitType :
    Begin(c, d, [Idle EXCEPT !.ok = FALSE, !.category = "rate_limit", !.stated = v,
                             !.type = t, !.todo = <<"error", "limit">>])

(* learn_from_failure, and the attempt in chat.  Only a 429 is searched    *)
(* for a limit, and only a positive one is kept; one limit of a request    *)
(* stands for those of every type its text may name.                       *)
Failed(c, d) == \E traced, cool \in BOOLEAN, g \in Category,
                   v \in {n \in LimitValue : n > 0} \cup {Null}, t \in LimitType :
    /\ cool => traced
    /\ v # Null => g = "rate_limit"
    /\ v = Null => t = CHOOSE x \in LimitType : TRUE
    /\ Begin(c, d, [Idle EXCEPT
           !.ok = FALSE, !.category = g, !.cooldown = cool, !.stated = v, !.type = t,
           !.todo = (IF v = Null THEN <<"error", "usage">> ELSE <<"error", "limit", "usage">>)
                    \o IF traced THEN <<"attempt">> ELSE <<>>])

(* A failure of the rescue or of the paid key in chat_stream: nothing but  *)
(* the attempt, and the cooldown of the deployment.                        *)
RescueFailed(c, d) ==
    Begin(c, d, [Idle EXCEPT !.ok = FALSE, !.cooldown = TRUE, !.todo = <<"attempt">>])

(* adaptive::chat records neither usage nor attempts, but how the model    *)
(* did at the task, and whether it could do what the task needs.           *)
Adapted(c, d) == \E a \in Agent \cup {NoAgent} :
    Begin(c, d, [Idle EXCEPT !.todo = <<"task", "capability">>, !.agent = a])

-----------------------------------------------------------------------------
(* The methods, one step each.                                             *)

Recording(c, method) == up /\ call[c].todo # <<>> /\ Head(call[c].todo) = method

About(c) == ModelOf[call[c].at]

Rest(k) == IF Len(k.todo) = 1 THEN Idle ELSE [k EXCEPT !.todo = Tail(@)]

Written(c) == call' = [call EXCEPT ![c] = Rest(@)]

RecordModelError(c) ==
    /\ Recording(c, "error")
    /\ errors' = [errors EXCEPT ![<<About(c), call[c].category>>] = @ + 1]
    /\ Written(c)
    /\ UNCHANGED <<up, today, usage, limits, tries, scores, syncing, begun, lost>>

(* The statements of record_usage.  Date and hour are read from the clock  *)
(* one after the other, and midnight may fall between.                     *)
CountDaily(c)  == daily' = [daily EXCEPT ![<<About(c), today>>] = Plus(@, UsageOf(call[c]))]
CountHourly(c) == \E h \in {today, today'} :
                     hourly' = [hourly EXCEPT ![<<About(c), h>>] = Plus(@, UsageOf(call[c]))]
CountLifetime(c) == lifetime' = Plus(lifetime, UsageOf(call[c]))
ClockMoves == today' \in {today, today + 1} \cap Day

RecordUsage(c) ==
    /\ Recording(c, "usage")
    /\ ClockMoves /\ CountDaily(c) /\ CountHourly(c) /\ CountLifetime(c)
    /\ Written(c)
    /\ UNCHANGED <<up, errors, limits, tries, scores, syncing, begun, lost>>

(* learn_rate_limit: the observation, and the column of a model that is    *)
(* known if the limit is new or tighter.                                   *)
Observe(c) == learned' = learned \cup {<<About(c), call[c].type, call[c].stated>>}

(* Mutant of LearnRateLimit: the last limit heard of is taken. *)
LearnLastRateLimit(c) ==
    /\ Recording(c, "limit")
    /\ Observe(c)
    /\ limit' = [limit EXCEPT ![About(c)][call[c].type] =
                    IF About(c) \in known THEN call[c].stated ELSE @]
    /\ Written(c)
    /\ UNCHANGED <<up, today, usage, errors, known, tries, scores, syncing, begun, lost>>

LearnRateLimit(c) ==
    /\ Recording(c, "limit")
    /\ Observe(c)
    /\ limit' = [limit EXCEPT ![About(c)][call[c].type] =
                    IF About(c) \in known /\ (IF @ = Null THEN TRUE ELSE @ > call[c].stated)
                    THEN call[c].stated ELSE @]
    /\ Written(c)
    /\ UNCHANGED <<up, today, usage, errors, known, tries, scores, syncing, begun, lost>>

(* record_request_attempt: the trace, and the deployment's row. *)
Trace(c) == attempts' = [attempts EXCEPT ![call[c].at] = Append(@, call[c].ok)]

RecordRequestAttempt(c) ==
    /\ Recording(c, "attempt")
    /\ Trace(c)
    /\ deployment' = [deployment EXCEPT ![call[c].at] = AfterAttempt(@, call[c])]
    /\ Written(c)
    /\ UNCHANGED <<up, today, usage, errors, limits, scores, syncing, begun, lost>>

(* record_task_usage: agents that are NULL never conflict, so each of      *)
(* their requests is a row of its own; a named agent has one row.          *)
RecordTaskUsage(c) ==
    /\ Recording(c, "task")
    /\ tasks' = [tasks EXCEPT ![<<About(c), call[c].agent>>] =
                    IF call[c].agent = NoAgent \/ @ = <<>> THEN Append(@, 1)
                                                         ELSE <<@[1] + 1>>]
    /\ Written(c)
    /\ UNCHANGED <<up, today, usage, errors, limits, tries, observed, syncing, begun, lost>>

RecordCapability(c) ==
    /\ Recording(c, "capability")
    /\ observed' = [observed EXCEPT ![About(c)] = @ + 1]
    /\ Written(c)
    /\ UNCHANGED <<up, today, usage, errors, limits, tries, tasks, syncing, begun, lost>>

Record(c) == \/ RecordModelError(c) \/ RecordUsage(c) \/ LearnRateLimit(c)
             \/ RecordRequestAttempt(c) \/ RecordTaskUsage(c) \/ RecordCapability(c)

-----------------------------------------------------------------------------
(* A statement fails: the method returns, what it has written stays, the   *)
(* learner logs it and goes on with its next method.                       *)

Fault == lost < MaxFaults /\ lost' = lost + 1

(* The first statement of any method. *)
NothingWritten(c) ==
    /\ up /\ call[c].todo # <<>> /\ Fault /\ Written(c)
    /\ UNCHANGED <<up, today, usage, errors, limits, tries, scores, syncing, begun>>

(* Mutant of UsageCutShort: the lifetime row is written first. *)
UsageCutShortLifetimeFirst(c) ==
    /\ Recording(c, "usage") /\ Fault /\ Written(c)
    /\ CountLifetime(c)
    /\ UNCHANGED <<up, today, daily, hourly, errors, limits, tries, scores, syncing, begun>>

UsageCutShort(c) ==
    /\ Recording(c, "usage") /\ Fault /\ Written(c)
    /\ ClockMoves /\ CountDaily(c)
    /\ CountHourly(c) \/ UNCHANGED hourly
    /\ UNCHANGED <<up, lifetime, errors, limits, tries, scores, syncing, begun>>

LimitCutShort(c) ==
    /\ Recording(c, "limit") /\ Fault /\ Written(c)
    /\ Observe(c)
    /\ UNCHANGED <<up, today, usage, errors, limit, known, tries, scores, syncing, begun>>

AttemptCutShort(c) ==
    /\ Recording(c, "attempt") /\ Fault /\ Written(c)
    /\ Trace(c)
    /\ UNCHANGED <<up, today, usage, errors, limits, deployment, scores, syncing, begun>>

CutShort(c) ==
    NothingWritten(c) \/ UsageCutShort(c) \/ LimitCutShort(c) \/ AttemptCutShort(c)

-----------------------------------------------------------------------------
(* The catalogue: sync_openrouter, once every few hours.                   *)

SyncStep == UNCHANGED <<up, today, usage, errors, learned, tries, scores, call, begun>>

(* No answer, or one that does not parse: the counts of the last good      *)
(* synchronisation stay.                                                   *)
SyncFails ==
    /\ up /\ sync = NotSyncing
    /\ status' = [status EXCEPT !.error = TRUE]
    /\ UNCHANGED <<limit, known, sync, lost>> /\ SyncStep

(* A catalogue arrives; some of its models state a limit per request.      *)
SyncFetched ==
    /\ up /\ sync = NotSyncing
    /\ \E ms \in SUBSET Model, f \in [Model -> LimitValue \cup {Null}] :
          sync' = [at |-> "upsert", models |-> ms, left |-> ms, updated |-> 0, stated |-> f]
    /\ UNCHANGED <<limit, known, status, lost>> /\ SyncStep

(* upsert_model: what the source does not say stays as it is.              *)
Coalesce(new, old) == IF new = Null THEN old ELSE new

UpsertLimits(m, rpm, rpd) ==
    /\ limit' = [limit EXCEPT ![m] = [t \in LimitType |->
                    Coalesce(IF t = "rpm" THEN rpm ELSE rpd, @[t])]]
    /\ known' = known \cup {m}

Took(m) == [sync EXCEPT !.left = @ \ {m}]

SyncUpsert(m) ==
    /\ up /\ sync.at = "upsert" /\ m \in sync.left
    /\ UpsertLimits(m, sync.stated[m], Null)
    /\ sync' = [Took(m) EXCEPT !.updated = @ + 1]
    /\ UNCHANGED <<status, lost>> /\ SyncStep

(* learn_from_models_response reads the same answer once more, and takes   *)
(* any limit per request for a daily limit as well.                        *)
LearnUpsert(m) ==
    /\ up /\ sync.at = "learn" /\ m \in sync.left
    /\ UpsertLimits(m, sync.stated[m], IF sync.stated[m] = Null THEN Null ELSE CatalogueRpd)
    /\ sync' = Took(m)
    /\ UNCHANGED <<status, lost>> /\ SyncStep

UpsertFails(m) ==
    /\ up /\ m \in sync.left /\ Fault
    /\ sync' = Took(m)
    /\ UNCHANGED <<limit, known, status>> /\ SyncStep

(* record_sync clears the error, or is itself refused by the disk; the     *)
(* second reading follows.                                                 *)
RecordSync ==
    /\ up /\ sync.at = "upsert" /\ sync.left = {}
    /\ \/ /\ status' = [error |-> FALSE, found |-> Cardinality(sync.models),
                        updated |-> sync.updated]
          /\ UNCHANGED lost
       \/ Fault /\ UNCHANGED status
    /\ sync' = [sync EXCEPT !.at = "learn", !.left = sync.models]
    /\ UNCHANGED <<limit, known>> /\ SyncStep

SyncDone ==
    /\ up /\ sync.at = "learn" /\ sync.left = {}
    /\ sync' = NotSyncing
    /\ UNCHANGED <<limit, known, status, lost>> /\ SyncStep

Synchronise == \/ SyncFails \/ SyncFetched \/ RecordSync \/ SyncDone
               \/ \E m \in Model : SyncUpsert(m) \/ LearnUpsert(m) \/ UpsertFails(m)

-----------------------------------------------------------------------------
(* The process dies, and the next one opens the database.                  *)

Unfinished == Cardinality({c \in Caller : call[c] # Idle})

Crash ==
    /\ up /\ lost < MaxFaults
    /\ up' = FALSE
    /\ lost' = lost + 1 + Unfinished
    /\ call' = [c \in Caller |-> Idle]
    /\ sync' = NotSyncing
    /\ UNCHANGED <<today, usage, errors, limits, tries, scores, status, begun>>

(* migrate was written for tables that did not yet tell reported from      *)
(* estimated tokens, and runs at every start.                              *)
CountAsReported(u) ==
    IF u.reportedRequests = 0 /\ u.tokens > 0
    THEN [u EXCEPT !.reportedRequests = u.requests] ELSE u

CopyReported(u) ==
    IF u.reported = 0 /\ u.reportedRequests >= u.requests /\ u.tokens > 0
    THEN [u EXCEPT !.reported = u.tokens] ELSE u

CopyEstimated(u) ==
    IF u.estimated = 0 /\ u.reportedRequests = 0 /\ u.tokens > 0
    THEN [u EXCEPT !.estimated = u.tokens] ELSE u

BackFill(u) == CopyEstimated(CopyReported(u))

Migrated(table) == [r \in DOMAIN table |-> BackFill(table[r])]

Claimed == [r \in DOMAIN daily |-> CountAsReported(daily[r])]

Open ==
    /\ ~up
    /\ up' = TRUE
    /\ daily' = Migrated(Claimed)
    /\ hourly' = Migrated(hourly)
    /\ lifetime' = BackFill(lifetime)
    /\ UNCHANGED <<today, errors, limits, tries, scores, syncing, call, begun, lost>>

(* A statement of the migration fails: the gateway runs without the        *)
(* database until the next start.                                          *)
OpenFails ==
    /\ ~up /\ Fault
    /\ daily' \in {Claimed, Migrated(Claimed)}
    /\ UNCHANGED <<up, today, hourly, lifetime, errors, limits, tries, scores, syncing, call, begun>>

Next ==
    \/ Midnight \/ Synchronise \/ Crash \/ Open \/ OpenFails
    \/ \E c \in Caller : Record(c) \/ CutShort(c)
    \/ \E c \in Caller, d \in Deployment :
          Answered(c, d) \/ Failed(c, d) \/ RescueFailed(c, d) \/ Adapted(c, d)

Spec == Init /\ [][Next]_vars

-----------------------------------------------------------------------------
(* What the dashboards read.                                               *)

Column(table, x) == [r \in DOMAIN table |-> table[r][x]]

Total(table, x, from) == SumFunctionOnSet(Column(table, x), {r \in Model \X Day : r[2] >= from})

(* get_usage_summary: the dates from `days` days ago on, or all of them.   *)
UsageSummary(days, x) == Total(daily, x, IF days = 0 \/ days >= today THEN 1 ELSE today - days)

(* get_usage_daily_summary: `days` dates, today being the last of them.    *)
DailySummary(days, x) == Total(daily, x, IF days >= today THEN 1 ELSE today - days + 1)

HourlySummary(x) == Total(hourly, x, 1)

-----------------------------------------------------------------------------
(* Properties *)

Outcome == [todo : Seq({"error", "limit", "usage", "attempt", "task", "capability"}),
            at : Deployment \cup {Null}, ok : BOOLEAN, tokens : Nat, reported : BOOLEAN,
            category : Category, stated : LimitValue \cup {Null}, type : {"rpm", "rpd"},
            cooldown : BOOLEAN, agent : Agent \cup {NoAgent}]

(* The types of the tables, of the callers and of the synchronisation      *)
(* (the schema in migrate, learner.rs, sync.rs).                           *)
TypeOK ==
    /\ up \in BOOLEAN /\ today \in Day
    /\ daily \in [Model \X Day -> Usage] /\ hourly \in [Model \X Day -> Usage]
    /\ lifetime \in Usage
    /\ errors \in [Model \X Category -> Nat]
    /\ limit \in [Model -> [LimitType -> Nat \cup {Null}]]
    /\ known \subseteq Model /\ learned \subseteq Model \X LimitType \X Nat
    /\ attempts \in [Deployment -> Seq(BOOLEAN)]
    /\ deployment \in [Deployment -> [ok : Nat, bad : Nat, streak : Nat, cooling : BOOLEAN]]
    /\ tasks \in [Model \X (Agent \cup {NoAgent}) -> Seq(Nat)]
    /\ observed \in [Model -> Nat]
    /\ status \in [error : BOOLEAN, found : Nat, updated : Nat]
    /\ sync \in [at : {"idle", "upsert", "learn"}, models : SUBSET Model, left : SUBSET Model,
                 updated : Nat, stated : [Model -> LimitValue \cup {Null}]]
    /\ call \in [Caller -> Outcome]
    /\ begun \in Nat /\ lost \in Nat

(* The figures the dashboards show side by side nest: what outlives the    *)
(* days never counts more than the hours, and these no more than the days, *)
(* whatever was cut short; and they differ by no more than was cut short.  *)
(* "N days" of the summary hold the N days of the trend.                   *)
TotalsNest ==
    /\ \A x \in {"requests", "errors", "tokens"} :
          LET hours == HourlySummary(x)
              days  == UsageSummary(0, x)
          IN  /\ lifetime[x] <= hours /\ hours <= days
              /\ x # "tokens" => days <= lifetime[x] + lost
    /\ \A n \in Day : DailySummary(n, "requests") <= UsageSummary(n, "requests")

(* In the tables that are not rewritten at every start, each token is      *)
(* either reported or estimated.                                           *)
TokensSplit ==
    /\ lifetime.tokens = lifetime.reported + lifetime.estimated
    /\ \A r \in Model \X Day : hourly[r].tokens = hourly[r].reported + hourly[r].estimated

Pending(method) == Cardinality({c \in Caller : \E i \in 1..Len(call[c].todo) :
                                                  call[c].todo[i] = method /\ ~call[c].ok})
Failures == SumFunctionOnSet(errors, Model \X Category)

(* The errors by category and the errors of the usage count the same       *)
(* failures: they differ by the failures being recorded and by what was    *)
(* cut short.                                                              *)
ErrorsFollowUsage ==
    LET categorised == Failures + Pending("error")
        counted     == UsageSummary(0, "errors") + Pending("usage")
    IN  categorised <= counted + lost /\ counted <= categorised + lost

(* The last n attempts failed, and the one before them did not. *)
EndsWithFailures(s, n) ==
    /\ n <= Len(s)
    /\ \A i \in 1..Len(s) : i > Len(s) - n => ~s[i]
    /\ n < Len(s) => s[Len(s) - n]

(* "The source of truth for diagnosing failover": a deployment's row       *)
(* agrees with the trace of its attempts unless something was cut short,   *)
(* and a deployment cools only if its last recorded attempt failed.        *)
DeploymentMatchesAttempts == \A d \in Deployment : LET r == deployment[d] IN
    /\ r.ok + r.bad <= Len(attempts[d]) /\ Len(attempts[d]) <= r.ok + r.bad + lost
    /\ lost = 0 => EndsWithFailures(attempts[d], r.streak)
    /\ r.cooling => r.streak > 0

(* What is known of a model's limits is not forgotten and not relaxed by   *)
(* an outcome of a request: only a catalogue that states a limit for this  *)
(* model may raise what a 429 has taught.                                  *)
LimitsOnlyTighten == [][\A m \in Model, t \in LimitType : limit[m][t] # Null =>
    /\ limit'[m][t] # Null
    /\ limit'[m][t] > limit[m][t] => sync.at # "idle" /\ sync.stated[m] # Null]_vars

-----------------------------------------------------------------------------
(* What the repository says of the store and the code does not do.         *)

(* "token_reported_requests only increments for upstream-reported usage,   *)
(* not gateway estimates" (docs/adaptive-routing-rules.md): the migration  *)
(* of the next start counts every estimate of a day without reports.       *)
EstimatesAreNotReported ==
    [][UsageSummary(0, "reportedRequests")' > UsageSummary(0, "reportedRequests")
          => \E c \in Caller : Recording(c, "usage") /\ call[c].reported]_vars

=============================================================================
