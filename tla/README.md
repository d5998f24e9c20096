# A verification of free-agent-gateway

free-agent-gateway is an HTTP gateway in front of several providers of language
models.  It holds many API keys, spends the free ones first, falls back from one
key, model or provider to the next, keeps track of which keys are usable, and
counts what it spends.  This directory holds TLA+ models of the parts in which
that can go wrong, the TLC configurations that check them, and proofs of their
main properties for every number of keys, requests, providers and every limit.

All modules are read off the Rust sources under `src/src/`.  `PROJECT.json` maps
each definition to the lines it stands for.

## 1. The system

| Part | State it keeps | Operations | What makes it correct |
|---|---|---|---|
| `KeyPool` (`keyhub/mod.rs`) | per key: status, failure count, deadline, models, request counters with limits and their sources; per provider: two atomics | `reserve_key`, `report_*`, `recover_expired`, `force_transient_cooldown`, `restore_key_by_id`, `update_models`, limit learning | budgets are kept under concurrency; one probe at a time; no deadline on a usable key; an ill key comes back |
| provider cooldown (same file) | `provider_fail_count`, `provider_cooldown_until` | counted by reports, tested and reset by selection | earned by consecutive failures, ended by a success, and by time for all it keeps out |
| `KeyHub` | provider name -> pool | dispatch, `register_provider`, `report_gateway_error` | as the pools |
| `Router` (`router/mod.rs`) | per request: candidates, tried and invalid ones, last error; shared: blocked models, discovery backoff, rotation counter | `candidates_with_refresh`, `order_candidates`, `chat`, `chat_stream`, `account_stream`, `post_openai_json`, `refresh_free_models` | nothing left out before an error, paid keys last, every reservation settled, no repetition, an end; deployments in the order of their records; a backoff that ends |
| adapters and classification (`providers/`, `error.rs`) | - | `chat`, `chat_stream`, `post_json`, the predicates on errors | a report fits its evidence |
| metadata store (`metadata/`) | usage by day, by hour and for ever, errors, attempts, `deployment_state`, learned limits, catalogue | `record_*`, the learner, `sync_openrouter`, `migrate` | the tables agree with each other up to what was cut short; limits only tighten; a deployment cools down by its own failures |
| state file (`state/mod.rs`, `api/admin.rs`, `main.rs`) | the JSON file and its temporary file | `save`, `load`, `POST /admin/save` | whole at every moment; a restart finds the last save |
| watcher, health (`watcher/`, `health/`) | health per provider | `check_all` | what it learns reaches the pools |
| admin endpoints (`api/admin.rs`) | - | validate, restore, refresh, toggle, configuration, save | no operation leaves a pool in an illegal state |
| model list (`api/models.rs`) | - | `/v1/models` | what is listed is served |
| adaptive routing (`adaptive/`) | - | scopes, scoring, one attempt | the best of the allowed candidates, from where the page says |
| rate rules (`rate_rules.rs`) | - | periodic limits from the key APIs | limits of the operator stand |
| compatible APIs, configuration, pages | - | HTTP and text | - |

**Interaction.**  A chat request runs on its own task.  It asks the hub for
candidates (which recovers expired keys on the way), reserves one under the
pool's lock, waits for the upstream without any lock, and reports what the
adapter and the classification make of the answer.  Between
reservation and report everyone else acts: other requests, the watcher, the rate
rules, the operator, the clock.  Attempts leave rows in the metadata store, which
the next selection reads.  A stream is accounted for after the handler has
returned.  The deadline of the gateway or the departure of a client drops the
handler's future where it waits; nothing runs after it.  The state of the keys is
in memory and only `POST /admin/save` writes it to disk; the metadata are in a
SQLite database, whose statements are written one by one.

**What is hard.**  Reports that arrive after the key's state has moved on;
candidates that are stale when they are asked; check-then-act on two atomics;
probes nobody answers; counts that belong to a window that has ended; three
ways of learning a limit with different precedence; three rounds of attempts
with different conditions; wordings that overlap in one error text; streams that
end anyhow; overlapping discoveries with one backoff; saves that overlap or die
half-way; tables that are written one after the other.  `PROJECT.json`
lists these hazards at the lines where they bite, with the properties that cover
each of them and the ones that nothing covers yet.

## 2. The modules

```
KeyStates  RateBudgets            what an operation does to one key's record
     \      /                     and to its counters (pure operators)
     KeyPool ---implements---> Admission
     /   |   \
    /  MCKeyPool  KeyPoolProofs
 Discovery  - MCDiscovery, DiscoveryProofs      KeyPool + who asks for models + restart

 ProviderGate                                   the two atomics
     |
 UpstreamAnswers - UpstreamAnswersProofs        ProviderGate + what an answer amounts to

 ModelRouter  - MCModelRouter, ModelRouterProofs
 StateFile ---implements---> DurableState;      MCStateFile, StateFileProofs
 ModelMetaStore - MCModelMetaStore, ModelMetaStoreProofs

 ModelNames                                     names, variants, resolution (pure operators)
     |
  Routing                                       candidates, their order, forwarding, the list
     |
 AdaptiveRouting - MCSelection, SelectionProofs scopes and scoring on the same pools

 FiniteInduction                                induction, and what follows from it about sums,
                                                ranks, sorted, filtered and joined lists; used by
                                                ModelMetaStoreProofs and SelectionProofs
```

Each line down is an `EXTENDS`, so the composition is in the module below:
`Discovery` runs discoverers beside the pool's traffic, `UpstreamAnswers` drives the
gate by answers, `AdaptiveRouting` reads and reports to the pools of `Routing`.

### KeyStates, RateBudgets, KeyPool

One action per method of `KeyPool`, because a method holds the write lock on
`keys` from its first line to its last.  A caller is idle, has `sent` a request
with the key it `holds`, or is about to `learn` from response headers.  Reports
are `Answered`, `ReadHeaders`, `Failed` (with each class of failure the router
and the streams report) and `Abandoned` (no report).  `Survey` is a selection,
which recovers expired keys; `Snapshot` the periodic copy of `main.rs`;
`Validate`, `RestoreKey`, `UpdateModels`, `ApplyOfficialLimits` and `Register` are
the operator's and the background jobs' ways into a pool.

Deadlines are the time that is left, so a tick ages them; an expired one is 0 and
`None` is -1.  A window is a clock of its own, and `current` says whether a count
belongs to the window that is running.  The tokens' axes, timestamps, texts and
the order in which keys are offered are left out: nothing here is decided by
them, and selection offers any key to anyone.

`granted` (reservations in the running window) and `probe` (time an unanswered
probe has left) are history variables.

### Admission

What a pool owes to its provider's quota: a metered key is admitted at most
`Limit` times in a window and not at all while it is on hold.  `KeyPool` implements
it with `used <- granted`, `hold <- probe`.

### ProviderGate

The two atomics of the provider cooldown at the grain of one access.  Reports
exclude each other by the pool's lock; selection does not take it, so its test
(`Select`), its first (`ClearExpired`) and its second reset (`ClearFails`) are three
steps with everything in between.  The rounds of the router and the forwarding go through
that test.  Adaptive routing (`collect_candidates`) and the operator's refresh and checks
do not: they are the tasks in `Direct`, whose selection (`SelectDirectly`) reads neither
atomic while their reports count and cool down like anybody's.

### UpstreamAnswers

What becomes of one answer: `Heard` is what an adapter returns for a status, a body and
a transport that may be refused or run into the timeout, `IsKeyAttributable` and its
kin are the predicates of `error.rs` in the order in which they are asked, `Reported`
is what each of the places that hear the answer (a request, a rediscovery, the
validation, ...) tells the pool, and `StreamReport` what `account_stream` makes of a
streamed body.  The report is then a `Success`, a `Failure` or a `Spare` of the gate.  A
task of the gate hears at the places that select through it (`GatedSite`), one in `Direct` at
those that do not (`DirectSite`).  A refresh that hears a disabled key answer, or that
runs into its own timeout, reports nothing (`UnreportedOutcome`).

A text is the set of the kinds of wording that occur in it, at most `MaxWordings`
together; the code searches lower-cased text for lists of substrings, and any of
these may be in one message.  `Evidence` is what the answer shows, stated without the
code's predicates: a diagnosis of a firewall, a region or a model, a credential that
is proved bad, a limit, an outage, an answer.  A streamed body is a sequence of at most
`MaxChunks` lines: text, pieces of a tool call, an empty piece, a line that does not
parse, the terminator.  Where the adapter parses a body before it looks at the
status, the status is lost in the model as well.

### Discovery

`run[d]` is one run of discovery: of a request (`refresh_free_models`), of the watcher,
or of the operator (`admin_provider_refresh`, which reserves the keys it asks and
reports on them).  `todo` are the keys still to be asked; no lock is held while one is.
The backoff has the number of failures and an age, and the run its own age, so that
`now - last_attempt` is the difference of two ages: negative when the failure
that is stored belongs to a run that began later, and then the subtraction wraps in a
release build and the backoff is over.  A refresh takes the pool's lock twice after the answer: to
store the models (`RefreshLists`) and to settle the reservation (`RefreshReports`).
`DiscoveryInit` starts from the first start of a pool or from what
`restore_states` makes of any saved state (`RestoredInit`): status, deadline, failures and models of
a key, and of its budgets the counts, the age of their windows and the limits that were
learned.  What is bounded there is the configuration: no limit has been taken out of it
since the file was written.  `Outage` makes the provider's list fail and return.

### ModelRouter

`req[r]` is the state of one handler of `chat` or `chat_stream`; the fields carry
the names of the code's local variables where it has them.  The phases are the
selection, the rediscovery of models, the three loops (`free`, `rescue`, `paid`),
the stream after the handler has returned, and the end.  `Ask` is a reservation
that succeeds, `Refused` and `PassOver` are the ways past a candidate or a provider,
`Advance` leaves a loop.  `Fails`, `EmptyAnswer`, `Answers`, `StreamOpens`, `StreamEnds`,
`StreamBreaks` and `Dropped` are what may become of an attempt.

A deployment is a pair of a key and a model, as in the primary key of
`deployment_state`.  What the pools offer and refuse is chosen freely at each call,
so whatever `KeyPool` allows is included.  For the same reason the order of
candidates is free: the properties hold for each order `order_candidates` may
produce.  An error is one of seven classes, distinguished by what the router does
about them: is the pool told, is the request rescued, may it escalate.

`unsettled` and `excused` follow the reservations.  They are history except for
what they say about the code: a reservation is `excused` when the code chooses not to
report (the failure is not the key's) or when the handler is dropped.

### ModelNames, Routing

A name is a path of components and a tier (`:free`, `:extended`, ...), which is all
the rules of names look at.  `Variants`, `NameFor`, `Resolve` and `FallbacksFor` follow the
functions of `router/mod.rs`; `Candidates` builds the list in the order of the code
and `Order` sorts it and applies the two rotations.  Words in a name that score for or
against automatic fallbacks are a constant.

`Routing` keeps of a key what selection reads, and moves it by results, new model
lists, recovery, cooldowns of deployments and providers, and the operator's blocks.
`ChatAsk` selects, orders and reserves the first deployment offered and `ChatHear` reports and
records its result (the rounds are in `ModelRouter`).  `StartForward`, `NextProvider`,
`ForwardAsk`, `ForwardHear` and `ForwardFails` are `post_openai_json`: the list of the next
provider's keys, the reservation of one and the report of its answer are steps of their own, as
nothing is held across its awaits.  Between any two of these steps chats reserve and report,
lists change, cooldowns of keys, deployments and providers begin and end, and the operator blocks.
Three bounds say how much of it the run includes: one chat waits for its answer at a time,
`MaxLoad` reports are made in all, and while a forward is under way `MaxMeanwhile` of
the steps that have no end of their own (a chat, a new list, a gate, a block) are taken.  `Listed`
is what `/v1/models` shows.  The properties of computed lists are evaluated between requests
(`Settled`): the lists read nothing of a request that is under way but what it did to
the keys.  Lists are filtered by `Keep`, sorted by `StableSort` and turned by `Turn`, which are
written without recursive operators so that they can be reasoned about.

`ServableNames` says what the list of models relies on, all of it left to the operator and to
what the providers list: a fallback provider is registered; an alias has no suffix and is not
also a model some key lists; and no provider lists a `:free` variant of an aggregate or a
Cloudflare name, which are tried as they are only.  Where one of these fails, a name may be
listed that is not served by the provider it is listed under.  `MCSelection` has TLC check
that its names are such names.

### AdaptiveRouting

A scope is `/auto`, an agent, a group or a provider.  `Allowed` is what
`constraints_for_scope` makes of it and `Shown` what the page of routes says, by code
of its own.  `Needs` is the profile of the task, `Collected` the candidates of
`collect_candidates`, `Eligible` those that can do it and `Best` the highest score,
with the integer arithmetic of `scoring.rs`.  `Pick` chooses, `AskPicked` reserves for the one
attempt made, and `HearPicked` reports it; everything else comes between.

### ModelMetaStore

An outcome of a request is a list of methods still `todo`, in the order in which the
learner and `record_request_attempt` call them; each takes the lock of the database
for itself, and two callers, the synchronisation and midnight come between them.  A failure
is followed by all of them (`Failed`) or, in the rescue and paid rounds of a stream, by the attempt
alone (`RescueFailed`).  A failure teaches at most one limit, where the learner writes each it finds
in the text.
`record_usage` is three statements and no transaction: `UsageCutShort` leaves out
the later ones.  `Fault` is a statement that fails; `Crash` ends the process, `Open`
migrates and goes on, `OpenFails` leaves the gateway without the store.  `lost` counts what
was cut short.  A table is a function of its key; hours are kept by day.

### StateFile, DurableState

Names lead to inodes, a writer holds an inode, a rename moves a name.  With that a
second save on the same temporary name is modelled by what a directory does and
needs no case of its own.  A save reads the keys and the blocked models under two
locks (`SnapshotKeys`, `SnapshotBlocks`), truncates and writes the temporary file
(`OpenTmp`, `WriteTmp`, `WriteFails`) and renames it (`RenameTmp`, `RenameFails`,
`RemoveTmp`).  `Crash` may come anywhere; `Restart` loads.  Of the state only the
number of changes of either part is kept.  What the operating system has not yet
written when the machine itself goes down is not modelled: the code calls no fsync
and promises nothing about it.

`DurableState` says what saving is for: the saved state moves forward to some
state between the last saved one and the present one, and a restart goes back to
it.  A `StateFile` implements it; what it would load is the saved state.

## 3. The runs

| Run | Instance | States | Shows |
|---|---|---|---|
| `pool_lifecycle` | 1 key with minute and day limit, 2 callers, headers, 429s, official limits, operator | 564,584 | the invariant of the proofs, configured limits, observations only tighten, one probe at a time, implements `Admission` |
| `pool_live` | 1 key, 1 caller, 2 requests that discover, watcher on or off, operator, any saved state, 1 outage | 377,203 | no stale deadline; deadlines run out, disabled keys return, the backoff ends |
| `gate` | 2 keys, 2 requests through the gate and 1 around it, 2 attempts each, 3 adapters, 2 wordings per text, 3 lines per stream | 52,834 | penalties fit their evidence; the provider cooldown is earned by outages, ends by a success, and ends unless those who go around it keep failing |
| `router` | 2 providers, 3 free keys, 1 paid, requests one after another | 251,608 | nothing left out, no paid key before the free ones are exhausted, all settled, no repetition, an end |
| `statefile` | 1 save at a time, 2 inodes, 2 changes of each part | 129,294 | whole file, covering saves, implements `DurableState` |
| `metadata` | 1 model, 1 deployment, 2 outcomes at a time, a catalogue, 2 days, 2 faults | 260,189 | tables agree, tokens are split, limits only tighten |
| `selection` | 3 providers, 5 keys, 8 names, 5 strategies | 151,711 | the order for requests with and without an agent, turns, no repetition while others change the keys, lists against service, adaptive choice |
| `v_...` | as below | - | a statement of the repository that the code does not keep |

**Bounds.**  Two callers are enough for the hazards of a pool, all of which are
between one report and one other operation; the proofs do not have the bound.  One
key suffices because the operations on one key neither read nor write another.
Ticks: a transient cooldown lasts 2, the shortest escalation 1 and the real-model
cooldown 3, so that deadlines overlap windows (2 and 4 ticks) and each other in both
orders.  `FailCap` bounds the failure count where the code stops telling counts apart
(the threshold and the last escalation tier); `CountCap` is `u32::MAX` made small.
The gate needs the threshold, two (two keys, one failure each), to be reached by one
request while another is in the middle of its selection, and somebody who goes around it.
Two wordings in a text are enough to bring any two predicates into conflict,
three lines of a stream for a tool call in two pieces and its end.  One key shows all
of discovery, since a backoff belongs to a provider and a list to a key; one outage lets
the backoff climb, and discovery of a request overlaps with the watcher's, the operator's
and another request's, which may date the backoff back and make the subtraction wrap.
The second requester is in `Alone`: it discovers only while the watcher is off and no caller
and no operator is about, which keeps the product of all of them small.  `pool_live` counts no requests
(`CountCap` 0) and its files hold no learned limits: what limits do is in `pool_lifecycle`,
and that they are kept after a restart is in `DiscoveryInvariance`.  Two outcomes and two
faults let any two methods of the store interleave and one be cut short by a
failing statement and one by a crash; `CatalogueOrTraffic` keeps
a behaviour to the catalogue with one failed request of the first day, or to requests alone,
because limits and usage share no table.  The names of `selection` are chosen so that each rule of
resolution decides one of them; a failure is enough for a cooldown (`FailThreshold` 1).  `Forwarded`
names the strategies, routes and agents of the requests to forward and `MaxMeanwhile` how much others
do while one is under way: enough to cool, to spend, to recover or to list anew a key that is asked
or still to be asked.  The rotation counters stop at `MaxTurns`, before they have been all round a
list; `EachHasItsTurn` has no such bound.  The router needs a
provider with two free keys (an invalid model on one, its other key), with a paid
key, and a provider to rescue; requests meet each other only in `blocked` and
`cooling`, which the operator and the clock change at any time anyway.  Two inodes
are what one saver and two names can use; two changes let each part lie before,
at and after a save.  `MaxAttempts`, `MaxChange`, `FailCap`, `CountCap`, `RunLimit`, `MaxOutages`, `MaxMeanwhile`,
`MaxLoad`, `MaxTurns`, `LastDay`, `MaxTokens`, `MaxRequests` and `MaxFaults` are the bounds that are in guards or
in arithmetic.

**Fairness.**  `DiscoverySpec` (and `TrafficSpec`): time passes, and the task that `main.rs`
spawns takes its snapshot again and again; the watcher goes on where it is enabled,
because its loop never ends and each of its calls has a timeout; a request that has
begun its discovery goes on with it, but no request has to come or to be answered.
`ModelsAreFoundAgain` assumes in its statement that requests nothing serves keep
coming, and leaves out a key with a limit: others may use up each of its windows.  `AnswerFairSpec`
and `ProviderGate`: time passes, and a report that has taken the lock stores its
result.  `ProviderReopens` has a condition, that those who go around the gate fail only finitely
often: each of their failures may renew the cooldown.  `ModelRouter`: a handler that has begun and can go on does (it is polled),
and an attempt that is under way ends, because the HTTP clients have connect and
idle timeouts (`providers/mod.rs`).  A stream may last as long as it likes, and so may
the time between requests.  `StateFile`, `ModelMetaStore` and `Routing` have no liveness property: nobody has
to save, to record or to ask.

**Stopping.**  In `metadata`, `v_EstimatesAreNotReported` and `selection` the check for
deadlock is off, because their bounds stop requests that nobody has to make.  In
all others time, the operator or the next request can always act.

### Where text and code part

Each of these is checked by a run of its own, which finds the statement violated.

- `TemporarilyUnavailableKeysRecover` (`docs/key-availability-improvement-plan.md:18`).
  A 429 on a model clears the key's deadline and keeps its status, on the assumption
  that the key is available.  If it was in cooldown, because it was a probe or
  because another request had just cooled it, it stays there without a deadline and only the operator
  brings it back.
- `DisabledUntilRestored` (`ARCHITECTURE.md:110-111`).  A request in flight on the same
  key overwrites `Disabled` by a status that expires.
- `ServerErrorsAreRescued` (comment at `router/mod.rs:1207`).  "5xx" is in the comment
  and not in the code: a last error that is a 5xx, an undecodable or an empty answer
  ends the request without the rescue round.
- `FileIsWhole` with two savers (comment at `state/mod.rs:44`, `ARCHITECTURE.md:202`).
  Two overlapping saves share one temporary file, and a rename may publish it just
  after the other has truncated it.
- `EstimatesAreNotReported` (`docs/adaptive-routing-rules.md:254`).  The migration was
  written for databases that did not tell reports from estimates, and runs at every
  start: a day of which every token was estimated counts as reported after the next one.

Four more are about what a property says, and are among the findings of `PROJECT.json` with the
passing run of that property, which states what the code does keep:

- A provider in cooldown is to be excluded or penalised before routing
  (`docs/key-availability-rules.md:299-304`).  Adaptive routing (`adaptive/mod.rs:697-755`) and the
  operator's refreshes and checks (`admin.rs:277-313`) never read the cooldown, and their failures renew
  it: they alone can keep a provider closed to everybody else.  `ProviderReopens` has the
  condition that they stop failing, and TLC finds it violated without it.
- `CONFIG.md:24-25`: paid keys are "never selected automatically"
  (`docs/superpowers/specs/2026-06-25-key-model-capability-routing-design.md:162` says the same).  When the
  last error is a 429, `chat` and `chat_stream` ask one by themselves (`router/mod.rs:1346-1366`), as
  `README.md:27` and `RELEASE.md:34` promise.  `PaidIsLastResort` is about when they do.
- Rotation is to be "limited to the lowest-penalty candidate group"
  (`docs/error-improvement-log.md:324`, `docs/reliable-key-routing-research.md:196`).  The rotation by
  the agent's hash (`router/mod.rs:828-838`) turns the whole list under every strategy, so a request that
  names an agent may be offered the worst deployment first.  `DegradedStayBehind` says what holds for each
  kind of request: ascending penalties without an agent, and for an agent a list that, read as a
  circle, has them ascending once round.
- `CONFIG.md:97`: round_robin goes through keys and providers in order.  The counter is shared by all
  names (`router/mod.rs:29`): two names with two deployments each, asked for in turn, get the same
  deployment every time.  `TurnsMoveOn` is about the counter: no step of it skips or repeats a
  deployment of any name.

Met while modelling, without a run of their own.  Keys and providers:

- Selection resets a provider cooldown that was stored after it had seen the old one
  expired (comment at `keyhub/mod.rs:1491`).
- A success is not the only way to `Available`: the cooldown in which a probe parks
  its key expires like any other (`docs/adaptive-routing-rules.md:93`), and on that
  way the failure count is reset although the comment at `keyhub/mod.rs:365` wants the
  escalation to persist.
- A probe of a key that failed key-wide without a 429 succeeds and leaves the key in
  `Cooldown` (`docs/key-availability-rules.md:75`).
- The heuristic on response headers may replace a configured day limit, after which
  the key API may raise it (`update_observed_limits`).
- A limit that was taken out of the configuration comes back from the state file, still marked
  "config" (`keyhub/mod.rs:313-320`), so that nothing that is observed may replace it.
- `docs/key-availability-rules.md:258` speaks of independent keys; one key alone can
  cool down its provider.
- `ARCHITECTURE.md:246` and `CONFIG.md:419` describe an automatic save; the task in
  `main.rs` writes nothing to disk.
- `CONFIG.md:121` calls manual model blocks the source of truth, and
  `docs/error-improvement-log.md:322` has deployments in cooldown skipped; the rescue and
  paid rounds and `post_openai_json` look at neither.
- A success in the rescue or paid round of `chat` records no attempt, so a cooldown
  of that deployment stays.

Answers:

- "A model/region/WAF diagnostic still does not disable or key-wide cool the key"
  (`docs/key-availability-rules.md`): the chat of the Cloudflare adapter and the default
  `post_json` parse the body before they look at the status, so a page in HTML with a
  403 (or 401, or 429) is an undecodable answer, reported as a 500.
- "Do not disable key: ... quota exhaustion" (same file): a 403 that speaks of a quota or
  of something insufficient is taken for a bad credential.
- A retry hint in a field of the JSON body is honoured for streams, whose message is the
  whole body, and lost for other requests.  "try again in 7m12s" is read as 12 seconds
  (`error.rs:368`).
- A piece of a tool call with `arguments: null` becomes `{}` and is appended to the
  others, so the whole call no longer parses.  A line that is split over two chunks
  counts as text.  The usage of a stream is lost when the terminator has a chunk to itself.
- The validation of a key says `key_state_updated` for an ambiguous 403 although
  nothing is reported.  `classify_error` files a 403 of a firewall under "auth".
- `preview_body` cuts at byte 240, also within a character.

Discovery:

- Failures of discovery change no key's availability according to
  `docs/adaptive-routing-rules.md:97` and `docs/error-improvement-log.md:567`; the
  operator's refresh reserves and reports them, and on its timeout settles nothing.
- Overlapping discoveries each count their failure, and date the last one back to their
  own beginning.

Selection:

- `CONFIG.md:28-31` and `:116` put the exact model first; the penalty comes before
  the exactness of the name, so a healthy fallback is offered before a failing original.
- `docs/skills/free-agent-gateway/SKILL.md:53` takes listed names for served ones: a name that is listed for a variant `:paid` or
  `:extended` alone is not, and neither is one that begins with the name of a provider.
- Forwarding ignores the operator's blocks and the cooldowns of deployments.
- Adaptive routing makes one attempt, ignores the cooldowns of deployments as well as of providers,
  never forgets a failure, and does not read its `mode` and `hard_override`.

## 4. The proofs

All theorems hold for every value of the constants that meets the modules' named
assumptions (types of the parameters; for `FailCap`, that it lies at or above
the threshold and the last tier; for the metadata, that models and callers are
finitely many; for the selection, that providers, names and keys are, that no two names
and no two providers have the same place in the alphabet, and that a key is one entry of one pool).
Those of the state file have the hypothesis that there is one saver, and `ListedAreServed` has
`ServableNames`, without which they are false.

**KeyPool** (`KeyPoolProofs`).  `IInv` is the inductive invariant.  The budget
properties need `CountsCoverGrants`: the counter is at least the number of
reservations in the window, and a stale counter stands for none of them; with
`reserve_key` testing the counter under the lock that increments it, the limit
follows.  `ConfigMarkIsTrue` ties the mark "config" to the configured value, and shows
that it is never lost on the minute axis.  `ProbedKeyIsParked` says that an unanswered
probe and the deadline of its key run down together, from which `HalfOpenExclusive`
follows.  One lemma per operator says what it does to a record, one per action that
it preserves `IInv`.  Then: `NoStaleDeadline`, `LimitRespected`, `RpmRespected`,
`HalfOpen`, `OnlyTightens`, and `Refinement`: each step of the pool is a step of
`Admission` or leaves its variables alone.

**ProviderGate** (in `UpstreamAnswersProofs`).  `GateInv`: the reports exclude each other,
the counter never exceeds the failures since the last success, and a report about to
cool the provider down has seen the threshold.  From it `Earned` and `SuccessOpens`.

**UpstreamAnswers** (`UpstreamAnswersProofs`).  `AnswersDriveGate`: a gate that is told
what answers amount to is a gate that may be told anything, so `GateInv`, `Earned` and
`SuccessOpens` carry over (`AnswersKeepGateInv`, `EarnedByAnswers`, `AnswersOpen`).
`PenaltiesFit` goes through the adapters one by one: what each of them can return for a
page, what the classification says of it, and what each place reports of it, for any
number of wordings in a text and lines in a stream.  `OutagesAlone` follows from it.

**Discovery** (`DiscoveryProofs`).  `restore_states` establishes the pool's `IInv` from every saved
state: for the keys because every deadline it restores belongs to a status that waits for one, for the
budgets because a configured limit replaces the saved one and what the file counts in a
window covers what was granted in it (`Carried`).  Each step of each kind of discovery preserves
it (`DiscoveryInvariance`), so `NoStaleDeadlineAfterRestart`.

**ModelMetaStore** (`ModelMetaStoreProofs`).  `StoreInv` is `TypeOK`, `CallsDefinite` (a
caller with something left to write knows about which deployment, and which limit),
`CallsOrderly` (it owes each method once, and that of an error only for a failure), `RowsSplit`
(each row's tokens are reported or estimated, and a row without a reported request
has no reported tokens), `DeploymentMatchesAttempts`, `TotalsInv` and `ErrorsInv`.  `RowsSplit`
is stronger than `TokensSplit` because the migration rewrites rows at every start: a row
that is split in this way is one it leaves alone.  `TotalsInv` compares whole columns of the
three tables, and `ErrorsInv` the categories, the column of errors and the callers that have
yet to write one of them; a step adds to one entry of a column, so its sum grows by as
much (`SumGrows`), and the migration changes no column that is compared.  From it `StoreTypes`,
`TokensStaySplit`, `AttemptsMatch`, `LimitsTighten`, `TotalsStayNested` and `ErrorsStayTogether`.

**ModelRouter** (`ModelRouterProofs`).  `RouterInv`, handler by handler:
`RoundsInOrder` (what was known on entering a round stays true, so an error means
that earlier rounds are exhausted), `AttemptsTracked` (an attempt was a candidate or
has used up its provider's turn) and `SlotInUse` (the attempt under way is none of
the excused).  The last one needs that no deployment is asked twice, which comes from
`AttemptsTracked`: the invariant is inductive only with all three.  From it
`NothingLeftOut`, `PaidLastResort`, `AllSettled` and `NoSecondAsking`.

**StateFile** (`StateFileProofs`).  `FileInv`: the two names lead to different
inodes, the saver's is the temporary one, its image is complete before the rename and
lies between what is in the file and what is in memory.  From it `AlwaysWhole`,
`SavesCoverRequests` and `StoreRefinement`.

**Selection** (`SelectionProofs`, about `ModelNames`, `Routing` and `AdaptiveRouting` together).
`Typed`, the types of the state, is inductive, and most theorems say of any typed state what the
lists computed from it are.  `Takes(t, s, I, at)` says that the list `t` has the entries of `s` at
the places `I`, each once; filtering, sorting and turning each take, and takes compose, so
`Order` takes the candidates: none is lost, none invented (`OrderTakes`).  The candidates differ
because a provider is visited once, a name is pushed once and a key is in one pool
(`NoneOfferedTwice`).  A stable sort puts lower keys first (`RankedTakes`), and the penalty is the
first component of each key; the counter's rotation shifts the healthy prefix within itself (`Shifted`), and the agent's
turns the whole of an ascending list, which then falls at one place of the circle only: together
`TheDegradedAreLast`.  Consecutive values of the counter differ by one place of each prefix, also
where the remainder starts again from 0: `EachHasItsTurn`, which is `TurnsMoveOn` without the run's
bound on the counter.  `NoKeyAskedTwice` is about a request's whole life, with reservations and reports
apart and everybody else's steps between them, and needs `Asking`: the keys and the providers a
request has left are `Fresh`, that is, distinct and none of those already asked or visited.  `ListedAreServed` follows a listed name through
`MergeFamilies`, `Resolve`, `Variants` and `Candidates`; it needs `Stocked` (a key lists nothing its
provider does not) and has the hypothesis `ServableNames`, without which it is false.
`AnswersAreShown` and `FailuresDoNotHelp` rest on the choice by `Best` being the
least in a strict order of claims, and on the score's integer division being monotonic;
they hold in every state, where the run looks at some (`Light`).  `ScopedListsAreServed` compares the
list of a scope with what is collected for a request.

**Induction** (`FiniteInduction`).  Sums, ranks and lists built element by element need induction,
and the induction theorems of the library take the formula as an operator, which the provers cannot
instantiate.  Here a formula is the set of the numbers (or of the subsets of a finite set) that
satisfy it: `AllNaturals` and `FiniteSubsets` say when such a set is everything.  `BoundedRecursion`
gives a function defined by recursion up to a bound its equations.  From these come
`SumGrows` and `SumsEqual` for sums over sets, ranks in a strict order, and what `Keep`,
`Sorted` and `FlattenSeq` take from their arguments.

**Checked by TLC only.**  Liveness (`DeadlineRunsOut`, `DisabledKeyReturns`,
`ModelsAreFoundAgain`, `ProviderReopens`, `RequestsEnd`), which is out of the prover's reach, and the
statements above that fail.  Every invariant and every other property of an action that the passing
runs check is also the statement of a theorem.

## 5. Left out, and next

Not modelled: the parsing of the configuration, which happens once before anything
runs, and the pages, which render.  Partly modelled are the parts `PROJECT.json` marks
so, with what is missing; the largest of these:

- the token axes of the budgets (`tpm`, `tpd`) and the overflow of their sum;
- the translation of the compatible APIs and the conversion of Ollama's stream;
- the compression of the context and the handoff between models;
- the registry of health states, which decides nothing;
- the queries of the metadata store that only read, and percentages and latencies;
- shards and threads, hence the map guard that discovery holds across its awaits.

Next, in this order:

1. The token axes, in `RateBudgets`, with the saturating counters and the unsaturated sum.
2. A refinement of `ModelRouter` with `Candidates` and `Order` of `Routing` in the place of
   its free choice, and with `KeyPool` in the place of what the pools may refuse.
3. Chunks: lines split over chunks and the usage in the last one, as a module under
   `UpstreamAnswers`.
4. Proofs: no backoff is cut short while one discovery runs at a time; the refinement of 2.
