------------------------------ MODULE Routing -------------------------------
(***************************************************************************)
(* Which deployments a /v1 request is offered and in which order           *)
(* (Router::candidates, order_candidates and post_openai_json of           *)
(* src/src/router/mod.rs over the key pools of src/src/keyhub/mod.rs), and *)
(* which names GET /v1/models shows (src/src/api/models.rs).               *)
(*                                                                         *)
(* What happens to the offered deployments of a chat is ModelRouter.tla,   *)
(* what a key's status and budgets do is KeyPool.tla.  Here a key has only *)
(* what selection reads of it, and an upstream call one of four results.   *)
(* A call is two steps, the reservation of its key and the report of its   *)
(* result, with everything else in between.                                *)
(***************************************************************************)
EXTENDS ModelNames

CONSTANTS
    Key,
    Pool,           \* Provider -> the sequence of its keys
    KeyTier,        \* Key -> "free" | "paid" | "unknown"
    Offers,         \* Key -> the names its provider may list for it
    Strategy,       \* the routing strategies configured in turn
    FailThreshold,  \* routing.fail_threshold
    Forwarded,      \* bound: strategy, route and agent of the requests other than chats
    MaxLoad,        \* bound: results and disturbances, outside such a request
    MaxMeanwhile,   \* bound: those of others while one is under way
    MaxTurns        \* bound: values of the rotation counters

Agent == DOMAIN AgentHash
Status == {"available", "probing", "cooldown", "rate_limited"}

(* A 429 limits the model it is about if it comes to a chat, and the key   *)
(* if it comes to anything else.                                           *)
Result == {"ok", "failed", "rate_limited"}
ChatResult == {"ok", "failed", "model_limited"}
Deployment == Provider \X Key \X Name

ASSUME RoutingAssumption ==
    /\ IsFiniteSet(Key)
    /\ Pool \in [Provider -> Seq(Key)]
    /\ \A p, q \in Provider : \A i \in DOMAIN Pool[p], j \in DOMAIN Pool[q] :
            Pool[p][i] = Pool[q][j] => p = q /\ i = j      \* a key is one entry of one pool
    /\ KeyTier \in [Key -> {"free", "paid", "unknown"}]
    /\ Offers \in [Key -> SUBSET Name]
    /\ Strategy \subseteq {"least_rate", "least_failed", "priority", "round_robin", "random"}
    /\ FailThreshold \in Nat \ {0}
    /\ Forwarded \subseteq Strategy \X Routes \X (Agent \cup {Nobody})
    /\ MaxLoad \in Nat /\ MaxMeanwhile \in Nat /\ MaxTurns \in Nat

VARIABLES
    strategy,       \* routing.strategy, fixed when the process starts
    keys,           \* Key -> what selection reads of it
    gated,          \* providers in cooldown
    blocked,        \* disabled_models: set of <<provider, name>>
    deployments,    \* deployment_state rows
    counter,        \* ROUTER_CANDIDATE_COUNTER and ROUND_ROBIN_COUNTER
    chat,           \* the deployment a chat waits for, in a sequence of at most one
    pending         \* the post_openai_json or adaptive request under way

vars == <<strategy, keys, gated, blocked, deployments, counter, chat, pending>>

KeyView == [
    status  : Status,
    models  : SUBSET Name,
    sent    : Nat,      \* what the usage sort key grows with
    fails   : Nat,      \* fail_count
    errors  : Nat,      \* total_fail_count
    oks     : Nat,      \* success_count
    limited : BOOLEAN]  \* last_error_status = 429

DeploymentState == [success : Nat, error : Nat, consecutive : Nat, cooling : BOOLEAN]

Idle == [phase |-> "idle"]

Init ==
    /\ strategy \in Strategy
    /\ keys = [k \in Key |-> [status |-> "available", models |-> Offers[k], sent |-> 0,
                              fails |-> 0, errors |-> 0, oks |-> 0, limited |-> FALSE]]
    /\ gated = {}
    /\ blocked = {}
    /\ deployments = <<>>
    /\ counter = [router |-> 0, hub |-> 0]
    /\ chat = <<>>
    /\ pending = Idle

(* What the bounds are about: the results the pools heard of, how far the  *)
(* surroundings are from those the gateway started in, and the chat under  *)
(* way; less what the pending request has heard itself.                    *)
Reports == FoldSet(LAMBDA k, sum : sum + keys[k].oks + keys[k].errors, 0, Key)

Disturbed ==
    FoldSet(LAMBDA k, sum : sum + Cardinality(Offers[k] \ keys[k].models), 0, Key)
    + Cardinality(blocked) + Cardinality(gated)

Load == Reports + Disturbed + Len(chat)

OwnResults ==
    IF pending.phase = "forwarding" THEN Len(pending.asked) - Len(pending.out) ELSE 0

Room == (IF pending = Idle THEN MaxLoad ELSE MaxMeanwhile) - (Load - OwnResults)

-----------------------------------------------------------------------------
(* What the pools offer *)

IsFree(k) == KeyTier[k] = "free"
Selectable(k) == keys[k].status \in {"available", "probing"}   \* is_request_selectable

(* free_candidate_infos: Cloudflare's keys are offered for any name. *)
FreeKeys(p, n) ==
    IF p \in gated THEN <<>>
    ELSE Where(Pool[p], LAMBDA k : /\ IsFree(k) /\ Selectable(k)
                                   /\ p = "cloudflare" \/ n \in keys[k].models)

(* any_free_key: the first one, whatever it serves; none that is probing.  *)
AnyFreeKey(p) ==
    IF p \in gated THEN <<>>
    ELSE FirstOf(Where(Pool[p], LAMBDA k : IsFree(k) /\ keys[k].status = "available"))

(* available_free_models of one provider; its cooldown does not matter.    *)
FreeModels(p) ==
    UNION {keys[k].models : k \in {j \in ToSet(Pool[p]) : IsFree(j) /\ keys[j].status = "available"}}

(* deployment_penalty: 100 for each failure since the last success, and    *)
(* the excess of errors over successes, at most 100.                       *)
Excess(s) == IF s.error > s.success THEN s.error - s.success ELSE 0
Penalty(d) ==
    IF d \notin DOMAIN deployments THEN 0
    ELSE deployments[d].consecutive * 100
            + (IF Excess(deployments[d]) > 100 THEN 100 ELSE Excess(deployments[d]))

Cooling(d) == d \in DOMAIN deployments /\ deployments[d].cooling

-----------------------------------------------------------------------------
(* Candidates *)

(* auto_fallback_models_for_provider: at most four that have not been      *)
(* tried under another heading.                                            *)
AutoFallbacks(p, seen) ==
    LET served == FreeModels(p)
        all == Where(AutoOrder[p], LAMBDA n : n \in served /\ n \notin seen)
    IN  SubSeq(all, 1, IF Len(all) < 4 THEN Len(all) ELSE 4)

(* candidate_models_for_provider: after the requested and the configured   *)
(* names the automatic fallbacks (index 2).                                *)
ModelsAt(p, n) ==
    LET named == NamedAt[p][n]
        seen == {named[j].name : j \in DOMAIN named}
    IN  Pushed(named \o Tried(AutoFallbacks(p, seen), 2))

CandidatesAt(p, n, position) ==
    LET Of(m) == LET ks == IF <<p, m.name>> \in blocked THEN <<>>
                           ELSE Where(FreeKeys(p, m.name), LAMBDA k : ~Cooling(<<p, k, m.name>>))
                 IN  [i \in 1..Len(ks) |->
                        [provider |-> p, key |-> ks[i], model |-> m.name, index |-> m.index,
                         position |-> position, penalty |-> Penalty(<<p, ks[i], m.name>>)]]
        models == ModelsAt(p, n)
    IN  FlattenSeq([i \in 1..Len(models) |-> Of(models[i])])

Candidates(route) ==
    LET order == ProviderOrder[route.provider]
    IN  FlattenSeq([i \in 1..Len(order) |-> CandidatesAt(order[i], route.model, i)])

-----------------------------------------------------------------------------
(* Order *)

(* Tuples compared component by component. *)
Before(s, t) ==
    \E i \in 1..Len(s) : s[i] < t[i] /\ \A j \in 1..(i - 1) : s[j] = t[j]

(* A stable sort: the place in the list settles what the keys leave open.  *)
StableSort(s, SortKey(_)) ==
    LET at == Sorted({SortKey(s[i]) \o <<i>> : i \in DOMAIN s}, Before)
    IN  [n \in DOMAIN s |-> s[Last(at[n])]]

Rotate(s, n) == SubSeq(s, n + 1, Len(s)) \o SubSeq(s, 1, n)

(* rotate_left by a counter or a hash modulo the length. *)
Turn(s, n) == IF Len(s) > 1 THEN Rotate(s, n % Len(s)) ELSE s

(* key_usage_sort_key_for_selection of keys without limits: a key on       *)
(* probation comes last, then count the windows, then the failures.        *)
Usage(k) ==
    <<IF keys[k].status = "probing" THEN 1000 ELSE 0, keys[k].sent, keys[k].fails, keys[k].errors>>

SortKey(c) ==
    CASE strategy = "least_rate" ->
            <<c.penalty, c.index>> \o Usage(c.key) \o <<c.position>>
      [] strategy = "least_failed" ->
            <<c.penalty, c.index, keys[c.key].fails, keys[c.key].errors>> \o Usage(c.key) \o <<c.position>>
      [] strategy = "priority" ->
            <<c.penalty, c.index, c.position>>
      [] OTHER ->
            <<c.penalty, c.index>>

(* lowest_penalty_prefix_len of a sorted list. *)
HealthyLen(s) == Cardinality({i \in DOMAIN s : s[i].penalty = s[1].penalty})

Rotating == strategy \in {"round_robin", "random"}

(* Mutant of TurnHealthy: the rotation covers the degraded ones as well. *)
TurnAll(s, n) == Turn(s, n)

(* Mutant of TurnHealthy: rotate_right. *)
TurnBack(s, n) ==
    LET h == HealthyLen(s)
    IN  Turn(SubSeq(s, 1, h), h - (n % h)) \o SubSeq(s, h + 1, Len(s))

TurnHealthy(s, n) ==
    LET h == HealthyLen(s)
    IN  Turn(SubSeq(s, 1, h), n) \o SubSeq(s, h + 1, Len(s))

ForAgent(s, agent) == IF agent \in Agent THEN Turn(s, AgentHash[agent]) ELSE s

(* order_candidates sorts what a request may be sent to and turns the list; *)
(* n is the counter's value, or what rand::random drew.                    *)
Ranked(route) == StableSort(Candidates(route), SortKey)

Order(ranked, n, agent) ==
    ForAgent(IF Rotating THEN TurnHealthy(ranked, n) ELSE ranked, agent)

-----------------------------------------------------------------------------
(* What a result does to the key and to the deployment *)

(* reserve_key: a probing key is parked while its probe is out. *)
Reserved(v) ==
    [v EXCEPT !.sent = @ + 1, !.status = IF @ = "probing" THEN "cooldown" ELSE @]

(* report_reserved_success and the failure reports, as far as selection    *)
(* reads what they write; the key's status may have changed since it was   *)
(* reserved.                                                               *)
Reported(v, result) ==
    CASE result = "ok" ->
            [v EXCEPT !.oks = @ + 1, !.fails = 0,
                      !.status = IF @ # "cooldown" \/ v.limited THEN "available" ELSE @]
      [] result = "failed" ->
            [v EXCEPT !.fails = @ + 1, !.errors = @ + 1, !.limited = FALSE,
                      !.status = IF v.fails + 1 >= FailThreshold THEN "cooldown" ELSE @]
      [] result = "rate_limited" ->
            [v EXCEPT !.fails = @ + 1, !.errors = @ + 1, !.limited = TRUE,
                      !.status = "rate_limited"]
      [] result = "model_limited" ->
            [v EXCEPT !.fails = @ + 1, !.errors = @ + 1, !.limited = TRUE]

Reserve(k) == keys' = [keys EXCEPT ![k] = Reserved(@)]
Hear(k, result) == keys' = [keys EXCEPT ![k] = Reported(@, result)]

NoRow == [success |-> 0, error |-> 0, consecutive |-> 0, cooling |-> FALSE]

(* record_request_attempt. *)
Recorded(s, result) ==
    IF result = "ok"
    THEN [s EXCEPT !.success = @ + 1, !.consecutive = 0, !.cooling = FALSE]
    ELSE [s EXCEPT !.error = @ + 1, !.consecutive = @ + 1, !.cooling = result = "model_limited"]

Record(d, result) ==
    LET row == IF d \in DOMAIN deployments THEN deployments[d] ELSE NoRow
    IN  deployments' = [e \in DOMAIN deployments \cup {d} |->
                            IF e = d THEN Recorded(row, result) ELSE deployments[e]]

-----------------------------------------------------------------------------
(* Requests *)

(* A chat: the rotation counter moves when there is something to rotate,   *)
(* and the first candidate is asked.  Random rotation is any of them.      *)
(* Bound: one chat waits at a time.                                        *)
ChatAsk(route) ==
    /\ chat = <<>> /\ Room > 0                                       \* bound
    /\ \E ranked \in {Ranked(route)} \ {<<>>} :
       LET turning == strategy = "round_robin" /\ HealthyLen(ranked) > 1
           turns == IF strategy = "random" THEN 0..MaxTurns ELSE {counter.router}
       IN  /\ turning => counter.router < MaxTurns
           /\ counter' = [counter EXCEPT !.router = IF turning THEN @ + 1 ELSE @]
           /\ \E turn \in turns, agent \in Agent \cup {Nobody} :
                 LET c == Head(Order(ranked, turn, agent)) IN
                 /\ Reserve(c.key)
                 /\ chat' = <<<<c.provider, c.key, c.model>>>>
    /\ UNCHANGED <<strategy, gated, blocked, deployments, pending>>

(* Its result goes to the key and to the deployment. *)
ChatHear(result) ==
    /\ chat # <<>>
    /\ Hear(Head(chat)[2], result)
    /\ Record(Head(chat), result)
    /\ chat' = <<>>
    /\ UNCHANGED <<strategy, gated, blocked, counter, pending>>

-----------------------------------------------------------------------------
(* post_openai_json: provider after provider, key after key *)

(* free_candidates: the same strategies without the deployments; turn is   *)
(* the counter's value, or what rand::random drew.                         *)
ForwardKeys(p, n, turn, agent) ==
    LET ks == FreeKeys(p, n)
        ByUsage(k) == Usage(k)
        ByFailures(k) == <<keys[k].fails, keys[k].errors>> \o Usage(k)
        sorted == CASE strategy = "least_rate"   -> StableSort(ks, ByUsage)
                    [] strategy = "least_failed" -> StableSort(ks, ByFailures)
                    [] Rotating                  -> Turn(ks, turn)
                    [] OTHER                     -> ks
    IN  ForAgent(sorted, agent)

StartForward(route, agent) ==
    /\ pending = Idle
    /\ Load = 0                                                    \* bound
    /\ pending' = [phase |-> "forwarding", route |-> route, agent |-> agent,
                   providers |-> ProviderOrder[route.provider],
                   keys |-> <<>>, at |-> route.provider, asked |-> <<>>, out |-> <<>>]
    /\ UNCHANGED <<strategy, keys, gated, blocked, deployments, counter, chat>>

(* Mutant of Lent: the free key is lent besides the listed ones. *)
LentBesides(p, ks) == IF p = pending.route.provider THEN ks \o AnyFreeKey(p) ELSE ks

Lent(p, ks) == IF ks = <<>> /\ p = pending.route.provider THEN AnyFreeKey(p) ELSE ks

(* The keys of the next provider; the provider the name resolved to lends  *)
(* any free key when none lists the model.                                 *)
NextProvider ==
    /\ pending.phase = "forwarding"
    /\ pending.out = <<>> /\ pending.keys = <<>> /\ pending.providers # <<>>
    /\ LET p == Head(pending.providers)
           n == NameFor(p, pending.route.model)
           turning == strategy = "round_robin" /\ Len(FreeKeys(p, n)) > 1
           turns == IF strategy = "random" THEN 0..MaxTurns ELSE {counter.hub}
       IN  /\ \E turn \in turns :
                 pending' = [pending EXCEPT !.providers = Tail(@), !.at = p,
                               !.keys = Lent(p, ForwardKeys(p, n, turn, pending.agent))]
           /\ turning => counter.hub < MaxTurns
           /\ counter' = [counter EXCEPT !.hub = IF turning THEN @ + 1 ELSE @]
    /\ UNCHANGED <<strategy, keys, gated, blocked, deployments, chat>>

(* The next key, which may have left the pool since it was listed.         *)
ForwardAsk ==
    /\ pending.phase = "forwarding" /\ pending.out = <<>> /\ pending.keys # <<>>
    /\ LET k == Head(pending.keys) IN
       IF Selectable(k)
       THEN /\ Reserve(k)
            /\ pending' = [pending EXCEPT !.keys = Tail(@), !.asked = Append(@, k), !.out = <<k>>]
       ELSE /\ pending' = [pending EXCEPT !.keys = Tail(@)]
            /\ UNCHANGED keys
    /\ UNCHANGED <<strategy, gated, blocked, deployments, counter, chat>>

(* The answer of post_json.  No attempt is recorded for its deployment.    *)
ForwardHear(result) ==
    /\ pending.phase = "forwarding" /\ pending.out # <<>>
    /\ Hear(Head(pending.out), result)
    /\ pending' = IF result = "ok" THEN Idle ELSE [pending EXCEPT !.out = <<>>]
    /\ UNCHANGED <<strategy, gated, blocked, deployments, counter, chat>>

ForwardFails ==
    /\ pending.phase = "forwarding"
    /\ pending.out = <<>> /\ pending.keys = <<>> /\ pending.providers = <<>>
    /\ pending' = Idle
    /\ UNCHANGED <<strategy, keys, gated, blocked, deployments, counter, chat>>

-----------------------------------------------------------------------------
(* The inventory and its surroundings *)

(* update_models with what the provider lists now. *)
Relist(k) ==
    /\ \E listed \in SUBSET Offers[k] \ {keys[k].models} :
          keys' = [keys EXCEPT ![k].models = listed]
    /\ UNCHANGED <<strategy, gated, blocked, deployments, counter, chat, pending>>
    /\ Room' >= 0                                                  \* bound

(* recover_expired: an expired cooldown is over, an expired rate limit     *)
(* earns a probe.                                                          *)
Recovered(v) ==
    IF v.status = "cooldown" THEN [v EXCEPT !.status = "available", !.fails = 0]
                             ELSE [v EXCEPT !.status = "probing"]

Recover(k) ==
    /\ ~Selectable(k)
    /\ keys' = [keys EXCEPT ![k] = Recovered(@)]
    /\ UNCHANGED <<strategy, gated, blocked, deployments, counter, chat, pending>>

Thaw(d) ==
    /\ Cooling(d)
    /\ deployments' = [deployments EXCEPT ![d].cooling = FALSE]
    /\ UNCHANGED <<strategy, keys, gated, blocked, counter, chat, pending>>

(* The cooldown of a provider begins, or ends. *)
Gate(p) ==
    /\ gated' = IF p \in gated THEN gated \ {p} ELSE gated \cup {p}
    /\ UNCHANGED <<strategy, keys, blocked, deployments, counter, chat, pending>>
    /\ Room' >= 0                                                  \* bound

(* Bound: names the provider has a key for. *)
Toggle(p, n) ==
    /\ p = "cloudflare" \/ \E k \in ToSet(Pool[p]) : n \in Offers[k]
    /\ blocked' = IF <<p, n>> \in blocked THEN blocked \ {<<p, n>>} ELSE blocked \cup {<<p, n>>}
    /\ UNCHANGED <<strategy, keys, gated, deployments, counter, chat, pending>>
    /\ Room' >= 0                                                  \* bound

-----------------------------------------------------------------------------
(* GET /v1/models *)

TierRank == [default |-> 0, free |-> 1, extended |-> 2, paid |-> 3]

Least(S, SortKey2(_)) == CHOOSE x \in S : \A y \in S : y = x \/ Before(SortKey2(x), SortKey2(y))

Inventory == UNION {{<<p, n>> : n \in FreeModels(p)} : p \in Provider}

(* An alias shows under the first provider that serves its model, unless   *)
(* the model is blocked there.                                             *)
AliasEntries ==
    LET Serving(a) == {x \in Inventory : /\ x[2] = Alias[a].model
                                         /\ Alias[a].provider \in {"", x[1]}}
        First(a) == Least(Serving(a), LAMBDA x : <<NameOrder[x[1]]>>)
    IN  {[id |-> a, owner |-> First(a)[1]] :
            a \in {b \in DOMAIN Alias : Serving(b) # {} /\ First(b) \notin blocked}}

Visible ==
    {[id |-> x[2], owner |-> x[1]] : x \in Inventory \ blocked} \cup AliasEntries

(* merge_model_families: one entry for the variants of a name, that of the *)
(* cheapest claim on it, shown under the bare name.                        *)
MergeFamilies(entries) ==
    LET Variant(f) == {e \in entries : Family(e.id) = f}
        Chosen(f) == Least(Variant(f), LAMBDA e : <<TierRank[e.id.tier], NameOrder[e.owner], NameRank[e.id]>>)
    IN  {[id |-> f, owner |-> Chosen(f).owner, variant |-> Chosen(f).id] :
            f \in {Family(e.id) : e \in entries}}

Listed == MergeFamilies(Visible)

-----------------------------------------------------------------------------
RoutingNext ==
    \/ \E route \in Routes : ChatAsk(route)
    \/ \E result \in ChatResult : ChatHear(result)
    \/ \E x \in Forwarded : strategy = x[1] /\ StartForward(x[2], x[3])
    \/ NextProvider
    \/ ForwardAsk
    \/ \E result \in Result : ForwardHear(result)
    \/ ForwardFails
    \/ \E k \in Key : Relist(k) \/ Recover(k)
    \/ \E d \in DOMAIN deployments : Thaw(d)
    \/ \E p \in Provider : Gate(p)
    \/ \E p \in Provider, n \in Name : Toggle(p, n)

-----------------------------------------------------------------------------
(* Properties *)

(* The lists read neither of the requests under way: the states in which   *)
(* they are worth their evaluation are those between two requests.         *)
Settled == pending = Idle /\ chat = <<>> /\ Room >= 0

PenaltiesAscend(o) == \A i \in 1..(Len(o) - 1) : o[i].penalty <= o[i + 1].penalty

(* At i the list, read as a circle, falls back to a better record.         *)
FallsAt(o, i) == o[i].penalty > o[IF i = Len(o) THEN 1 ELSE i + 1].penalty

FallsOnce(o) == \A i, j \in DOMAIN o : FallsAt(o, i) /\ FallsAt(o, j) => i = j

InOrder(ranked) ==
    /\ PenaltiesAscend(Order(ranked, counter.router, Nobody))
    /\ \A agent \in Agent : FallsOnce(Order(ranked, counter.router, agent))

(* Whatever the strategy, the model, the operator's blocks and the history *)
(* of results, a deployment that is doing worse is never offered before    *)
(* one that is doing better to a request that names no agent               *)
(* (order_candidates; its rotations stop at the degraded ones).  The hash  *)
(* of an agent turns the whole list, so a named agent may be offered the   *)
(* degraded ones first, against docs/error-improvement-log.md:324; it      *)
(* still meets them in the order of their records, and after the worst the *)
(* best.                                                                   *)
DegradedStayBehind == Settled => \A route \in Routes : InOrder(Ranked(route))

(* The turn passes from the one the counter points at to the next one. *)
PassedOn(ranked, n, next) ==
    ranked # <<>> =>
        \E i \in DOMAIN ranked :
            /\ Head(Order(ranked, n, Nobody)) = ranked[i]
            /\ Head(Order(ranked, next, Nobody)) = ranked[(i % HealthyLen(ranked)) + 1]

(* Under round_robin a chat that finds something to rotate, for whatever   *)
(* name and agent, passes the turn of every name on to the next of its     *)
(* deployments with the best record, none skipped.  The counter is shared  *)
(* (ROUTER_CANDIDATE_COUNTER), so a name's turn passes also when others    *)
(* are asked for; requests for it alone go round its deployments, those    *)
(* that alternate with requests for another name need not.                 *)
TurnsMoveOn ==
    [][counter'.router # counter.router =>
          \A route \in Routes : PassedOn(Ranked(route), counter.router, counter'.router)]_vars

NoneLost(ranked, all) ==
    \A agent \in Agent \cup {Nobody} : ToSet(Order(ranked, counter.router, agent)) = all

NoneTwice(o) ==
    \A j \in DOMAIN o : \A i \in 1..(j - 1) :
        <<o[i].provider, o[i].key, o[i].model>> # <<o[j].provider, o[j].key, o[j].model>>

EachOnce(ranked, all) ==
    NoneLost(ranked, all) /\ NoneTwice(Order(ranked, counter.router, Nobody))

(* No request is offered the same key with the same model twice, and the   *)
(* sorting and the rotations, the agent's included, lose none: names reach *)
(* the list as themselves, as a free variant, as a configured and as an    *)
(* automatic fallback.                                                     *)
NoDeploymentTwice ==
    Settled => \A route \in Routes : EachOnce(Ranked(route), ToSet(Candidates(route)))

(* What a listed entry stands for: an alias for the model it names.        *)
Target(e) == IF e.variant \in DOMAIN Alias THEN Alias[e.variant].model ELSE e.variant

(* The names that resolution does not take for something else: an entry    *)
(* shown for a ":extended" or ":paid" variant alone, and one whose first   *)
(* component is the name of a registered provider, are listed and not      *)
(* served.                                                                 *)
Unambiguous(e) ==
    \/ e.variant \in DOMAIN Alias
    \/ /\ e.id \notin DOMAIN Alias
       /\ e.variant.tier \in {"default", "free"}
       /\ Head(e.id.path) \notin Provider

(* What the list relies on: a registered fallback provider, aliases that   *)
(* have no suffix and are nobody's model, and no free variant of a name    *)
(* that is tried as it is only.                                            *)
ServableNames ==
    /\ \A n \in Name : Strip(n) \in Name
    /\ \E i \in DOMAIN Fallback : Fallback[i] \in Provider
    /\ \A a \in DOMAIN Alias : a \in Name /\ ~HasSuffix(a) /\ \A k \in Key : a \notin Offers[k]
    /\ \A k \in Key : \A n \in Offers[k] :
            n.tier = "free" => ~IsAggregate(Strip(n)) /\ ~IsCloudflare(n)

(* A model that GET /v1/models lists is offered, and not as somebody's     *)
(* fallback, when it is asked for by the name listed, by the provider it   *)
(* is listed under, as long as that provider and one of its deployments    *)
(* are not cooling down.                                                   *)
ListedIsServed ==
    Settled => \A e \in Listed :
        /\ Unambiguous(e)
        /\ e.owner \notin gated
        /\ \E k \in ToSet(Pool[e.owner]) :
              /\ IsFree(k) /\ keys[k].status = "available" /\ Target(e) \in keys[k].models
              /\ ~Cooling(<<e.owner, k, Target(e)>>)
        => \E r \in ToSet(Resolve[e.id][Nobody]) : \E c \in ToSet(Candidates(r)) :
                c.provider = e.owner /\ c.model = Target(e) /\ c.index = 0

(* An embeddings request asks no key twice, also where a provider lends    *)
(* it a key that does not list the model, and whatever happens to the keys *)
(* between its selections, reservations and reports: a key it has asked is *)
(* spent, cooled, recovered or listed anew by others meanwhile, and may    *)
(* then look like one that is left (post_openai_json).                     *)
ForwardAsksOnce ==
    pending.phase = "forwarding" =>
        \A i, j \in DOMAIN pending.asked : pending.asked[i] = pending.asked[j] => i = j

=============================================================================
