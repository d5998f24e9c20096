--------------------------- MODULE AdaptiveRouting ---------------------------
(***************************************************************************)
(* The adaptive routes /auto, /agents/{agent}, /provider-groups/{group}    *)
(* and /{provider} (src/src/adaptive/ and src/src/api/adaptive.rs): the    *)
(* task a request is taken for, the providers its scope allows, the score  *)
(* of each deployment, and the one attempt that is made.                   *)
(*                                                                         *)
(* Adaptive routing reads the pools of Routing.tla and reports to them; it *)
(* looks neither at a provider's cooldown nor at deployment_state, and     *)
(* writes no attempt there.                                                *)
(***************************************************************************)
EXTENDS Routing, Integers

CONSTANTS
    AllowPaid,      \* adaptive_routing.allow_paid
    AutoModel,      \* auto_models: name -> its task
    AgentProfile,   \* agent_profiles: agent -> [auto, groups]
    Group,          \* routing_groups: group -> set of provider names
    Priority,       \* Provider -> Nat
    Meta,           \* [provider, name] -> what the model metadata says
    AgentSignals,   \* agent -> the needles in its name: "coding", "document"
    Asked           \* the requests in play: [name, signals, tokens]

Capability == {"vision", "tools", "reasoning", "coding", "long_context"}

ASSUME AdaptiveAssumption ==
    /\ AllowPaid \in BOOLEAN
    /\ Priority \in [Provider -> Nat]
    /\ \A d \in DOMAIN Meta : Meta[d].window \in Int /\ Meta[d].price \in {"none", "free", "priced"}
    /\ \A a \in Asked : a.tokens \in Nat \ {0}

(* The window of a model the metadata says nothing about. *)
NoWindow == -1
Unlisted == [vision |-> "unknown", tools |-> "unknown", reasoning |-> "unknown",
             window |-> NoWindow, price |-> "none"]
MetaOf(p, n) == IF <<p, n>> \in DOMAIN Meta THEN Meta[<<p, n>>] ELSE Unlisted

-----------------------------------------------------------------------------
(* Scopes: [kind, name] with kind "auto", "agent", "provider" or "group" *)

ReservedPrefixes ==
    {"v1", "auto", "agents", "provider-groups", "admin", "health", "status", "metrics"}

Scope ==
    {[kind |-> "auto", name |-> "auto"]}
    \cup {[kind |-> "agent", name |-> a] : a \in Agent}
    \cup {[kind |-> "provider", name |-> p] : p \in Provider}
    \cup {[kind |-> "group", name |-> g] : g \in DOMAIN Group}

(* The providers of the groups an agent's profile names, unknown groups    *)
(* left out; an agent without a profile has none.                          *)
GroupsOf(agent) == IF agent \in DOMAIN AgentProfile THEN AgentProfile[agent].groups ELSE {}
AgentProviders(agent) == UNION {Group[g] : g \in GroupsOf(agent) \cap DOMAIN Group}

(* Mutant of Allowed: the profile of an agent does not restrict it. *)
AllowedToAll(scope, p) ==
    CASE scope.kind = "provider" -> p = scope.name
      [] scope.kind = "group"    -> p \in Group[scope.name]
      [] OTHER -> TRUE

(* constraints_for_scope and provider_allowed: an agent whose groups name  *)
(* no provider is not restricted at all.                                   *)
Allowed(scope, p) ==
    CASE scope.kind = "provider" -> p = scope.name
      [] scope.kind = "group"    -> p \in Group[scope.name]
      [] scope.kind = "agent" /\ AgentProviders(scope.name) # {} -> p \in AgentProviders(scope.name)
      [] OTHER -> TRUE

(* routing_routes_summary: the routes shown to a user, with the providers  *)
(* shown behind each; none shown means any.                                *)
Shown ==
    [scope \in {s \in Scope : s.kind # "provider" \/ s.name \notin ReservedPrefixes} |->
        CASE scope.kind = "auto"     -> {}
          [] scope.kind = "agent"    -> AgentProviders(scope.name)
          [] scope.kind = "provider" -> {scope.name}
          [] scope.kind = "group"    -> Group[scope.name]]

-----------------------------------------------------------------------------
(* The task of a request (route_task, build_task_profile) *)

TaskOf(scope, ask) ==
    LET auto == IF scope.kind = "agent" /\ scope.name \in DOMAIN AgentProfile
                THEN AgentProfile[scope.name].auto ELSE ask.name
        named == {ask.name, auto} \cap DOMAIN AutoModel
    IN  CASE ask.name \in named -> AutoModel[ask.name]
          [] ask.name \notin named /\ named # {} -> AutoModel[auto]
          [] OTHER -> "none"

(* ask.signals: what the text and the fields of the request give away.     *)
SignalsOf(scope, ask) ==
    ask.signals \cup IF scope.kind = "agent" THEN AgentSignals[scope.name] ELSE {}

(* What the model must or should be able to do. *)
Needs(scope, ask) ==
    LET signals == SignalsOf(scope, ask)
        task == TaskOf(scope, ask)
    IN  (signals \cap {"vision", "tools", "coding"})
        \cup (IF task = "coding" THEN {"coding"} ELSE {})
        \cup (IF signals \cap {"coding", "plan"} # {} \/ task \in {"reasoning", "coding"}
              THEN {"reasoning"} ELSE {})
        \cup (IF ask.tokens > 8000 \/ "document" \in signals \/ task \in {"document", "long_context"}
              THEN {"long_context"} ELSE {})

(* concrete_requested_model: {} leaves the model open. *)
Concrete(name) ==
    CASE name.path = <<"auto">> \/ name \in DOMAIN AutoModel -> {}
      [] name \in DOMAIN Alias \ DOMAIN AutoModel -> {Alias[name].model}
      [] OTHER -> {name}

-----------------------------------------------------------------------------
(* Candidates (collect_candidates and the filters of score_candidates) *)

Serving(k) == keys[k].status = "available"

Pooled == {x \in Provider \X Key : x[2] \in ToSet(Pool[x[1]])}

Collected(scope, name) ==
    LET requested == Concrete(name)
        Models(p, k) == {n \in keys[k].models : requested \in {{}, {n}} /\ <<p, n>> \notin blocked}
    IN  UNION {{<<x[1], x[2], n>> : n \in Models(x[1], x[2])} :
                    x \in {y \in Pooled : Allowed(scope, y[1]) /\ Serving(y[2])}}

(* What is known to be missing excludes a model; what is not known does not. *)
Capable(m, needs, tokens) ==
    /\ "vision" \in needs => m.vision # "no"
    /\ "tools" \in needs => m.tools # "no"
    /\ "long_context" \in needs => m.window = NoWindow \/ m.window >= tokens

Eligible(scope, ask) ==
    {d \in Collected(scope, ask.name) :
        /\ AllowPaid \/ IsFree(d[2])
        /\ Capable(MetaOf(d[1], d[3]), Needs(scope, ask), ask.tokens)}

-----------------------------------------------------------------------------
(* The score (score_breakdown) *)

CapabilityScore(needed, support) ==
    CASE ~needed -> 0
      [] needed /\ support = "yes" -> 20
      [] needed /\ support = "no" -> -100
      [] OTHER -> 2

Fit(n, m, needs, tokens) ==
    20 + CapabilityScore("vision" \in needs, m.vision)
       + CapabilityScore("tools" \in needs, m.tools)
       + CapabilityScore("reasoning" \in needs, m.reasoning)
       + (IF "coding" \in needs /\ Words[n] \cap {"coder", "code", "qwen3"} # {} THEN 12 ELSE 0)
       + (IF "long_context" \in needs /\ m.window # NoWindow /\ m.window >= tokens THEN 10 ELSE 0)

(* Mutant of Record15: the share of failures in place of that of successes. *)
Record15Swapped(oks, errors) == IF oks + errors > 0 THEN (errors * 15) \div (oks + errors) ELSE 8

(* Reliability: a key without history counts as a little better than half. *)
Record15(oks, errors) == IF oks + errors > 0 THEN (oks * 15) \div (oks + errors) ELSE 8

History(oks, errors, limited) ==
    Record15(oks, errors) - (2 * errors + IF limited THEN 5 ELSE 0)

PriceScore == [none |-> 3, free |-> 5, priced |-> 1]
PriorityScore(p) == 5 - IF Priority[p] > 5 THEN 5 ELSE Priority[p]

(* Every key has the full ten points for its quota. *)
Score(d, needs, tokens) ==
    LET m == MetaOf(d[1], d[3])
        v == keys[d[2]]
    IN  Fit(d[3], m, needs, tokens) + History(v.oks, v.errors, v.limited)
            + 10 + PriorityScore(d[1]) + PriceScore[m.price]

Place(p, k) == CHOOSE i \in DOMAIN Pool[p] : Pool[p][i] = k

(* The best score; then by provider, model and place in the pool.          *)
Best(scope, ask) ==
    LET needs == Needs(scope, ask)
    IN  Least(Eligible(scope, ask),
              LAMBDA d : <<-Score(d, needs, ask.tokens), NameOrder[d[1]], NameRank[d[3]],
                           Place(d[1], d[2])>>)

-----------------------------------------------------------------------------
(* A request: the choice is made on a snapshot, the key reserved after it *)

Pick(scope, ask) ==
    /\ scope \in DOMAIN Shown
    /\ pending = Idle
    /\ Load = 0                                                    \* bound
    /\ Eligible(scope, ask) # {}
    /\ pending' = [phase |-> "picked", key |-> Best(scope, ask)[2]]
    /\ UNCHANGED <<strategy, keys, gated, blocked, deployments, counter, chat>>

(* One attempt, and none when the key can no longer be reserved. *)
AskPicked ==
    /\ pending.phase = "picked"
    /\ IF Selectable(pending.key)
       THEN Reserve(pending.key) /\ pending' = [pending EXCEPT !.phase = "asked"]
       ELSE UNCHANGED keys /\ pending' = Idle
    /\ UNCHANGED <<strategy, gated, blocked, deployments, counter, chat>>

HearPicked(result) ==
    /\ pending.phase = "asked"
    /\ Hear(pending.key, result)
    /\ pending' = Idle
    /\ UNCHANGED <<strategy, gated, blocked, deployments, counter, chat>>

AdaptiveNext ==
    \/ \E scope \in Scope, ask \in Asked : Pick(scope, ask)
    \/ AskPicked
    \/ \E result \in Result : HearPicked(result)

Next == RoutingNext \/ AdaptiveNext
Spec == Init /\ [][Next]_vars

-----------------------------------------------------------------------------
(* GET {prefix}/v1/models *)

(* Mutant of ScopedList: keys that may not be asked are listed too. *)
ScopedListOfAll(scope) ==
    MergeFamilies({[id |-> n, owner |-> p] : p \in {q \in Provider : Allowed(scope, q)}, n \in Name}
        \cap {[id |-> d[3], owner |-> d[1]] :
                d \in {e \in Deployment : e[2] \in ToSet(Pool[e[1]]) /\ e[3] \in keys[e[2]].models}})

(* scoped_models *)
ScopedList(scope) ==
    MergeFamilies({[id |-> x[2], owner |-> x[1]] :
        x \in {y \in Inventory \ blocked : Allowed(scope, y[1])}})

-----------------------------------------------------------------------------
(* Properties *)

(* The states in which they are worth their evaluation: between two        *)
(* requests, before the bounds stop the others.                            *)
Light == pending = Idle /\ Load < MaxLoad

AnsweredAsShownTo(scope, ask) ==
    Eligible(scope, ask) # {} =>
        LET best == Best(scope, ask) IN
        /\ Shown[scope] # {} => best[1] \in Shown[scope]
        /\ IsFree(best[2]) \/ AllowPaid

(* The provider a route is answered from is one that the routes page shows *)
(* for it, whatever the request needs (routing_routes_summary against      *)
(* constraints_for_scope); the key is a free one unless paid keys are      *)
(* allowed, also when its model was the only one that could do the task.   *)
AnsweredAsShown ==
    Light => \A scope \in DOMAIN Shown : \A ask \in Asked : AnsweredAsShownTo(scope, ask)

(* A model the list of a scope shows under its bare name, and that is no   *)
(* alias, gets an answer there as long as the request needs nothing of it: *)
(* the list and the choice filter keys, blocks and providers alike.        *)
ScopedListIsServed ==
    Settled => \A scope \in DOMAIN Shown : \A e \in ScopedList(scope) :
        /\ e.variant.tier = "default"
        /\ e.id \notin DOMAIN Alias \cup DOMAIN AutoModel
        => \E d \in Collected(scope, e.id) : d[1] = e.owner /\ (AllowPaid \/ IsFree(d[2]))

BestByMerit(scope, ask) ==
    LET able == Eligible(scope, ask)
        best == Best(scope, ask)
        Merit(d) == Fit(d[3], MetaOf(d[1], d[3]), Needs(scope, ask), ask.tokens)
                        + PriorityScore(d[1]) + PriceScore[MetaOf(d[1], d[3]).price]
    IN  able # {} =>
            ~\E d \in able :
                /\ Merit(d) >= Merit(best)
                /\ keys[d[2]].errors < keys[best[2]].errors
                /\ keys[d[2]].oks >= keys[best[2]].oks
                /\ keys[d[2]].limited => keys[best[2]].limited

(* A deployment that fits the request as well, failed less and succeeded   *)
(* at least as often is never passed over for the one that is asked, at    *)
(* any boundary of the integer division and of the case without history.   *)
FailuresNeverHelp ==
    Light => \A scope \in DOMAIN Shown : \A ask \in Asked : BestByMerit(scope, ask)

=============================================================================
