----------------------------- MODULE ModelNames -----------------------------
(***************************************************************************)
(* Model names and what the router makes of them (src/src/router/mod.rs):  *)
(* pricing suffixes, aliases, "provider/model" names, the provider chain   *)
(* and the concrete names tried at one provider; and the families the      *)
(* model lists show (src/src/api/models.rs).                               *)
(*                                                                         *)
(* A name is its path, split at the slashes, and its pricing suffix:       *)
(* "meta/llama:free" is [path |-> <<"meta", "llama">>, tier |-> "free"].   *)
(* Names are compared without regard to case where the code compares them  *)
(* so; here every spelling is lower case.                                  *)
(***************************************************************************)
EXTENDS Naturals, Sequences, FiniteSets, SequencesExt

CONSTANTS
    Provider,       \* the registered providers
    NameOrder,      \* Provider -> Nat, the alphabetical order of their names
    Fallback,       \* config.fallback, a sequence; may name unregistered ones
    Name,           \* the model names in play
    Alias,          \* config.models: alias name -> [provider, model]
    AgentDefault,   \* config.agents: agent -> its default model name
    ModelFallbacks, \* config.model_fallbacks: name -> sequence of [provider, model]
    Words,          \* Name -> the needles of the code that occur in the name
    NameRank,       \* Name -> Nat, the alphabetical order of the names
    AgentHash,      \* agent -> the wrapping sum of the bytes of its name
    Nobody          \* a request without an agent name

Tier == {"default", "free", "extended", "paid"}

ASSUME NamesAssumption ==
    /\ NameOrder \in [Provider -> Nat]
    /\ \A p, q \in Provider : NameOrder[p] = NameOrder[q] => p = q
    /\ IsFiniteSet(Provider) /\ IsFiniteSet(Name)
    /\ \A n \in Name : /\ n = [path |-> n.path, tier |-> n.tier]
                       /\ n.tier \in Tier /\ n.path \in Seq(STRING) /\ Len(n.path) > 0
    /\ \A n \in Name : Words[n] \subseteq STRING /\ IsFiniteSet(Words[n])
    /\ Fallback \in Seq(STRING)
    /\ \A n \in DOMAIN ModelFallbacks :
            ModelFallbacks[n] \in Seq([provider : STRING, model : [path : Seq(STRING), tier : Tier]])
    /\ NameRank \in [Name -> Nat]
    /\ \A m, n \in Name : NameRank[m] = NameRank[n] => m = n
    /\ AgentHash \in [DOMAIN AgentHash -> Nat] /\ Nobody \notin DOMAIN AgentHash

-----------------------------------------------------------------------------
(* Lists *)

(* The elements of a set in the order of a strict total order. *)
Sorted(S, Precedes(_, _)) ==
    [i \in 1..Cardinality(S) |->
        CHOOSE x \in S : Cardinality({y \in S : Precedes(y, x)}) = i - 1]

(* The elements of s at the places in I. *)
Keep(s, I) ==
    LET kept[n \in 0..Len(s)] ==
            IF n = 0 THEN <<>>
            ELSE IF n \in I THEN Append(kept[n - 1], s[n]) ELSE kept[n - 1]
    IN  kept[Len(s)]

Where(s, Test(_)) == Keep(s, {i \in DOMAIN s : Test(s[i])})

(* The elements of s whose Id occurs there for the first time. *)
FirstOfEach(s, Id(_)) ==
    Keep(s, {i \in DOMAIN s : \A j \in 1..(i - 1) : Id(s[j]) # Id(s[i])})

Distinct(s) == FirstOfEach(s, LAMBDA x : x)

FirstOf(s) == SubSeq(s, 1, IF s = <<>> THEN 0 ELSE 1)

-----------------------------------------------------------------------------
(* Suffixes and families *)

WithTier(n, t) == [n EXCEPT !.tier = t]

Strip(n) == WithTier(n, "default")          \* strip_or_suffixes
Family(n) == WithTier(n, "default")         \* model_family_id
HasSuffix(n) == n.tier # "default"          \* has_openrouter_suffix

IsAggregate(n) ==                           \* is_openrouter_aggregate_model
    /\ n.tier = "default"
    /\ n.path \in {<<"openrouter", x>> : x \in {"free", "auto", "fusion", "bodybuilder"}}

IsCloudflare(n) == Head(n.path) = "@cf"

(* Mutant of Variants: a bare name is tried as it is only. *)
VariantsExact(n) == <<n>>

(* candidate_model_ids: a bare name is also tried with ":free". *)
Variants(n) ==
    IF IsAggregate(n) \/ HasSuffix(n) \/ IsCloudflare(n)
    THEN <<n>>
    ELSE <<n, WithTier(n, "free")>>

(* model_for_resolved_provider: only OpenRouter knows the suffixes. *)
NameFor(p, n) == IF p = "openrouter" THEN n ELSE Strip(n)

-----------------------------------------------------------------------------
(* Resolution: the first rule that applies decides.  A rule yields a       *)
(* sequence of at most one route.                                          *)

Rule(applies, provider, model) ==
    IF applies THEN <<[provider |-> provider, model |-> model]>> ELSE <<>>

AliasRule(n) ==
    IF n \in DOMAIN Alias THEN Rule(TRUE, Alias[n].provider, Alias[n].model) ELSE <<>>

(* The default model of a known agent is looked up in the same table.      *)
AgentRule(n, agent) ==
    IF agent \in DOMAIN AgentDefault /\ AgentDefault[agent] = n THEN AliasRule(n) ELSE <<>>

AggregateRule(n) ==
    Rule(IsAggregate(n) /\ "openrouter" \in Provider, "openrouter", n)

(* "provider/model": the first component names a registered provider. *)
DirectRule(n) ==
    IF Len(n.path) > 1 /\ Head(n.path) \in Provider
    THEN Rule(TRUE, Head(n.path), NameFor(Head(n.path), [n EXCEPT !.path = Tail(@)]))
    ELSE <<>>

SuffixRule(n) ==
    Rule(HasSuffix(n) /\ "openrouter" \in Provider, "openrouter", n)

FallbackRule(n) ==
    LET known == Where(Fallback, LAMBDA p : p \in Provider) IN
    IF known # <<>> THEN Rule(TRUE, Head(known), NameFor(Head(known), n)) ELSE <<>>

ResolveRaw(n, agent) ==
    AgentRule(n, agent) \o AliasRule(n) \o AggregateRule(n)
        \o DirectRule(n) \o SuffixRule(n) \o FallbackRule(n)

(* Router::resolve; the empty sequence stands for ModelNotFound. *)
Resolve ==
    [n \in Name |-> [agent \in DOMAIN AgentHash \cup {Nobody} |->
        LET raw == ResolveRaw(n, agent)
            again == IF HasSuffix(n) THEN ResolveRaw(Strip(n), agent) ELSE <<>>
        IN  FirstOf(raw \o again)]]

Routes ==
    UNION {ToSet(Resolve[n][agent]) : n \in Name, agent \in DOMAIN AgentHash \cup {Nobody}}

-----------------------------------------------------------------------------
(* Providers in the order they are tried (provider_order): the preferred   *)
(* one, the fallback chain, and the others by name.                        *)

ByName(ps) == Sorted(ps, LAMBDA p, q : NameOrder[p] < NameOrder[q])

ProviderOrder ==
    [preferred \in {r.provider : r \in Routes} |->
        LET named == Where(<<preferred>> \o Fallback, LAMBDA p : p \in Provider)
        IN  Distinct(named) \o ByName(Provider \ ToSet(named))]

-----------------------------------------------------------------------------
(* Names tried at one provider *)

(* auto_fallback_model_score: the lower the better.  Each needle found in  *)
(* the name takes its bonus off or puts its penalty on.                    *)
ProviderBonus == [opencode |-> 20, github |-> 12, gemini |-> 10, nvidia |-> 8]
WordBonus == [coder |-> 30, code |-> 25, sonnet |-> 22, claude |-> 20, kimi |-> 18,
              deepseek |-> 16, qwen |-> 14, mistral |-> 10, llama |-> 8, gemini |-> 8]
WordPenalty == [1b |-> 30, 3b |-> 20, nano |-> 18, mini |-> 8]

SumOf(weights, words) == SumFunctionOnSet(weights, words \cap DOMAIN weights)

AutoScore ==
    [p \in Provider |-> [n \in Name |->
        LET bonus == SumOf(ProviderBonus, {p}) + SumOf(WordBonus, Words[n])
        IN  (IF bonus > 100 THEN 0 ELSE 100 - bonus) + SumOf(WordPenalty, Words[n])]]

UnsafeWords == {"embed", "embedding", "guard", "moderation", "rerank", "whisper",
                "tts", "audio", "image", "vision"}

(* is_unsafe_auto_fallback_model *)
Unsafe(p, n) ==
    \/ p = "openrouter" /\ IsAggregate(n)
    \/ Words[n] \cap UnsafeWords # {}

(* model_fallbacks_for: entries for the name and for its bare form. *)
FallbacksFor(n) ==
    LET Of(x) == IF x \in DOMAIN ModelFallbacks THEN ModelFallbacks[x] ELSE <<>>
    IN  Distinct(Of(n) \o Of(Strip(n)))

Indexed(names, i) == [j \in 1..Len(names) |-> [name |-> names[j], index |-> i]]
Tried(names, i) == FlattenSeq([j \in 1..Len(names) |-> Indexed(Variants(names[j]), i)])

(* Mutant of Pushed: names already tried are pushed again. *)
PushedAgain(s) == s

(* push_candidate_models: names seen before are dropped. *)
Pushed(s) == FirstOfEach(s, LAMBDA x : x.name)

(* The requested name (index 0) and its configured fallbacks at p (1). *)
NamedAt ==
    [p \in Provider |-> [n \in {r.model : r \in Routes} |->
        LET here == Where(FallbacksFor(n), LAMBDA e : e.provider = p)
        IN  Pushed(Tried(<<n>>, 0) \o Tried([j \in 1..Len(here) |-> NameFor(p, here[j].model)], 1))]]

(* The order in which a provider's models serve as automatic fallbacks.    *)
AutoOrder ==
    [p \in Provider |->
        Sorted({n \in Name : ~Unsafe(p, n)},
               LAMBDA m, n : \/ AutoScore[p][m] < AutoScore[p][n]
                             \/ AutoScore[p][m] = AutoScore[p][n] /\ NameRank[m] < NameRank[n])]

=============================================================================
