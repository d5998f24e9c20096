---------------------------- MODULE MCSelection -----------------------------
(***************************************************************************)
(* A gateway with three providers and five keys, and names that meet       *)
(* every rule of resolution.                                               *)
(***************************************************************************)
EXTENDS AdaptiveRouting

CONSTANTS o1, g1, g2, g3, c1, hermes, reader, nobody

N(path, tier) == [path |-> path, tier |-> tier]

Llama     == N(<<"meta", "llama">>, "default")
LlamaFree == N(<<"meta", "llama">>, "free")
CoderBig  == N(<<"coder">>, "extended")
Coder     == N(<<"coder">>, "default")
Auto      == N(<<"openrouter", "auto">>, "default")
Direct    == N(<<"groq", "coder">>, "default")
Cf        == N(<<"@cf", "mini">>, "default")
Chatty    == N(<<"chat">>, "default")       \* an alias

MCProvider  == {"openrouter", "groq", "cloudflare"}
MCNameOrder == [cloudflare |-> 1, groq |-> 2, openrouter |-> 3]
MCFallback  == <<"ollama", "groq", "openrouter">>
MCName      == {Llama, LlamaFree, CoderBig, Coder, Auto, Direct, Cf, Chatty}
MCNameRank  == [n \in MCName |->
                    CASE n = Cf -> 1 [] n = Chatty -> 2 [] n = Coder -> 3 [] n = CoderBig -> 4
                      [] n = Direct -> 5 [] n = Llama -> 6 [] n = LlamaFree -> 7 [] n = Auto -> 8]
MCWords     == [n \in MCName |->
                    CASE n \in {Llama, LlamaFree} -> {"llama"}
                      [] n \in {Coder, CoderBig, Direct} -> {"coder", "code"}
                      [] n = Cf -> {"mini"}
                      [] OTHER -> {}]
MCAlias     == (Chatty :> [provider |-> "groq", model |-> Llama])
MCAgents    == (hermes :> Chatty)
MCFallbacks == (Llama :> <<[provider |-> "groq", model |-> Coder]>>)

MCKey    == {o1, g1, g2, g3, c1}
MCPool   == [openrouter |-> <<o1>>, groq |-> <<g1, g2, g3>>, cloudflare |-> <<c1>>]
MCTier   == (g2 :> "paid") @@ [k \in MCKey |-> "free"]
MCOffers == (o1 :> {Llama, LlamaFree, CoderBig}) @@ (g1 :> {Llama, Coder}) @@ (g2 :> {Coder}) @@ (g3 :> {Coder}) @@ (c1 :> {Cf})
MCHash   == (hermes :> 1) @@ (reader :> 2)

(* A model that two keys of groq list, one that only Cloudflare lists and  *)
(* groq lends a key for, and one that OpenRouter lends its key for.        *)
Groq(n) == [provider |-> "groq", model |-> n]
MCForwarded == {<<"round_robin", Groq(Coder), reader>>, <<"random", Groq(Coder), nobody>>,
                <<"least_rate", Groq(Cf), nobody>>,
                <<"least_failed", [provider |-> "openrouter", model |-> Auto], hermes>>}

(* Adaptive routing: the names "auto" and "coding-auto" leave the model open. *)
AutoName == N(<<"auto">>, "default")
CodeAuto == N(<<"coding-auto">>, "default")

MCAutoModel == (CodeAuto :> "coding")
MCProfiles  == (hermes :> [auto |-> CodeAuto, groups |-> {"fast", "ghost"}])
MCGroup     == [fast |-> {"groq", "cloudflare"}]
MCPriority  == [openrouter |-> 1, groq |-> 1, cloudflare |-> 9]
MCMeta      == (<<"groq", Coder>> :> [vision |-> "no", tools |-> "yes", reasoning |-> "yes",
                                       window |-> 4000, price |-> "free"])
MCSignals   == (hermes :> {"coding"}) @@ (reader :> {"document"})
MCAsked     == {[name |-> AutoName, signals |-> {}, tokens |-> 10],
                [name |-> AutoName, signals |-> {"vision"}, tokens |-> 10],
                [name |-> CodeAuto, signals |-> {"tools"}, tokens |-> 9000],
                [name |-> Chatty, signals |-> {"plan"}, tokens |-> 10],
                [name |-> Coder, signals |-> {}, tokens |-> 10]}

(* The names in play are such that what is listed is served. *)
ASSUME NamesAreServable == ServableNames

=============================================================================
