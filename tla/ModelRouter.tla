---------------------------- MODULE ModelRouter -----------------------------
(***************************************************************************)
(* How a chat request walks through deployments: Router::chat and          *)
(* Router::chat_stream with the accounting of the stream they return       *)
(* (src/src/router/mod.rs), the deadline and the client around them        *)
(* (src/src/api/chat.rs) and the deployment cooldowns the attempts leave   *)
(* in the metadata store (src/src/metadata/mod.rs).                        *)
(*                                                                         *)
(* A request passes up to three rounds: the free deployments selected for  *)
(* its model, then a free key of every provider that had none of them (the *)
(* rescue), then a paid key of the providers that had some.                *)
(*                                                                         *)
(* A deployment is a key with a model; a key slot belongs to one provider. *)
(* Which keys the pools offer, and which reservations they refuse, is left *)
(* open at every call (KeyPool.tla says which); so is the order in which   *)
(* order_candidates and provider_order sort.                               *)
(***************************************************************************)
EXTENDS Naturals, FiniteSets

CONSTANTS
    Provider, Key, Model, Request,
    Owner,          \* Key -> Provider
    FreeKey,        \* the keys of tier free; the others are paid
    Wanted,         \* the model the requests resolve to
    AutoDiscover,   \* routing.auto_discover
    None            \* neither a deployment nor an error

Deployment == Key \X Model

(* What an upstream can fail with, by what the router does about it.       *)
(*   rate_limited    429: may be rescued, may escalate to paid keys        *)
(*   unreachable     transport error or timeout: may be rescued            *)
(*   server_error    5xx, undecodable or empty response                    *)
(*   quota           a real-model failure without the status 429           *)
(*   auth_failed     401, or a 403 that concerns the key                   *)
(*   model_mismatch  the provider does not serve this model to this key    *)
(*   other           region, WAF, malformed request                        *)
Error == {"rate_limited", "unreachable", "server_error", "quota",
          "auth_failed", "model_mismatch", "other"}

ASSUME RouterAssumption ==
    /\ Owner \in [Key -> Provider]
    /\ FreeKey \subseteq Key
    /\ Wanted \in Model
    /\ AutoDiscover \in BOOLEAN
    /\ None \notin Deployment \cup Error

VARIABLES
    req,        \* Request -> the state of its handler
    blocked,    \* disabled_models: set of <<provider, model>>
    cooling     \* deployments whose cooldown_until lies ahead

vars == <<req, blocked, cooling>>

Route(d) == <<Owner[d[1]], d[2]>>
IsFree(d) == d[1] \in FreeKey

(* is_key_attributable_failure or real_model_key_cooldown_reason: the pool *)
(* hears of the failure, which settles the reservation.                    *)
KeyAttributable(e) == e \notin {"model_mismatch", "other"}

(* is_server_error of chat and chat_stream. *)
ServerError(e) == e \in {"rate_limited", "unreachable"}

Handler == [
    phase     : {"idle", "discover", "free", "rescue", "paid", "streaming", "done"},
    stream    : BOOLEAN,
    selected  : SUBSET Deployment,           \* candidates
    asked     : SUBSET Deployment,           \* attempts of all rounds
    refused   : SUBSET Deployment,           \* candidates the pool would not reserve
    invalid   : SUBSET (Provider \X Model),  \* invalid_provider_models
    error     : Error \cup {None},           \* last_error
    at        : Deployment \cup {None},      \* the attempt under way
    tried     : SUBSET Provider,             \* providers the later rounds are through with
    unsettled : SUBSET Deployment,           \* reservations nobody has reported on
    excused   : SUBSET Deployment,           \* history: those the code means not to report
    reply     : {"none", "answer", "stream", "error", "not_found", "dropped"}]

Fresh(s) == [phase |-> "idle", stream |-> s, selected |-> {}, asked |-> {},
             refused |-> {}, invalid |-> {}, error |-> None, at |-> None,
             tried |-> {}, unsettled |-> {}, excused |-> {}, reply |-> "none"]

Become(r, h) == req' = [req EXCEPT ![r] = h]

Init ==
    /\ \E s \in [Request -> BOOLEAN] : req = [r \in Request |-> Fresh(s[r])]
    /\ blocked = {}
    /\ cooling = {}

-----------------------------------------------------------------------------
(* Selection *)

Candidates(offered) ==
    {d \in offered : IsFree(d) /\ Route(d) \notin blocked /\ d \notin cooling}

Covered(h) == {Owner[d[1]] : d \in h.selected}

(* candidates_with_refresh: with nothing to ask, the inventories are read  *)
(* again, which takes time, and the candidates are collected once more.    *)
Select(r) ==
    /\ req[r].phase = "idle"
    /\ \E offered \in SUBSET (FreeKey \X Model) :
          LET c == Candidates(offered) IN
          Become(r, IF c # {}
                    THEN [req[r] EXCEPT !.phase = "free", !.selected = c]
                    ELSE IF AutoDiscover
                    THEN [req[r] EXCEPT !.phase = "discover"]
                    ELSE [req[r] EXCEPT !.phase = "done", !.reply = "not_found"])
    /\ UNCHANGED <<blocked, cooling>>

SelectAgain(r) ==
    /\ req[r].phase = "discover"
    /\ \E offered \in SUBSET (FreeKey \X Model) :
          LET c == Candidates(offered) IN
          Become(r, IF c # {}
                    THEN [req[r] EXCEPT !.phase = "free", !.selected = c]
                    ELSE [req[r] EXCEPT !.phase = "done", !.reply = "not_found"])
    /\ UNCHANGED <<blocked, cooling>>

-----------------------------------------------------------------------------
(* The three rounds *)

(* Mutant of Remaining: models reported invalid are asked again on other keys. *)
RemainingWithInvalid(h) == {d \in h.selected : d \notin h.asked \cup h.refused}

(* Candidates the loop still comes to. *)
Remaining(h) ==
    {d \in h.selected : /\ d \notin h.asked \cup h.refused
                        /\ Route(d) \notin h.invalid}

(* Providers a later round still comes to. *)
RescueLeft(h) == Provider \ (Covered(h) \cup h.tried)
PaidLeft(h) == Covered(h) \ h.tried

Turn(h) ==
    CASE h.phase = "free"   -> Remaining(h)
      [] h.phase = "rescue" -> {d \in FreeKey \X {Wanted} : Owner[d[1]] \in RescueLeft(h)}
      [] h.phase = "paid"   -> {d \in (Key \ FreeKey) \X {Wanted} : Owner[d[1]] \in PaidLeft(h)}
      [] OTHER              -> {}

InRound(h) == h.phase \in {"free", "rescue", "paid"} /\ h.at = None

(* reserve_key succeeds and the request is on its way. *)
Ask(r, d) ==
    LET h == req[r] IN
    /\ InRound(h) /\ d \in Turn(h)
    /\ Become(r, [h EXCEPT !.at = d,
                           !.asked = @ \cup {d},
                           !.unsettled = @ \cup {d},
                           !.tried = IF h.phase = "free" THEN @ ELSE @ \cup {Owner[d[1]]}])
    /\ UNCHANGED <<blocked, cooling>>

(* The pool refuses the candidate, or its provider is gone. *)
Refused(r, d) ==
    LET h == req[r] IN
    /\ InRound(h) /\ h.phase = "free" /\ d \in Remaining(h)
    /\ Become(r, [h EXCEPT !.refused = @ \cup {d}])
    /\ UNCHANGED <<blocked, cooling>>

(* Mutant of PassOver: a provider without a key is come back to. *)
PassOverForgotten(r, p) == FALSE

(* No free key (any_free_key), no paid key that serves the model           *)
(* (paid_candidate_for_model), or the pool refuses it.                     *)
PassOver(r, p) ==
    LET h == req[r] IN
    /\ InRound(h)
    /\ \/ h.phase = "rescue" /\ p \in RescueLeft(h)
       \/ h.phase = "paid" /\ p \in PaidLeft(h)
    /\ Become(r, [h EXCEPT !.tried = @ \cup {p}])
    /\ UNCHANGED <<blocked, cooling>>

GivenUp(h) == [h EXCEPT !.phase = "done", !.reply = "error"]

(* Mutant of Advance: the first failure ends the free round. *)
AdvanceAtOnce(r) ==
    LET h == req[r] IN
    /\ InRound(h)
    /\ \/ /\ h.phase = "free" /\ (Remaining(h) = {} \/ h.error # None)
          /\ Become(r, IF ServerError(h.error) THEN [h EXCEPT !.phase = "rescue"]
                                               ELSE GivenUp(h))
       \/ /\ h.phase = "rescue" /\ RescueLeft(h) = {}
          /\ Become(r, GivenUp(h))
    /\ UNCHANGED <<blocked, cooling>>

(* Mutant of Advance: after a 429 the paid keys come before the rescue. *)
AdvancePaidFirst(r) ==
    LET h == req[r] IN
    /\ InRound(h)
    /\ \/ /\ h.phase = "free" /\ Remaining(h) = {}
          /\ Become(r, CASE h.error = "rate_limited" -> [h EXCEPT !.phase = "paid"]
                         [] h.error = "unreachable"  -> [h EXCEPT !.phase = "rescue"]
                         [] OTHER                    -> GivenUp(h))
       \/ /\ h.phase = "paid" /\ PaidLeft(h) = {}
          /\ Become(r, [h EXCEPT !.phase = "rescue"])
       \/ /\ h.phase = "rescue" /\ RescueLeft(h) = {}
          /\ Become(r, GivenUp(h))
    /\ UNCHANGED <<blocked, cooling>>

(* A round is over. *)
Advance(r) ==
    LET h == req[r] IN
    /\ InRound(h)
    /\ \/ /\ h.phase = "free" /\ Remaining(h) = {}
          /\ Become(r, IF ServerError(h.error) THEN [h EXCEPT !.phase = "rescue"]
                                               ELSE GivenUp(h))
       \/ /\ h.phase = "rescue" /\ RescueLeft(h) = {}
          /\ Become(r, IF h.error = "rate_limited" THEN [h EXCEPT !.phase = "paid"]
                                                   ELSE GivenUp(h))
       \/ /\ h.phase = "paid" /\ PaidLeft(h) = {}
          /\ Become(r, GivenUp(h))
    /\ UNCHANGED <<blocked, cooling>>

-----------------------------------------------------------------------------
(* What becomes of an attempt *)

(* Mutant of Cooled: the row is keyed by provider and model. *)
CooledByRoute(d, e) == {cooling \cup {Route(d)}}

(* record_request_attempt of a failure: a cooldown of zero seconds, which  *)
(* a 429 or a quota error may ask for, leaves the row's cooldown as it is. *)
Cooled(d, e) ==
    IF e \in {"rate_limited", "quota"} THEN {cooling, cooling \cup {d}}
                                       ELSE {cooling \cup {d}}

(* Mutant of AfterFailure: the later rounds do not tell the pool of their failures. *)
AfterFailureUnreported(h, e) ==
    [h EXCEPT !.at = None,
              !.unsettled = IF h.phase = "free" THEN @ \ {h.at} ELSE @,
              !.error = IF h.phase = "free" THEN e ELSE @]

(* Only the first round moves last_error and learns invalid models. *)
AfterFailure(h, e) ==
    LET d == h.at IN
    [h EXCEPT
        !.at = None,
        !.unsettled = IF KeyAttributable(e) THEN @ \ {d} ELSE @,
        !.excused = IF KeyAttributable(e) THEN @ ELSE @ \cup {d},
        !.error = IF h.phase = "free" THEN e ELSE @,
        !.invalid = IF h.phase = "free" /\ e = "model_mismatch"
                    THEN @ \cup {Route(d)} ELSE @]

Fails(r, e) ==
    LET h == req[r] IN
    /\ h.at # None /\ h.phase # "streaming"
    /\ Become(r, AfterFailure(h, e))
    /\ cooling' \in Cooled(h.at, e)
    /\ UNCHANGED blocked

(* A completion without useful output: the later rounds report it to the   *)
(* pool but record no attempt.  An empty stream is found out at its end.   *)
EmptyAnswer(r) ==
    LET h == req[r] IN
    /\ h.at # None /\ ~h.stream /\ h.phase # "streaming"
    /\ Become(r, AfterFailure(h, "server_error"))
    /\ cooling' = IF h.phase = "free" THEN cooling \cup {h.at} ELSE cooling
    /\ UNCHANGED blocked

(* A completion; the later rounds record no attempt of it. *)
Answers(r) ==
    LET h == req[r] IN
    /\ h.at # None /\ ~h.stream /\ h.phase # "streaming"
    /\ Become(r, [h EXCEPT !.phase = "done", !.reply = "answer",
                           !.at = None, !.unsettled = @ \ {h.at}])
    /\ cooling' = IF h.phase = "free" THEN cooling \ {h.at} ELSE cooling
    /\ UNCHANGED blocked

(* The upstream accepts the stream; account_stream goes on from here. *)
StreamOpens(r) ==
    LET h == req[r] IN
    /\ h.at # None /\ h.stream /\ h.phase # "streaming"
    /\ Become(r, [h EXCEPT !.phase = "streaming", !.reply = "stream"])
    /\ UNCHANGED <<blocked, cooling>>

StreamEnds(r) ==
    LET h == req[r] IN
    /\ h.phase = "streaming"
    /\ Become(r, [h EXCEPT !.phase = "done", !.at = None, !.unsettled = @ \ {h.at}])
    /\ cooling' = cooling \ {h.at}
    /\ UNCHANGED blocked

(* The body breaks off, stays empty or ends with half a tool call: the key *)
(* is cooled in the pool, the attempt is recorded without a cooldown.      *)
StreamBreaks(r) ==
    LET h == req[r] IN
    /\ h.phase = "streaming"
    /\ Become(r, [h EXCEPT !.phase = "done", !.at = None, !.unsettled = @ \ {h.at}])
    /\ UNCHANGED <<blocked, cooling>>

(* The client goes away, or the deadline of a request that is not streamed *)
(* passes: the handler's future is dropped where it waits.                 *)
Dropped(r) ==
    LET h == req[r] IN
    /\ h.phase = "discover" \/ h.at # None
    /\ Become(r, [h EXCEPT !.phase = "done", !.at = None,
                           !.excused = @ \cup h.unsettled,
                           !.reply = IF h.phase = "streaming" THEN @ ELSE "dropped"])
    /\ UNCHANGED <<blocked, cooling>>

-----------------------------------------------------------------------------
(* Around the requests *)

(* admin_provider_models_toggle *)
Toggle(p, m) ==
    /\ blocked' = IF <<p, m>> \in blocked THEN blocked \ {<<p, m>>}
                                          ELSE blocked \cup {<<p, m>>}
    /\ UNCHANGED <<req, cooling>>

(* The cooldown of a deployment runs out. *)
Thaw(d) ==
    /\ d \in cooling
    /\ cooling' = cooling \ {d}
    /\ UNCHANGED <<req, blocked>>

(* The next request of a client (handle_non_stream, handle_stream). *)
Arrive(r, s) ==
    /\ req[r].phase = "done"
    /\ Become(r, Fresh(s))
    /\ UNCHANGED <<blocked, cooling>>

Handle(r) ==
    \/ Select(r) \/ SelectAgain(r) \/ Advance(r)
    \/ \E d \in Deployment : Ask(r, d) \/ Refused(r, d)
    \/ \E p \in Provider : PassOver(r, p)

(* What the upstream does with an attempt that is under way; its HTTP      *)
(* client gives up after a timeout, so it does something.                  *)
Upstream(r) ==
    \/ \E e \in Error : Fails(r, e)
    \/ EmptyAnswer(r) \/ Answers(r) \/ StreamOpens(r)

Next ==
    \/ \E r \in Request : Handle(r) \/ Upstream(r) \/ StreamEnds(r)
                          \/ StreamBreaks(r) \/ Dropped(r)
                          \/ \E s \in BOOLEAN : Arrive(r, s)
    \/ \E p \in Provider, m \in Model : Toggle(p, m)
    \/ \E d \in Deployment : Thaw(d)

Spec == Init /\ [][Next]_vars

FairSpec ==
    /\ Spec
    /\ \A r \in Request : /\ WF_vars(Handle(r) /\ req[r].phase # "idle")
                          /\ WF_vars(Upstream(r))

-----------------------------------------------------------------------------
(* Properties *)

(* Every handler and both shared sets keep their types (the state of       *)
(* Router::chat and chat_stream).                                          *)
TypeOK ==
    /\ req \in [Request -> Handler]
    /\ blocked \subseteq Provider \X Model
    /\ cooling \subseteq Deployment

(* The rounds that are over left nothing out. *)
FreeRoundOver(h) == Remaining(h) = {}
RescueOver(h) == RescueLeft(h) = {}
PaidOver(h) == PaidLeft(h) = {}

(* The client gets an error only after every free candidate was asked,     *)
(* refused or known to be invalid, every other provider was offered the    *)
(* request if the last error was the server's, and every paid key was      *)
(* considered if it was a 429 (the exits of the loops of chat).            *)
ExhaustedBeforeError ==
    \A r \in Request : req[r].reply = "error" =>
        /\ FreeRoundOver(req[r])
        /\ ServerError(req[r].error) => RescueOver(req[r])
        /\ req[r].error = "rate_limited" => PaidOver(req[r])

(* A paid key is asked only when nothing free is left: a free deployment   *)
(* of the request was asked, the last of them answered 429, and every      *)
(* provider without a candidate has had its turn (README.md:27: paid is    *)
(* the last resort; the second round of the emergency fallback).           *)
(* CONFIG.md:24-25 would not have a paid key selected automatically at     *)
(* all; the code does select one, and this bounds when.                    *)
PaidIsLastResort ==
    \A r \in Request : \A d \in req[r].asked : ~IsFree(d) =>
        /\ Owner[d[1]] \in Covered(req[r])
        /\ \E f \in req[r].asked : IsFree(f)
        /\ req[r].error = "rate_limited"
        /\ FreeRoundOver(req[r]) /\ RescueOver(req[r])

(* A reservation is reported to the pool exactly while its attempt ends:   *)
(* what is not reported is under way, was dropped with its handler, or     *)
(* failed in a way the code does not hold against the key.                 *)
ReservationsAreSettled ==
    \A r \in Request :
        req[r].unsettled = (req[r].excused \cap req[r].asked)
                           \cup {d \in {req[r].at} : d # None}

(* No deployment is asked twice within a request, and after a provider has *)
(* said that it does not serve a model the free round does not ask its     *)
(* other keys (invalid_provider_models).                                   *)
NeverAskedAgain ==
    [][\A r \in Request : (req'[r].at # req[r].at /\ req'[r].at # None) =>
          /\ req'[r].at \notin req[r].asked
          /\ IsFree(req'[r].at) => Route(req'[r].at) \notin req[r].invalid]_vars

(* A request that has begun is answered, or streaming, in the end,         *)
(* whatever the upstreams answer, the operator blocks and other requests   *)
(* do to the cooldowns.                                                    *)
RequestsEnd ==
    \A r \in Request :
        req[r].phase # "idle" ~> req[r].phase \in {"streaming", "done"}

(* What lies behind these, handler by handler: what is known on entering a *)
(* round stays true (the order of the rounds in chat); every attempt was a *)
(* candidate or used up its provider's turn, so none can be repeated; and  *)
(* the attempt under way is new, so it is not among the excused ones.      *)
RoundsInOrder(h) ==
    /\ h.phase \in {"idle", "discover"} =>
           h.selected = {} /\ h.asked = {} /\ h.error = None
    /\ h.phase = "free" => h.asked \subseteq h.selected
    /\ h.phase = "rescue" => Remaining(h) = {} /\ ServerError(h.error)
    /\ h.phase = "paid" => /\ Remaining(h) = {} /\ RescueLeft(h) = {}
                           /\ h.error = "rate_limited"
    /\ h.error # None => \E f \in h.asked : IsFree(f)
    /\ h.reply = "error" => h.phase = "done"

AttemptsTracked(h) ==
    /\ h.selected \subseteq FreeKey \X Model
    /\ h.invalid \subseteq {Route(d) : d \in h.selected}
    /\ \A d \in h.asked : d \in h.selected \/ Owner[d[1]] \in h.tried
    /\ h.phase \in {"free", "rescue"} => \A d \in h.asked : IsFree(d)

SlotInUse(h) ==
    /\ h.at # None => /\ h.at \in h.asked /\ h.at \notin h.excused
                      /\ h.phase \in {"free", "rescue", "paid", "streaming"}
    /\ h.phase = "streaming" => h.at # None
    /\ h.excused \subseteq h.asked

RouterInv ==
    /\ TypeOK
    /\ \A r \in Request : /\ RoundsInOrder(req[r])
                          /\ AttemptsTracked(req[r])
                          /\ SlotInUse(req[r])
    /\ ExhaustedBeforeError
    /\ PaidIsLastResort
    /\ ReservationsAreSettled

(* "When all model-specific candidates fail with server-side errors        *)
(* (transport unreachable, rate-limited, timeout, 5xx), try fallback       *)
(* providers that had NO model-specific candidates" (router/mod.rs, the    *)
(* comment above the emergency fallback of chat).                          *)
ServerErrorsAreRescued ==
    \A r \in Request :
        (/\ req[r].reply = "error"
         /\ req[r].error \in {"rate_limited", "unreachable", "server_error"})
        => RescueOver(req[r])

=============================================================================
