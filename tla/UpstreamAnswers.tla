---------------------------- MODULE UpstreamAnswers ----------------------------
(***************************************************************************)
(* What becomes of an upstream answer: an adapter (src/src/providers) turns *)
(* it into a response or a GatewayError, src/src/error.rs classifies the   *)
(* error, and each place that hears it reports it to the key and to the    *)
(* provider.  The reports drive the provider cooldown of ProviderGate.     *)
(*                                                                         *)
(* A text is the set of the kinds of wording it contains: the code lowers  *)
(* it and searches it for lists of substrings, and any of these may occur  *)
(* together.  The end of a streamed body is judged by the chunks that went *)
(* through the inspection of src/src/router/mod.rs.                        *)
(***************************************************************************)
EXTENDS ProviderGate

CONSTANTS
    Adapter,            \* of "openai", "cloudflare", "ollama"
    HealthCheckModel,   \* whether the openai adapter has a health_check_model
    MaxWordings,        \* bound: kinds of wording in one text
    MaxChunks           \* bound: chunks of a streamed body

ASSUME AnswerAssumption ==
    /\ Adapter \subseteq {"openai", "cloudflare", "ollama"}
    /\ HealthCheckModel \in BOOLEAN
    /\ MaxWordings \in Nat
    /\ MaxChunks \in Nat

VARIABLE heard          \* what the last step made of an answer, or Silence

answerVars == <<fails, cooldown, lock, pc, tries, streak, heard>>

-----------------------------------------------------------------------------
(* Answers.                                                                *)

(* "region" and "model" are the wordings the validation looks for, too.    *)
Wording == {"waf", "region", "otherRegion", "model", "otherModel",
            "badModelId", "auth", "exhausted"}

Text == {w \in SUBSET Wording : Cardinality(w) <= MaxWordings}

Status == {200, 400, 401, 403, 404, 429, 500, 503}

(* Where parse_retry_after_seconds and the adapters find when to retry: in *)
(* the header, in a field of the JSON body, in a phrase of the message.    *)
Hint == {"none", "header", "field", "phrase"}

(* A page is JSON with or without useful output, or no JSON at all.        *)
Page == [status : Status, body : {"useful", "empty", "html"}, text : Text, hint : Hint]

NoPage(body) == [status |-> 0, body |-> body, text |-> {}, hint |-> "none"]

Refused == NoPage("refused")    \* no connection, or it broke
Late    == NoPage("late")       \* nothing before the timeout of the call

Successful(a) == a.status = 200

-----------------------------------------------------------------------------
(* Errors: HttpError, Reqwest, Timeout and UpstreamError of GatewayError.  *)

HttpError(status, text, hint) ==
    [kind |-> "HttpError", status |-> status, text |-> text, hint |-> hint]

OtherError(kind, text) ==
    [kind |-> kind, status |-> 0, text |-> text, hint |-> "none"]

Ok    == [kind |-> "Ok", status |-> 200, text |-> {}, hint |-> "none"]
Blank == [Ok EXCEPT !.kind = "OkEmpty"]

(* A failed answer read as text is the message as it stands; a message     *)
(* taken out of its JSON loses the fields beside it.                       *)
ReadAsText(a)  == HttpError(a.status, a.text, a.hint)
TakeMessage(a) == HttpError(a.status, a.text, IF a.hint = "field" THEN "none" ELSE a.hint)

Undecodable == OtherError("Reqwest", {})

Json(a) == IF a.body = "empty" THEN Blank ELSE Ok

(* parse_json_body: no JSON is an error of its own in a success, and a     *)
(* message like any other in a failure.                                    *)
ParseJsonBody(a) ==
    IF ~Successful(a) THEN TakeMessage(a)
    ELSE IF a.body = "html" THEN OtherError("UpstreamError", a.text) ELSE Json(a)

OpenAiChat(a) == ParseJsonBody(a)
OpenAiPost(a) == ParseJsonBody(a)

(* An endpoint without GET /models: the configured model is the inventory. *)
OpenAiModels(a) ==
    IF Successful(a) THEN ParseJsonBody(a)
    ELSE IF a.status = 404 /\ HealthCheckModel THEN Ok ELSE ReadAsText(a)

(* These decode the body before they look at the status.                   *)
CloudflareChat(a) ==
    IF a.body = "html" THEN Undecodable
    ELSE IF Successful(a) THEN Json(a) ELSE TakeMessage(a)

PostJson(a) ==
    IF a.body = "html" THEN Undecodable
    ELSE IF Successful(a) THEN Json(a) ELSE TakeMessage(a)

(* These look at the status first.                                         *)
CloudflareModels(a) ==
    IF ~Successful(a) THEN ReadAsText(a)
    ELSE IF a.body = "html" THEN Undecodable ELSE Json(a)

OllamaModels(a) == CloudflareModels(a)
OllamaChat(a)   == CloudflareModels(a)

OpenAiStream(a)     == IF Successful(a) THEN Ok ELSE ReadAsText(a)
CloudflareStream(a) == IF Successful(a) THEN Ok ELSE ReadAsText(a)
OllamaStream(a)     == IF Successful(a) THEN Ok ELSE ReadAsText(a)

(* send_stream_request bounds the wait for the headers of a stream; the    *)
(* other calls leave it to the client.                                     *)
NoAnswer(call, a) ==
    OtherError(IF a = Late /\ call = "stream" THEN "Timeout" ELSE "Reqwest", {})

(* The calls of each adapter create_provider makes, and what one returns.  *)
OpenAi(a) == [models |-> OpenAiModels(a), chat |-> OpenAiChat(a),
              stream |-> OpenAiStream(a), post |-> OpenAiPost(a)]
Cloudflare(a) == [models |-> CloudflareModels(a), chat |-> CloudflareChat(a),
                  stream |-> CloudflareStream(a), post |-> PostJson(a)]
Ollama(a) == [models |-> OllamaModels(a), chat |-> OllamaChat(a),
              stream |-> OllamaStream(a), post |-> PostJson(a)]

Heard(adapter, call, a) ==
    IF a \in {Refused, Late} THEN NoAnswer(call, a)
    ELSE [openai |-> OpenAi(a), cloudflare |-> Cloudflare(a), ollama |-> Ollama(a)][adapter][call]

-----------------------------------------------------------------------------
(* Classification.                                                         *)

Forbidden(e) == e.kind = "HttpError" /\ e.status = 403
Unauthorized(e) == e.kind = "HttpError" /\ e.status = 401

WafBlock(e) == "waf" \in e.text
RegionForbidden(e) == e.text \cap {"region", "otherRegion"} # {}
ModelForbidden(e) == e.text \cap {"model", "otherModel"} # {}
InvalidModelId(e) == "badModelId" \in e.text

HttpStatus(e) ==
    IF e.kind = "HttpError" THEN e.status ELSE IF e.kind = "Timeout" THEN 504 ELSE 500

(* retry_after_seconds: the header, or what the text says in a field or in *)
(* a phrase; only an HttpError has any.                                    *)
RetryAfter(e) == IF e.hint = "none" THEN "local" ELSE "upstream"

IsAuthFailure(e) ==
    \/ Unauthorized(e)
    \/ Forbidden(e) /\ ~WafBlock(e) /\ ~RegionForbidden(e) /\ ~ModelForbidden(e)

(* Mutant of IsKeyAttributable: the wording of credentials is enough.      *)
IsKeyAttributableByWording(e) ==
    \/ Unauthorized(e)
    \/ Forbidden(e) /\ "auth" \in e.text
    \/ e.kind = "HttpError" /\ (e.status = 429 \/ e.status >= 500)
    \/ e.kind \in {"Timeout", "Reqwest", "UpstreamError"}

IsKeyAttributable(e) ==
    \/ Unauthorized(e)
    \/ /\ Forbidden(e)
       /\ ~WafBlock(e) /\ ~RegionForbidden(e) /\ ~ModelForbidden(e)
       /\ "auth" \in e.text
    \/ e.kind = "HttpError" /\ (e.status = 429 \/ e.status >= 500)
    \/ e.kind \in {"Timeout", "Reqwest", "UpstreamError"}

(* category, as far as somebody decides on it.                             *)
Category(e) ==
    IF e.kind # "HttpError" THEN "other"
    ELSE IF e.status = 429 THEN "rate_limited"
    ELSE IF e.status = 401 THEN "auth_failed"
    ELSE IF e.status = 403 THEN
        IF WafBlock(e) THEN "waf_blocked"
        ELSE IF RegionForbidden(e) THEN "region_forbidden"
        ELSE IF ModelForbidden(e) THEN "model_forbidden"
        ELSE "auth_failed"
    ELSE IF e.status = 400 /\ InvalidModelId(e) THEN "model_not_found"
    ELSE "other"

-----------------------------------------------------------------------------
(* Reports.  A penalty is what a report does to the key, and for how long: *)
(* as the upstream said or as configured here.                             *)

Penalty(kind, until) == [kind |-> kind, until |-> until]
NoPenalty == Penalty("none", "local")

(* Mutant of GatewayReport: a 429 is reported like any other failure.      *)
GatewayReportOfAuthOnly(e) ==
    IF ~IsKeyAttributable(e) THEN NoPenalty
    ELSE IF IsAuthFailure(e) THEN Penalty("disabled", "local")
    ELSE Penalty("transient", "local")

(* report_gateway_error                                                    *)
GatewayReport(e) ==
    IF ~IsKeyAttributable(e) THEN NoPenalty
    ELSE IF HttpStatus(e) = 429 THEN Penalty("limited", RetryAfter(e))
    ELSE IF IsAuthFailure(e) THEN Penalty("disabled", "local")
    ELSE Penalty("transient", "local")

(* real_model_key_cooldown_reason                                          *)
RealModelReason(e) ==
    IF Category(e) \in {"model_forbidden", "region_forbidden", "waf_blocked",
                        "model_not_found", "auth_failed"} THEN "none"
    ELSE IF Category(e) = "rate_limited" THEN "limited"
    ELSE IF "exhausted" \in e.text THEN "unavailable"
    ELSE "none"

(* A real request reports to the key first and to both otherwise           *)
(* (report_real_model_key_cooldown, then report_gateway_error).            *)
RealModelReport(e) ==
    IF RealModelReason(e) = "none" THEN GatewayReport(e)
    ELSE Penalty(RealModelReason(e), RetryAfter(e))

(* A validation skips the model that does not fit, and reports only what   *)
(* counts (admin_provider_test and admin_key_validate).                    *)
ModelMismatch(e) ==
    \/ HttpStatus(e) = 404
    \/ HttpStatus(e) = 403 /\ e.text \cap {"region", "model"} # {}

ValidationReport(e) ==
    IF ~ModelMismatch(e) /\ (HttpStatus(e) = 429 \/ IsAuthFailure(e))
    THEN GatewayReport(e)
    ELSE NoPenalty

Answered == Penalty("success", "local")

Empty == OtherError("UpstreamError", {})

(* Who hears an answer, by which call, and what is reported.  The first    *)
(* three have selected their key through the gate.                         *)
GatedSite  == {"chat", "chat_stream", "forward"}
DirectSite == {"adaptive", "validate", "refresh"}
Site == GatedSite \cup DirectSite

CallOf == [chat |-> "chat", chat_stream |-> "stream", forward |-> "post",
           adaptive |-> "chat", validate |-> "chat", refresh |-> "models"]

ErrorReport(site, e) ==
    IF site \in {"chat", "chat_stream"} THEN RealModelReport(e)
    ELSE IF site = "validate" THEN ValidationReport(e)
    ELSE GatewayReport(e)

Reported(site, e) ==
    IF e = Blank /\ site = "chat" THEN GatewayReport(Empty)
    ELSE IF e \in {Ok, Blank} THEN Answered
    ELSE ErrorReport(site, e)

-----------------------------------------------------------------------------
(* The body of a stream (account_stream).  A line carries text, nothing of *)
(* interest, a part of a line that was split between two chunks of bytes,  *)
(* or a piece of the arguments of a tool call; a piece may also be the     *)
(* null some providers send instead of a string.                           *)

Piece == {"open", "close", "whole", "null"}

Call == {1, 2}

Line == [piece : {"text", "blank", "half"}, call : {0}]
            \cup [piece : Piece, call : Call]

Body == UNION {[1..n -> Line] : n \in 0..MaxChunks}

(* stream_tool_arguments_fragment: null is the empty object.               *)
Fragment(piece) == IF piece = "null" THEN "whole" ELSE piece

(* repair_stream_tool_call_chunk: what the client is sent.                 *)
Repaired(body) == [i \in DOMAIN body |-> [body[i] EXCEPT !.piece = Fragment(@)]]

(* observe_call: the pieces each line adds, and the lines that add to a    *)
(* call.                                                                   *)
Arguments(body) == [i \in DOMAIN body |-> Fragment(body[i].piece)]

LinesOf(body, call) == {i \in DOMAIN body : body[i].call = call}

(* The pieces at some lines make one JSON value.                           *)
Parses(arguments, lines) ==
    \/ \E i \in lines : lines = {i} /\ arguments[i] = "whole"
    \/ \E i, j \in lines : /\ i < j /\ lines = {i, j}
                           /\ arguments[i] = "open" /\ arguments[j] = "close"

(* validation_error: what nothing was added to is not looked at.           *)
IncompleteCall(body) ==
    \E call \in Call : /\ LinesOf(body, call) # {}
                       /\ ~Parses(Arguments(body), LinesOf(body, call))

SawOutput(body) == \E i \in DOMAIN body : body[i].piece # "blank"

(* force_transient_cooldown, or the success of the whole stream.           *)
StreamReport(body, broken) ==
    IF broken \/ ~SawOutput(body) \/ IncompleteCall(body)
    THEN Penalty("cooldown", "local")
    ELSE Answered

-----------------------------------------------------------------------------
(* What an answer is evidence of, by docs/key-availability-rules.md: this  *)
(* is the measure of the reports and translates no code.                   *)

(* The calls that keep the status of a failure that is no JSON; the others *)
(* turn it into a failure of the transport, and the diagnosis is lost.     *)
KeepsStatus(adapter, call) ==
    \/ call \in {"models", "stream"}
    \/ adapter = "openai"
    \/ adapter = "ollama" /\ call = "chat"

Unreadable(adapter, site, a) ==
    IF Successful(a)
    THEN \/ CallOf[site] # "stream" /\ a.body = "html"
         \/ site = "chat" /\ a.body = "empty"
    ELSE a.body = "html" /\ ~KeepsStatus(adapter, CallOf[site])

Diagnoses(a) ==
    \/ a.status = 403 /\ a.text \cap {"waf", "region", "otherRegion", "model", "otherModel"} # {}
    \/ a.status = 400 /\ "badModelId" \in a.text

Evidence(adapter, site, a) ==
    IF a \in {Refused, Late} \/ Unreadable(adapter, site, a) THEN "outage"
    ELSE IF Successful(a) THEN "fine"
    ELSE IF Diagnoses(a) THEN "diagnosis"
    ELSE IF a.status = 401 \/ (a.status = 403 /\ "auth" \in a.text) THEN "credential"
    ELSE IF a.status = 429 THEN "limit"
    ELSE IF a.status >= 500 THEN "outage"
    ELSE "unclear"

Hinted(adapter, site, a) ==
    a \in Page /\ ~Unreadable(adapter, site, a) /\ a.hint \in {"header", "phrase"}

(* The client joins split lines, the gateway does not: such a stream is    *)
(* judged by what the gateway could see.                                   *)
Delivered(sent) ==
    /\ \E i \in DOMAIN sent : sent[i].piece # "blank"
    /\ \A call \in Call :
          LinesOf(sent, call) # {}
              => Parses([i \in DOMAIN sent |-> sent[i].piece], LinesOf(sent, call))

StreamEvidence(body, broken) ==
    IF broken THEN "outage"
    ELSE IF \E i \in DOMAIN body : body[i].piece = "half" THEN "unclear"
    ELSE IF Delivered(Repaired(body)) THEN "fine"
    ELSE "outage"

-----------------------------------------------------------------------------
Silence == [evidence |-> "silence", hinted |-> FALSE, penalty |-> NoPenalty]

(* All that an answer or the end of a stream can amount to.                *)
Outcomes(sites) ==
    {[evidence |-> Evidence(adapter, site, a),
      hinted   |-> Hinted(adapter, site, a),
      penalty  |-> Reported(site, Heard(adapter, CallOf[site], a))] :
        adapter \in Adapter, site \in sites, a \in Page \cup {Refused, Late}}

StreamOutcome ==
    {[evidence |-> StreamEvidence(body, broken),
      hinted   |-> FALSE,
      penalty  |-> StreamReport(body, broken)] : body \in Body, broken \in BOOLEAN}

(* The operator's refresh makes no report when its own timeout comes first *)
(* and none on a disabled key that lists its models: update_models takes   *)
(* that one back.                                                          *)
Relisted == Penalty("relisted", "local")

Listing == {a \in Page : \E adapter \in Adapter : Heard(adapter, "models", a) \in {Ok, Blank}}

UnreportedOutcome ==
    {[evidence |-> "outage", hinted |-> FALSE, penalty |-> NoPenalty]}
    \cup
    {[evidence |-> IF Successful(a) THEN "fine" ELSE "unclear",
      hinted   |-> FALSE,
      penalty  |-> Relisted] : a \in Listing}

GatedOutcome  == Outcomes(GatedSite) \cup StreamOutcome
DirectOutcome == Outcomes(DirectSite) \cup UnreportedOutcome
OutcomeOf(t)  == IF t \in Direct THEN DirectOutcome ELSE GatedOutcome

AnswerInit == Init /\ heard = Silence

(* A candidate has answered: the report settles it with the provider, too. *)
Hear(t) ==
    \E o \in OutcomeOf(t) :
        /\ heard' = o
        /\ \/ o.penalty.kind = "success" /\ Success(t)
           \/ o.penalty.kind \in {"transient", "cooldown"} /\ Failure(t)
           \/ o.penalty.kind \notin {"success", "transient", "cooldown"} /\ Spare(t)

Quietly(A) == A /\ heard' = Silence

AnswerNext ==
    \/ Quietly(Tick)
    \/ \E t \in Task : \/ Hear(t)
                       \/ Quietly(Gate(t) \/ LockedStore(t) \/ Leave(t))

AnswerSpec == AnswerInit /\ [][AnswerNext]_answerVars

AnswerFairSpec ==
    /\ AnswerSpec
    /\ WF_answerVars(Quietly(Tick))
    /\ \A t \in Task : WF_answerVars(Quietly(LockedStore(t)))

-----------------------------------------------------------------------------
(* Whoever hears an answer punishes what it is evidence of and nothing     *)
(* else: a diagnosis of a firewall, a region or a model spares the key     *)
(* however much its text speaks of credentials, quota or billing; a proven *)
(* bad credential disables the key everywhere; a limit is kept for as long *)
(* as the upstream asked; and a stream is a success exactly if the client  *)
(* was sent some output and complete tool calls.                           *)
Fitting == [silence    |-> {"none"},
            diagnosis  |-> {"none"},
            credential |-> {"disabled"},
            limit      |-> {"limited"},
            fine       |-> {"success", "relisted"},
            outage     |-> {"transient", "cooldown", "unavailable", "none"},
            unclear    |-> {"none", "unavailable", "success", "relisted", "cooldown"}]

FitsEvidence(o) ==
    /\ o.penalty.kind \in Fitting[o.evidence]
    /\ o.hinted /\ o.penalty.kind \in {"limited", "unavailable"}
           => o.penalty.until = "upstream"

PenaltyFitsEvidence == FitsEvidence(heard)

(* The provider's count moves for outages only, so that a provider whose   *)
(* keys are disabled or limited one after the other is not put in          *)
(* cooldown, whatever its answers say.                                     *)
OnlyOutagesCount ==
    [][fails' > fails => heard'.evidence = "outage" \/ heard'.penalty.kind = "cooldown"]_answerVars

=============================================================================
