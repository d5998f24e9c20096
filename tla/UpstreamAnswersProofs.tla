------------------------ MODULE UpstreamAnswersProofs ------------------------
(***************************************************************************)
(* What is proved of the provider gate, first under arbitrary reports      *)
(* (ProviderGate), then driven by the answers of upstream                  *)
(* (UpstreamAnswers), for every number of keys, requests, wordings and     *)
(* chunks.                                                                 *)
(***************************************************************************)
EXTENDS UpstreamAnswers, FiniteSetTheorems, TLAPS

-----------------------------------------------------------------------------
(* ProviderGate.  The count is kept outside the lock by selection, which   *)
(* may reset it at any moment, so it is not the number of consecutive      *)
(* failures; GateInv says that it is never more than that number, and that *)
(* a report that is half done excludes every other report.                 *)

(* The threshold is a number, the set of keys being finite.                *)
LEMMA ThresholdType == Threshold \in Nat
  <1>1. Cardinality(Key) \in Nat
    BY GateAssumption, FS_CardinalityType
  <1>2. QED
    BY <1>1, GateAssumption DEF Threshold

(* A new pool satisfies the invariant.                                     *)
LEMMA GateInit == Init => GateInv
  BY ThresholdType, GateAssumption
  DEF Init, GateInv, TypeOK, LockExcludes, InCritical, FailsAreConsecutive, NoDeadline

(* No other task is inside while the lock is free or held by t.            *)
LEMMA OthersOutside ==
    ASSUME GateInv, NEW t \in Task, lock = "free" \/ InCritical(t)
    PROVE  \A u \in Task : u # t => ~InCritical(u)
  BY DEF GateInv, LockExcludes

(* Selection, an answer that does not count and the end of a request never *)
(* enter the critical section.                                             *)
LEMMA GateSteps ==
    ASSUME GateInv, NEW t \in Task, Gate(t) \/ Spare(t) \/ Leave(t)
    PROVE  GateInv'
  <1> USE DEF GateInv
  <1>1. TypeOK'
    BY ThresholdType, GateAssumption
    DEF TypeOK, Gate, Select, ClearExpired, ClearFails, SelectDirectly, Spare, Leave, NoDeadline
  <1>2. /\ ~InCritical(t) /\ ~InCritical(t)'
        /\ \A u \in Task : u # t => pc'[u] = pc[u]
        /\ lock' = lock /\ streak' = streak /\ fails' \in {0, fails}
    BY DEF TypeOK, Gate, Select, ClearExpired, ClearFails, SelectDirectly, Spare, Leave, InCritical
  <1>3. LockExcludes'
    BY <1>2 DEF LockExcludes, InCritical
  <1>4. FailsAreConsecutive'
    <2>1. fails \in 0..Threshold /\ streak \in 0..Threshold
      BY DEF TypeOK
    <2>2. fails' <= streak'
      BY <1>2, <2>1, ThresholdType DEF FailsAreConsecutive
    <2>3. \A u \in Task : /\ pc'[u] = "cooling" => streak' = Threshold
                          /\ pc'[u] = "clearing" => fails' = 0
      BY <1>2 DEF FailsAreConsecutive, InCritical
    <2>4. QED
      BY <2>2, <2>3, ThresholdType DEF FailsAreConsecutive, Threshold
  <1>5. QED
    BY <1>1, <1>3, <1>4

(* The counting access of a failure, which may keep the lock.              *)
LEMMA FailureStep ==
    ASSUME GateInv, NEW t \in Task, Failure(t)
    PROVE  GateInv'
  <1> USE DEF GateInv
  <1>1. /\ Threshold \in Nat
        /\ fails \in 0..Threshold /\ streak \in 0..Threshold /\ fails <= streak
        /\ pc[t] = "selected" /\ lock = "free"
    BY ThresholdType DEF TypeOK, FailsAreConsecutive, Failure
  <1>2. /\ fails' \in 0..Threshold /\ streak' \in 0..Threshold /\ fails' <= streak'
        /\ fails + 1 >= Threshold => streak' = Threshold
    BY <1>1 DEF Failure, CountUp
  <1>3. tries' \in [Task -> 0..MaxAttempts]
    BY GateAssumption DEF TypeOK, Failure
  <1>4. TypeOK'
    BY <1>2, <1>3 DEF TypeOK, Failure, Threshold
  <1>5. \A u \in Task : u # t => ~InCritical(u) /\ pc'[u] = pc[u]
    BY <1>1, OthersOutside DEF Failure, TypeOK
  <1>6. \/ pc'[t] = "cooling" /\ lock' = "held" /\ fails + 1 >= Threshold
        \/ pc'[t] = "selected"
    BY <1>1 DEF Failure, TypeOK
  <1>7. LockExcludes'
    BY <1>5, <1>6 DEF LockExcludes, InCritical
  <1>8. FailsAreConsecutive'
    BY <1>2, <1>5, <1>6 DEF FailsAreConsecutive, InCritical, Threshold
  <1>9. QED
    BY <1>4, <1>7, <1>8

(* The first store of a success takes the lock.                            *)
LEMMA SuccessStep ==
    ASSUME GateInv, NEW t \in Task, Success(t)
    PROVE  GateInv'
  <1> USE DEF GateInv
  <1>1. pc[t] = "selected" /\ lock = "free" /\ Threshold \in Nat
    BY ThresholdType DEF Success
  <1>2. TypeOK'
    BY <1>1 DEF TypeOK, Success, Threshold
  <1>3. \A u \in Task : u # t => ~InCritical(u) /\ pc'[u] = pc[u]
    BY <1>1, OthersOutside DEF Success, TypeOK
  <1>4. pc'[t] = "clearing" /\ lock' = "held" /\ fails' = 0 /\ streak' = 0
    BY DEF Success, TypeOK
  <1>5. LockExcludes'
    BY <1>3, <1>4 DEF LockExcludes, InCritical
  <1>6. FailsAreConsecutive'
    BY <1>3, <1>4 DEF FailsAreConsecutive, InCritical
  <1>7. QED
    BY <1>2, <1>5, <1>6

(* The second store under the lock releases it.                            *)
LEMMA StoreStep ==
    ASSUME GateInv, NEW t \in Task, LockedStore(t)
    PROVE  GateInv'
  <1> USE DEF GateInv
  <1>1. InCritical(t)
    BY DEF LockedStore, EnterCooldown, ClearCooldown, InCritical
  <1>2. TypeOK'
    <2>1. CASE EnterCooldown(t)
      BY <2>1, GateAssumption DEF TypeOK, EnterCooldown
    <2>2. CASE ClearCooldown(t)
      <3>1. tries' \in [Task -> 0..MaxAttempts] /\ cooldown' = NoDeadline
        BY <2>2, GateAssumption DEF TypeOK, ClearCooldown
      <3>2. QED
        BY <2>2, <3>1 DEF TypeOK, ClearCooldown
    <2>3. QED
      BY <2>1, <2>2 DEF LockedStore
  <1>3. \A u \in Task : u # t => ~InCritical(u) /\ pc'[u] = pc[u]
    BY <1>1, OthersOutside DEF LockedStore, EnterCooldown, ClearCooldown, TypeOK
  <1>4. pc'[t] \in {"selected", "idle"} /\ fails' = fails /\ streak' = streak
    BY DEF LockedStore, EnterCooldown, ClearCooldown, TypeOK
  <1>5. LockExcludes'
    BY <1>3, <1>4 DEF LockExcludes, InCritical
  <1>6. FailsAreConsecutive'
    BY <1>3, <1>4 DEF FailsAreConsecutive, InCritical
  <1>7. QED
    BY <1>2, <1>5, <1>6

(* Time does not pass inside the critical section.                         *)
LEMMA TickStep ==
    ASSUME GateInv, Tick
    PROVE  GateInv'
  <1>1. TypeOK'
    BY DEF GateInv, TypeOK, Tick, NoDeadline
  <1>2. QED
    BY <1>1 DEF GateInv, Tick, LockExcludes, InCritical, FailsAreConsecutive

(* GateInv is inductive.                                                   *)
THEOREM NextPreservesGateInv == GateInv /\ [Next]_vars => GateInv'
  <1> SUFFICES ASSUME GateInv, [Next]_vars PROVE GateInv'
    OBVIOUS
  <1>1. CASE Next
    BY <1>1, TickStep, GateSteps, FailureStep, SuccessStep, StoreStep DEF Next, Report
  <1>2. CASE UNCHANGED vars
    BY <1>2 DEF vars, GateInv, TypeOK, LockExcludes, InCritical, FailsAreConsecutive
  <1>3. QED
    BY <1>1, <1>2

(* The count never exceeds the failures since the last success, and the    *)
(* reports exclude one another.                                            *)
THEOREM GateInvariance == Spec => []GateInv
  BY GateInit, NextPreservesGateInv, PTL DEF Spec

(* record_provider_failure puts a provider in cooldown only after          *)
(* key_count * fail_threshold failures without a success among them.       *)
THEOREM Earned == Spec => CooldownIsEarned
  <1> DEFINE A == cooldown' > 0 /\ cooldown' > cooldown => streak = Threshold
  <1>1. ASSUME GateInv, [Next]_vars PROVE [A]_vars
    <2>1. cooldown \in Nat \cup {NoDeadline}
      BY <1>1 DEF GateInv, TypeOK
    <2>2. CASE \E t \in Task : EnterCooldown(t)
      <3>1. PICK t \in Task : pc[t] = "cooling"
        BY <2>2 DEF EnterCooldown
      <3>2. streak = Threshold
        BY <1>1, <3>1 DEF GateInv, FailsAreConsecutive
      <3>3. QED
        BY <3>2
    <2>3. CASE ~\E t \in Task : EnterCooldown(t)
      <3>1. [Next]_vars => \/ cooldown' = cooldown
                           \/ cooldown' = NoDeadline
                           \/ cooldown > 0 /\ cooldown' = cooldown - 1
        BY <2>3 DEF Next, vars, Tick, Gate, Select, ClearExpired, ClearFails, SelectDirectly,
           Report, Failure, Success, LockedStore, ClearCooldown, Spare, Leave
      <3>2. ~(cooldown' > 0 /\ cooldown' > cooldown)
        BY <1>1, <2>1, <3>1 DEF NoDeadline
      <3>3. QED
        BY <3>2
    <2>4. QED
      BY <2>2, <2>3
  <1>2. QED
    BY <1>1, GateInvariance, PTL DEF Spec, CooldownIsEarned

(* A success leaves the provider open with its count at zero.              *)
THEOREM SuccessOpens == Spec => SuccessOpensProvider
  <1> DEFINE A == \A t \in Task : pc[t] = "clearing" /\ pc'[t] # "clearing"
                                     => cooldown' = NoDeadline /\ fails' = 0
  <1>1. ASSUME GateInv, [Next]_vars PROVE [A]_vars
    <2> SUFFICES ASSUME Next, NEW t \in Task, pc[t] = "clearing", pc'[t] # "clearing"
                 PROVE  cooldown' = NoDeadline /\ fails' = 0
      BY <1>1
    <2>1. pc \in [Task -> {"idle", "expired", "opened", "selected", "cooling", "clearing"}]
      BY <1>1 DEF GateInv, TypeOK
    <2>2. ClearCooldown(t)
      <3>1. ASSUME NEW u \in Task, Gate(u) \/ Report(u) \/ Spare(u) \/ Leave(u) PROVE u = t
        BY <2>1, <3>1 DEF Gate, Select, ClearExpired, ClearFails, SelectDirectly,
           Report, Failure, Success, LockedStore, EnterCooldown, ClearCooldown, Spare, Leave
      <3>2. ~Tick
        BY DEF Tick
      <3>3. Gate(t) \/ Report(t) \/ Spare(t) \/ Leave(t)
        BY <3>1, <3>2 DEF Next
      <3>4. QED
        BY <3>3 DEF Gate, Select, ClearExpired, ClearFails, SelectDirectly, Report,
           Failure, Success, LockedStore, EnterCooldown, Spare, Leave
    <2>3. fails = 0
      BY <1>1 DEF GateInv, FailsAreConsecutive
    <2>4. QED
      BY <2>2, <2>3 DEF ClearCooldown
  <1>2. QED
    BY <1>1, GateInvariance, PTL DEF Spec, SuccessOpensProvider

-----------------------------------------------------------------------------
(* UpstreamAnswers.  Driven by answers instead of arbitrary reports, the   *)
(* gate is still the one of ProviderGate, so what is proved above holds    *)
(* here, too; and what the gate is told fits the evidence, so that only    *)
(* outages count.                                                          *)

(* An answer makes one of the gate's reports, everything else is a step of *)
(* the gate.                                                               *)
LEMMA AnswerStep == [AnswerNext]_answerVars => [Next]_vars
  <1> SUFFICES ASSUME [AnswerNext]_answerVars PROVE [Next]_vars
    OBVIOUS
  <1>1. CASE Quietly(Tick)
    BY <1>1 DEF Quietly, Next
  <1>2. ASSUME NEW t \in Task, Hear(t) PROVE Next
    BY <1>2 DEF Hear, Next, Report
  <1>3. ASSUME NEW t \in Task, Quietly(Gate(t) \/ LockedStore(t) \/ Leave(t)) PROVE Next
    BY <1>3 DEF Quietly, Next, Report
  <1>4. CASE UNCHANGED answerVars
    BY <1>4 DEF answerVars, vars
  <1>5. QED
    BY <1>1, <1>2, <1>3, <1>4 DEF AnswerNext

(* The gate under real answers implements the gate under arbitrary reports *)
(* (record_provider_failure and report_success do not know who calls).     *)
THEOREM AnswersDriveGate == AnswerSpec => Spec
  <1>1. AnswerInit => Init
    BY DEF AnswerInit
  <1>2. QED
    BY <1>1, AnswerStep, PTL DEF AnswerSpec, Spec

(* Hence the count and the exclusion of reports under real answers.        *)
THEOREM AnswersKeepGateInv == AnswerSpec => []GateInv
  BY AnswersDriveGate, GateInvariance, PTL

-----------------------------------------------------------------------------
(* What an adapter makes of a page: the page cannot be read, and its       *)
(* status is gone; or it is a success; or it is an error that keeps status *)
(* and text; or it is the missing list of models of an endpoint.           *)
Interpreted(adapter, site, a, e) ==
    \/ /\ Unreadable(adapter, site, a)
       /\ \/ e.kind \in {"Reqwest", "UpstreamError"}
          \/ e = Blank /\ site = "chat"
    \/ /\ ~Unreadable(adapter, site, a)
       /\ Successful(a)
       /\ e = Ok \/ (e = Blank /\ site # "chat")
    \/ /\ ~Unreadable(adapter, site, a)
       /\ ~Successful(a)
       /\ e.kind = "HttpError" /\ e.status = a.status /\ e.text = a.text
       /\ a.hint \in {"header", "phrase"} => e.hint # "none"
    \/ /\ ~Unreadable(adapter, site, a)
       /\ site # "chat" /\ a.status = 404
       /\ e = Ok

LEMMA PageFields ==
    ASSUME NEW a \in Page
    PROVE  /\ a \notin {Refused, Late}
           /\ a.body \in {"useful", "empty", "html"}
           /\ a.status \in Status /\ a.hint \in Hint
  BY DEF Page, Refused, Late, NoPage

(* What the ways to read it leave of it.                                   *)
LEMMA Readings ==
    ASSUME NEW a \in Page
    PROVE  /\ ReadAsText(a).kind = "HttpError" /\ ReadAsText(a).status = a.status
           /\ ReadAsText(a).text = a.text /\ ReadAsText(a).hint = a.hint
           /\ TakeMessage(a).kind = "HttpError" /\ TakeMessage(a).status = a.status
           /\ TakeMessage(a).text = a.text
           /\ a.hint \in {"header", "phrase"} => TakeMessage(a).hint = a.hint
           /\ Undecodable.kind = "Reqwest"
           /\ OtherError("UpstreamError", a.text).kind = "UpstreamError"
           /\ Json(a) = IF a.body = "empty" THEN Blank ELSE Ok
  BY DEF ReadAsText, TakeMessage, Undecodable, HttpError, OtherError, Json

LEMMA OpenAiHeard ==
    ASSUME NEW site \in Site, NEW a \in Page, NEW e,
           e = OpenAi(a)[CallOf[site]]
    PROVE  Interpreted("openai", site, a, e)
  <1> DEFINE call == CallOf[site]
  <1> USE PageFields, Readings DEF Unreadable, KeepsStatus, Successful, Interpreted
  <1>1. CASE site = "refresh"
    <2>1. e = OpenAiModels(a) /\ call = "models"
      BY <1>1 DEF OpenAi, CallOf
    <2>2. QED
      BY <1>1, <2>1 DEF OpenAiModels, ParseJsonBody
  <1>2. CASE site \in {"chat", "validate", "adaptive"}
    <2>1. e = OpenAiChat(a) /\ call = "chat"
      BY <1>2 DEF OpenAi, CallOf
    <2>2. QED
      BY <1>2, <2>1 DEF OpenAiChat, ParseJsonBody
  <1>3. CASE site = "chat_stream"
    <2>1. e = OpenAiStream(a) /\ call = "stream"
      BY <1>3 DEF OpenAi, CallOf
    <2>2. QED
      BY <1>3, <2>1 DEF OpenAiStream
  <1>4. CASE site = "forward"
    <2>1. e = OpenAiPost(a) /\ call = "post"
      BY <1>4 DEF OpenAi, CallOf
    <2>2. QED
      BY <1>4, <2>1 DEF OpenAiPost, ParseJsonBody
  <1>5. QED
    BY <1>1, <1>2, <1>3, <1>4 DEF Site, GatedSite, DirectSite

LEMMA CloudflareHeard ==
    ASSUME NEW site \in Site, NEW a \in Page, NEW e,
           e = Cloudflare(a)[CallOf[site]]
    PROVE  Interpreted("cloudflare", site, a, e)
  <1> DEFINE call == CallOf[site]
  <1> USE PageFields, Readings DEF Unreadable, KeepsStatus, Successful, Interpreted
  <1>1. CASE site = "refresh"
    <2>1. e = CloudflareModels(a) /\ call = "models"
      BY <1>1 DEF Cloudflare, CallOf
    <2>2. QED
      BY <1>1, <2>1 DEF CloudflareModels
  <1>2. CASE site \in {"chat", "validate", "adaptive"}
    <2>1. e = CloudflareChat(a) /\ call = "chat"
      BY <1>2 DEF Cloudflare, CallOf
    <2>2. QED
      BY <1>2, <2>1 DEF CloudflareChat
  <1>3. CASE site = "chat_stream"
    <2>1. e = CloudflareStream(a) /\ call = "stream"
      BY <1>3 DEF Cloudflare, CallOf
    <2>2. QED
      BY <1>3, <2>1 DEF CloudflareStream
  <1>4. CASE site = "forward"
    <2>1. e = PostJson(a) /\ call = "post"
      BY <1>4 DEF Cloudflare, CallOf
    <2>2. QED
      BY <1>4, <2>1 DEF PostJson
  <1>5. QED
    BY <1>1, <1>2, <1>3, <1>4 DEF Site, GatedSite, DirectSite

LEMMA OllamaHeard ==
    ASSUME NEW site \in Site, NEW a \in Page, NEW e,
           e = Ollama(a)[CallOf[site]]
    PROVE  Interpreted("ollama", site, a, e)
  <1> DEFINE call == CallOf[site]
  <1> USE PageFields, Readings DEF Unreadable, KeepsStatus, Successful, Interpreted
  <1>1. CASE site = "refresh"
    <2>1. e = CloudflareModels(a) /\ call = "models"
      BY <1>1 DEF Ollama, OllamaModels, CallOf
    <2>2. QED
      BY <1>1, <2>1 DEF CloudflareModels
  <1>2. CASE site \in {"chat", "validate", "adaptive"}
    <2>1. e = CloudflareModels(a) /\ call = "chat"
      BY <1>2 DEF Ollama, OllamaChat, CallOf
    <2>2. QED
      BY <1>2, <2>1 DEF CloudflareModels
  <1>3. CASE site = "chat_stream"
    <2>1. e = OllamaStream(a) /\ call = "stream"
      BY <1>3 DEF Ollama, CallOf
    <2>2. QED
      BY <1>3, <2>1 DEF OllamaStream
  <1>4. CASE site = "forward"
    <2>1. e = PostJson(a) /\ call = "post"
      BY <1>4 DEF Ollama, CallOf
    <2>2. QED
      BY <1>4, <2>1 DEF PostJson
  <1>5. QED
    BY <1>1, <1>2, <1>3, <1>4 DEF Site, GatedSite, DirectSite

LEMMA PageHeard ==
    ASSUME NEW adapter \in Adapter, NEW site \in Site, NEW a \in Page
    PROVE  Interpreted(adapter, site, a, Heard(adapter, CallOf[site], a))
  <1> DEFINE e == Heard(adapter, CallOf[site], a)
  <1>1. CASE adapter = "openai"
    <2>1. e = OpenAi(a)[CallOf[site]]
      BY <1>1, PageFields DEF Heard
    <2>2. QED
      BY <1>1, <2>1, OpenAiHeard
  <1>2. CASE adapter = "cloudflare"
    <2>1. e = Cloudflare(a)[CallOf[site]]
      BY <1>2, PageFields DEF Heard
    <2>2. QED
      BY <1>2, <2>1, CloudflareHeard
  <1>3. CASE adapter = "ollama"
    <2>1. e = Ollama(a)[CallOf[site]]
      BY <1>3, PageFields DEF Heard
    <2>2. QED
      BY <1>3, <2>1, OllamaHeard
  <1>4. QED
    BY <1>1, <1>2, <1>3, AnswerAssumption

-----------------------------------------------------------------------------
(* A failure of the transport, or an answer nobody can use, accuses no key *)
(* of anything lasting.                                                    *)
LEMMA TransportReport ==
    ASSUME NEW site \in Site, NEW e, e.kind \in {"Reqwest", "UpstreamError", "Timeout"}
    PROVE  Reported(site, e).kind \in {"transient", "unavailable", "none"}
  <1>1. e # Ok /\ e # Blank /\ HttpStatus(e) # 429 /\ ~IsAuthFailure(e)
    BY DEF Ok, Blank, HttpStatus, IsAuthFailure, Unauthorized, Forbidden
  <1>2. GatewayReport(e).kind = "transient"
    BY <1>1 DEF GatewayReport, IsKeyAttributable, Penalty
  <1>3. RealModelReport(e).kind \in {"transient", "unavailable"}
    <2>1. RealModelReason(e) \in {"none", "unavailable"}
      BY DEF RealModelReason, Category
    <2>2. QED
      BY <1>2, <2>1 DEF RealModelReport, Penalty
  <1>4. ValidationReport(e).kind = "none"
    BY <1>1 DEF ValidationReport, NoPenalty, Penalty
  <1>5. Reported(site, e) = ErrorReport(site, e)
    BY <1>1 DEF Reported
  <1>6. QED
    BY <1>2, <1>3, <1>4, <1>5 DEF ErrorReport

(* An empty answer is an outage to the caller that wanted text.            *)
LEMMA EmptyReport == Reported("chat", Blank).kind = "transient"
  BY DEF Reported, GatewayReport, IsKeyAttributable, IsAuthFailure, Unauthorized, Forbidden,
     HttpStatus, Empty, OtherError, Penalty

(* An error that kept its status and its text is punished for what they    *)
(* are evidence of, by each of the three ways to report it.                *)
LEMMA ErrorReported ==
    ASSUME NEW adapter \in Adapter, NEW site \in Site, NEW a \in Page, NEW e,
           ~Unreadable(adapter, site, a), ~Successful(a),
           e.kind = "HttpError", e.status = a.status, e.text = a.text,
           a.hint \in {"header", "phrase"} => e.hint # "none"
    PROVE  FitsEvidence([evidence |-> Evidence(adapter, site, a),
                         hinted   |-> Hinted(adapter, site, a),
                         penalty  |-> Reported(site, e)])
  <1> DEFINE ev == Evidence(adapter, site, a)
             p  == Reported(site, e)
  <1>1. /\ e # Ok /\ e # Blank
        /\ HttpStatus(e) = a.status /\ a.status \in Status /\ a.status # 200
    BY PageFields DEF Ok, Blank, HttpStatus, Successful
  <1>2. p = ErrorReport(site, e)
    BY <1>1 DEF Reported
  <1>3. p \in {GatewayReport(e), RealModelReport(e), ValidationReport(e)}
    BY <1>2 DEF ErrorReport
  <1>4. ev = IF Diagnoses(a) THEN "diagnosis"
             ELSE IF a.status = 401 \/ (a.status = 403 /\ "auth" \in a.text) THEN "credential"
             ELSE IF a.status = 429 THEN "limit"
             ELSE IF a.status >= 500 THEN "outage" ELSE "unclear"
    BY PageFields DEF Evidence
  <1>5. RealModelReason(e) =
           IF a.status \in {401, 403} \/ (a.status = 400 /\ "badModelId" \in a.text) THEN "none"
           ELSE IF a.status = 429 THEN "limited"
           ELSE IF "exhausted" \in a.text THEN "unavailable" ELSE "none"
    BY <1>1 DEF RealModelReason, Category, InvalidModelId
  <1>6. IsAuthFailure(e) <=>
           \/ a.status = 401
           \/ a.status = 403 /\ ~Diagnoses(a)
    BY <1>1 DEF IsAuthFailure, Unauthorized, Forbidden, WafBlock, RegionForbidden,
       ModelForbidden, Diagnoses
  <1>7. IsKeyAttributable(e) <=>
           \/ a.status = 401
           \/ a.status = 403 /\ ~Diagnoses(a) /\ "auth" \in a.text
           \/ a.status = 429 \/ a.status >= 500
    BY <1>1 DEF IsKeyAttributable, Unauthorized, Forbidden, WafBlock, RegionForbidden,
       ModelForbidden, Diagnoses
  <1>8. ModelMismatch(e) => a.status = 404 \/ (a.status = 403 /\ Diagnoses(a))
    BY <1>1 DEF ModelMismatch, Diagnoses
  <1>9. Diagnoses(a) => a.status \in {400, 403}
    BY DEF Diagnoses
  <1>10. p.kind \in Fitting[ev]
    <2>1. CASE Diagnoses(a)
      <3>1. GatewayReport(e) = NoPenalty
        BY <2>1, <1>1, <1>7, <1>9 DEF GatewayReport
      <3>2. RealModelReport(e) = NoPenalty
        <4>1. a.status = 403 \/ (a.status = 400 /\ "badModelId" \in a.text)
          BY <2>1 DEF Diagnoses
        <4>2. QED
          BY <3>1, <4>1, <1>5 DEF RealModelReport
      <3>3. ValidationReport(e) = NoPenalty
        BY <3>1 DEF ValidationReport
      <3>4. QED
        BY <2>1, <1>3, <1>4, <3>1, <3>2, <3>3 DEF NoPenalty, Penalty, Fitting
    <2>2. CASE ~Diagnoses(a) /\ (a.status = 401 \/ (a.status = 403 /\ "auth" \in a.text))
      <3>1. GatewayReport(e).kind = "disabled"
        BY <2>2, <1>1, <1>6, <1>7 DEF GatewayReport, Penalty
      <3>2. RealModelReport(e) = GatewayReport(e)
        BY <2>2, <1>5 DEF RealModelReport
      <3>3. ValidationReport(e) = GatewayReport(e)
        BY <2>2, <1>1, <1>6, <1>8 DEF ValidationReport
      <3>4. QED
        BY <2>2, <1>3, <1>4, <3>1, <3>2, <3>3 DEF Fitting
    <2>3. CASE a.status = 429
      <3>1. GatewayReport(e).kind = "limited"
        BY <2>3, <1>1, <1>7 DEF GatewayReport, Penalty
      <3>2. RealModelReport(e).kind = "limited"
        BY <2>3, <1>5 DEF RealModelReport, Penalty
      <3>3. ValidationReport(e) = GatewayReport(e)
        BY <2>3, <1>1, <1>8 DEF ValidationReport
      <3>4. QED
        BY <2>3, <1>3, <1>4, <1>9, <3>1, <3>2, <3>3 DEF Fitting
    <2>4. CASE a.status >= 500
      <3>1. GatewayReport(e).kind = "transient"
        BY <2>4, <1>1, <1>6, <1>7 DEF GatewayReport, Penalty, Status
      <3>2. RealModelReport(e).kind \in {"transient", "unavailable"}
        BY <2>4, <3>1, <1>1, <1>5 DEF RealModelReport, Penalty, Status
      <3>3. ValidationReport(e).kind = "none"
        BY <2>4, <1>1, <1>6 DEF ValidationReport, NoPenalty, Penalty, Status
      <3>4. QED
        BY <2>4, <1>1, <1>3, <1>4, <1>9, <3>1, <3>2, <3>3 DEF Fitting, Status
    <2>5. CASE ~Diagnoses(a) /\ (a.status \in {400, 404} \/ (a.status = 403 /\ "auth" \notin a.text))
      <3>1. GatewayReport(e) = NoPenalty
        BY <2>5, <1>1, <1>7 DEF GatewayReport
      <3>2. RealModelReport(e).kind \in {"none", "unavailable"}
        <4>1. RealModelReason(e) \in {"none", "unavailable"}
          BY <2>5, <1>5
        <4>2. QED
          BY <3>1, <4>1 DEF RealModelReport, NoPenalty, Penalty
      <3>3. ValidationReport(e) = NoPenalty
        BY <3>1 DEF ValidationReport
      <3>4. QED
        BY <2>5, <1>1, <1>3, <1>4, <3>1, <3>2, <3>3 DEF Fitting, NoPenalty, Penalty
    <2>6. QED
      BY <1>1, <1>9, <2>1, <2>2, <2>3, <2>4, <2>5 DEF Status
  <1>11. Hinted(adapter, site, a) /\ p.kind \in {"limited", "unavailable"}
            => p.until = "upstream"
    <2> SUFFICES ASSUME Hinted(adapter, site, a), p.kind \in {"limited", "unavailable"}
                 PROVE  p.until = "upstream"
      OBVIOUS
    <2>1. RetryAfter(e) = "upstream"
      BY DEF Hinted, RetryAfter
    <2>2. GatewayReport(e).kind \in {"limited", "unavailable"} => GatewayReport(e).until = "upstream"
      BY <2>1 DEF GatewayReport, NoPenalty, Penalty
    <2>3. RealModelReport(e).kind \in {"limited", "unavailable"} => RealModelReport(e).until = "upstream"
      BY <2>1, <2>2 DEF RealModelReport, Penalty
    <2>4. ValidationReport(e) \in {GatewayReport(e), NoPenalty}
      BY DEF ValidationReport
    <2>5. QED
      BY <1>3, <2>2, <2>3, <2>4 DEF NoPenalty, Penalty
  <1>12. QED
    BY <1>10, <1>11 DEF FitsEvidence

(* Every answer of the upstream, by every way it is read and reported.     *)
LEMMA AnswerFits ==
    ASSUME NEW adapter \in Adapter, NEW site \in Site, NEW a \in Page \cup {Refused, Late}
    PROVE  FitsEvidence([evidence |-> Evidence(adapter, site, a),
                         hinted   |-> Hinted(adapter, site, a),
                         penalty  |-> Reported(site, Heard(adapter, CallOf[site], a))])
  <1> DEFINE e == Heard(adapter, CallOf[site], a)
             Outage == /\ Evidence(adapter, site, a) = "outage"
                       /\ ~Hinted(adapter, site, a)
  <1>1. ASSUME Outage, Reported(site, e).kind \in {"transient", "unavailable", "none"}
        PROVE  FitsEvidence([evidence |-> Evidence(adapter, site, a),
                             hinted   |-> Hinted(adapter, site, a),
                             penalty  |-> Reported(site, e)])
    BY <1>1 DEF FitsEvidence, Fitting
  <1>2. CASE a \in {Refused, Late}
    <2>1. Outage
      BY <1>2, PageFields DEF Evidence, Hinted
    <2>2. e.kind \in {"Reqwest", "Timeout"}
      BY <1>2 DEF Heard, NoAnswer, OtherError
    <2>3. QED
      BY <1>1, <2>1, <2>2, TransportReport
  <1>3. CASE a \in Page
    <2>1. Interpreted(adapter, site, a, e)
      BY <1>3, PageHeard
    <2>2. CASE Unreadable(adapter, site, a)
      <3>1. Outage
        BY <2>2 DEF Evidence, Hinted
      <3>2. \/ e.kind \in {"Reqwest", "UpstreamError"}
            \/ e = Blank /\ site = "chat"
        BY <2>1, <2>2 DEF Interpreted
      <3>3. QED
        BY <1>1, <3>1, <3>2, TransportReport, EmptyReport
    <2>3. CASE ~Unreadable(adapter, site, a) /\ e = Ok
      <3>1. Reported(site, e).kind = "success"
        BY <2>3 DEF Reported, Answered, Penalty, Ok, Blank
      <3>2. Evidence(adapter, site, a) \in {"fine", "unclear"}
        <4>1. Successful(a) \/ a.status = 404
          BY <2>1, <2>3 DEF Interpreted, Ok
        <4>2. QED
          BY <1>3, <2>3, <4>1, PageFields DEF Evidence, Diagnoses, Successful
      <3>3. QED
        BY <3>1, <3>2 DEF FitsEvidence, Fitting
    <2>4. CASE ~Unreadable(adapter, site, a) /\ Successful(a)
      <3>1. e = Ok \/ (e = Blank /\ site # "chat")
        BY <2>1, <2>4 DEF Interpreted, Successful
      <3>2. Reported(site, e).kind = "success"
        BY <3>1 DEF Reported, Answered, Penalty, Ok, Blank
      <3>3. Evidence(adapter, site, a) = "fine"
        BY <1>3, <2>4, PageFields DEF Evidence
      <3>4. QED
        BY <3>2, <3>3 DEF FitsEvidence, Fitting
    <2>5. CASE ~Unreadable(adapter, site, a) /\ ~Successful(a) /\ e # Ok
      <3>1. /\ e.kind = "HttpError" /\ e.status = a.status /\ e.text = a.text
            /\ a.hint \in {"header", "phrase"} => e.hint # "none"
        BY <2>1, <2>5 DEF Interpreted
      <3>2. QED
        BY <1>3, <2>5, <3>1, ErrorReported
    <2>6. QED
      BY <2>2, <2>3, <2>4, <2>5
  <1>4. QED
    BY <1>2, <1>3

(* The verdict on a stream is what the client can tell from what it was    *)
(* sent, unless a line was split.                                          *)
LEMMA StreamFits ==
    ASSUME NEW body \in Body, NEW broken \in BOOLEAN
    PROVE  FitsEvidence([evidence |-> StreamEvidence(body, broken),
                         hinted   |-> FALSE,
                         penalty  |-> StreamReport(body, broken)])
  <1> DEFINE sent == Repaired(body)
  <1>1. PICK n \in 0..MaxChunks : body \in [1..n -> Line]
    BY DEF Body
  <1>2. DOMAIN sent = DOMAIN body
    BY DEF Repaired
  <1>3. ASSUME NEW i \in DOMAIN body
        PROVE  /\ sent[i].piece = Fragment(body[i].piece)
               /\ sent[i].call = body[i].call
    <2>1. body[i] \in Line
      BY <1>1, <1>3
    <2>2. QED
      BY <2>1 DEF Repaired, Line
  <1>4. [i \in DOMAIN sent |-> sent[i].piece] = Arguments(body)
    BY <1>2, <1>3 DEF Arguments
  <1>5. \A call \in Call : LinesOf(sent, call) = LinesOf(body, call)
    BY <1>2, <1>3 DEF LinesOf
  <1>6. (\E i \in DOMAIN sent : sent[i].piece # "blank") <=> SawOutput(body)
    BY <1>2, <1>3 DEF SawOutput, Fragment
  <1>7. Delivered(sent) <=> SawOutput(body) /\ ~IncompleteCall(body)
    BY <1>4, <1>5, <1>6 DEF Delivered, IncompleteCall
  <1>8. QED
    BY <1>7 DEF StreamEvidence, StreamReport, FitsEvidence, Fitting, Answered, Penalty

LEMMA OutcomesFit ==
    ASSUME NEW sites \in SUBSET Site
    PROVE  \A o \in Outcomes(sites) : FitsEvidence(o)
  BY AnswerFits DEF Outcomes

(* A refresh without a report punishes nobody, and a list of models is no  *)
(* evidence against a key.                                                 *)
LEMMA UnreportedFits ==
    \A o \in UnreportedOutcome : FitsEvidence(o) /\ o.evidence \in {"outage", "fine", "unclear"}
  BY DEF UnreportedOutcome, Relisted, FitsEvidence, Fitting, NoPenalty, Penalty

(* Whatever a task may hear fits.                                          *)
LEMMA OutcomeFits ==
    ASSUME NEW t \in Task, NEW o \in OutcomeOf(t)
    PROVE  FitsEvidence(o)
  <1>1. GatedSite \subseteq Site /\ DirectSite \subseteq Site
    BY DEF Site
  <1>2. QED
    BY <1>1, OutcomesFit, StreamFits, UnreportedFits
    DEF OutcomeOf, GatedOutcome, DirectOutcome, StreamOutcome

(* Whatever an upstream answers, with whatever wordings, to whichever call *)
(* of whichever adapter, the reports of src/src/router and src/src/api     *)
(* punish what the answer is evidence of.                                  *)
THEOREM PenaltiesFit == AnswerSpec => []PenaltyFitsEvidence
  <1>1. FitsEvidence(Silence)
    BY DEF FitsEvidence, Fitting, Silence, NoPenalty, Penalty
  <1>2. AnswerInit => PenaltyFitsEvidence
    BY <1>1 DEF AnswerInit, PenaltyFitsEvidence
  <1>3. PenaltyFitsEvidence /\ [AnswerNext]_answerVars => PenaltyFitsEvidence'
    <2> SUFFICES ASSUME PenaltyFitsEvidence, [AnswerNext]_answerVars
                 PROVE  PenaltyFitsEvidence'
      OBVIOUS
    <2>1. heard' \in {Silence, heard} \/ \E t \in Task : heard' \in OutcomeOf(t)
      BY DEF AnswerNext, Hear, Quietly, answerVars
    <2>2. QED
      BY <1>1, <2>1, OutcomeFits DEF PenaltyFitsEvidence
  <1>4. QED
    BY <1>2, <1>3, PTL DEF AnswerSpec

(* A provider cooldown is earned by that many consecutive failures when    *)
(* the failures are what upstreams answer (record_provider_failure).       *)
THEOREM EarnedByAnswers == AnswerSpec => CooldownIsEarned
  BY AnswersDriveGate, Earned

(* An answered request opens the provider (report_success).                *)
THEOREM AnswersOpen == AnswerSpec => SuccessOpensProvider
  BY AnswersDriveGate, SuccessOpens

(* The count of record_provider_failure moves for an outage or a broken    *)
(* stream only: disabled and limited keys never put a provider in cooldown. *)
THEOREM OutagesAlone == AnswerSpec => OnlyOutagesCount
  <1> DEFINE Counted == fails' > fails => heard'.evidence = "outage" \/ heard'.penalty.kind = "cooldown"
  <1>1. GateInv /\ [AnswerNext]_answerVars => [Counted]_answerVars
    <2> SUFFICES ASSUME GateInv, AnswerNext, fails' > fails
                 PROVE  heard'.evidence = "outage" \/ heard'.penalty.kind = "cooldown"
      OBVIOUS
    <2>1. fails \in Int
      BY ThresholdType DEF GateInv, TypeOK
    <2>2. ASSUME NEW t \in Task, Gate(t) \/ LockedStore(t) \/ Leave(t) \/ Tick \/ Success(t) \/ Spare(t)
          PROVE  fails' \in {0, fails}
      BY <2>2 DEF Gate, Select, ClearExpired, ClearFails, SelectDirectly, LockedStore, EnterCooldown,
         ClearCooldown, Leave, Tick, Success, Spare
    <2>3. fails >= 0
      BY ThresholdType DEF GateInv, TypeOK
    <2>4. ~Tick
      BY <2>1, <2>3 DEF Tick
    <2>5. PICK t \in Task : Hear(t)
      BY <2>1, <2>2, <2>3, <2>4 DEF AnswerNext, Quietly
    <2>6. PICK o \in OutcomeOf(t) :
             /\ heard' = o
             /\ \/ o.penalty.kind = "success" /\ Success(t)
                \/ o.penalty.kind \in {"transient", "cooldown"} /\ Failure(t)
                \/ o.penalty.kind \notin {"success", "transient", "cooldown"} /\ Spare(t)
      BY <2>5 DEF Hear
    <2>7. o.penalty.kind \in {"transient", "cooldown"}
      BY <2>1, <2>2, <2>3, <2>6
    <2>8. o.penalty.kind \in Fitting[o.evidence]
      BY OutcomeFits DEF FitsEvidence
    <2>9. o.evidence \in {"outage", "fine", "diagnosis", "credential", "limit", "unclear"}
      BY UnreportedFits
      DEF OutcomeOf, GatedOutcome, DirectOutcome, Outcomes, StreamOutcome, Evidence, StreamEvidence
    <2>10. QED
      BY <2>6, <2>7, <2>8, <2>9 DEF Fitting
  <1>2. QED
    BY AnswersKeepGateInv, <1>1, PTL DEF AnswerSpec, OnlyOutagesCount

=============================================================================
