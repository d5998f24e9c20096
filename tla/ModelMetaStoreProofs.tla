------------------------ MODULE ModelMetaStoreProofs ------------------------
(***************************************************************************)
(* What is proved of ModelMetaStore, for every number of models,           *)
(* deployments, callers, requests and faults.  StoreInv is the inductive   *)
(* invariant: the types; that each row of the tables which the migration   *)
(* leaves to themselves splits its tokens, and says so in a way that keeps *)
(* the migration from touching it; that each deployment follows its        *)
(* attempts; that the totals of the three tables are nested; and that the  *)
(* errors counted and those categorised differ by what is under way and    *)
(* what faults lost.                                                       *)
(***************************************************************************)
EXTENDS ModelMetaStore, FiniteInduction

-----------------------------------------------------------------------------
(* Rows of usage *)

(* A row that no pass of the migration changes: its tokens are split, and  *)
(* the requests counted as reported agree with where its tokens are.       *)
RowSplit(u) ==
    /\ u.tokens = u.reported + u.estimated
    /\ u.reportedRequests <= u.requests
    /\ u.estimated > 0 => u.reportedRequests < u.requests
    /\ u.reported > 0 => u.reportedRequests > 0

RowsSplit ==
    /\ RowSplit(lifetime)
    /\ \A r \in Model \X Day : RowSplit(hourly[r])

(* A caller with something to write knows what it is about, and with a     *)
(* limit to learn, which.                                                  *)
Definite(k) ==
    /\ k.todo # <<>> => k.at \in Deployment
    /\ \A i \in 1..Len(k.todo) :
          k.todo[i] = "limit" => k.stated \in LimitValue /\ k.type \in LimitType

CallsDefinite == \A c \in Caller : Definite(call[c])

(* A row of zeros is split. *)
LEMMA UnusedRow == Unused \in Usage /\ RowSplit(Unused)
  BY DEF Unused, Usage, RowSplit

(* So is the row one outcome makes. *)
LEMMA UsageOfRow ==
    ASSUME NEW k \in Outcome
    PROVE  UsageOf(k) \in Usage /\ RowSplit(UsageOf(k))
  <1>1. k.tokens \in Nat /\ k.ok \in BOOLEAN /\ k.reported \in BOOLEAN
    BY DEF Outcome
  <1>2. QED
    BY <1>1 DEF UsageOf, Usage, RowSplit

(* Two split rows make a split row. *)
LEMMA PlusRow ==
    ASSUME NEW u \in Usage, NEW v \in Usage
    PROVE  /\ Plus(u, v) \in Usage
           /\ RowSplit(u) /\ RowSplit(v) => RowSplit(Plus(u, v))
  BY DEF Plus, Usage, RowSplit

(* The migration keeps types, and rows that are split.                     *)
LEMMA BackFillRow ==
    ASSUME NEW u \in Usage
    PROVE  /\ BackFill(u) \in Usage
           /\ RowSplit(u) => BackFill(u) = u
  <1>1. CopyReported(u) \in Usage
    BY DEF CopyReported, Usage
  <1>2. BackFill(u) \in Usage
    BY <1>1 DEF BackFill, CopyEstimated, Usage
  <1>3. ASSUME RowSplit(u) PROVE BackFill(u) = u
    <2>1. CopyReported(u) = u
      BY <1>3 DEF CopyReported, RowSplit, Usage
    <2>2. CopyEstimated(u) = u
      BY <1>3 DEF CopyEstimated, RowSplit, Usage
    <2>3. QED
      BY <2>1, <2>2 DEF BackFill
  <1>4. QED
    BY <1>2, <1>3

(* Counting all requests as reported keeps the row's type. *)
LEMMA ClaimedRow == \A u \in Usage : CountAsReported(u) \in Usage
  BY DEF CountAsReported, Usage

-----------------------------------------------------------------------------
(* Outcomes *)

Method == {"error", "limit", "usage", "attempt", "task", "capability"}

(* A caller that has nothing to write has an outcome. *)
LEMMA IdleOutcome == Idle \in Outcome
  BY DEF Idle, Outcome, Category

(* A caller that has written, or whose method was cut short, goes on with  *)
(* the rest.                                                               *)
LEMMA WrittenStep ==
    ASSUME TypeOK, CallsDefinite, NEW c \in Caller, call[c].todo # <<>>, Written(c)
    PROVE  /\ call' \in [Caller -> Outcome]
           /\ CallsDefinite'
  <1>1. call[c] \in Outcome
    BY DEF TypeOK
  <1>2. Tail(call[c].todo) \in Seq(Method)
    BY <1>1 DEF Outcome, Method
  <1>3. [call[c] EXCEPT !.todo = Tail(call[c].todo)] \in Outcome
    BY <1>1, <1>2 DEF Outcome, Method
  <1>4. Rest(call[c]) \in Outcome
    BY <1>3, IdleOutcome DEF Rest
  <1>5. Definite(Rest(call[c]))
    <2>1. CASE Len(call[c].todo) = 1
      BY <2>1 DEF Rest, Definite, Idle
    <2>2. CASE Len(call[c].todo) # 1
      <3>1. /\ Rest(call[c]).todo = Tail(call[c].todo) /\ Rest(call[c]).at = call[c].at
            /\ Rest(call[c]).stated = call[c].stated /\ Rest(call[c]).type = call[c].type
        BY <1>1, <2>2 DEF Rest, Outcome
      <3>2. call[c].todo \in Seq(Method) /\ Definite(call[c])
        BY <1>1 DEF Outcome, Method, CallsDefinite
      <3>3. \A i \in 1..Len(Tail(call[c].todo)) :
               /\ i + 1 \in 1..Len(call[c].todo)
               /\ Tail(call[c].todo)[i] = call[c].todo[i + 1]
        BY <3>2
      <3>4. QED
        BY <3>1, <3>2, <3>3 DEF Definite
    <2>3. QED
      BY <2>1, <2>2
  <1>6. call' = [call EXCEPT ![c] = Rest(call[c])]
    BY DEF Written
  <1>7. CallsDefinite'
    BY <1>5, <1>6 DEF TypeOK, CallsDefinite
  <1>8. QED
    BY <1>4, <1>6, <1>7 DEF TypeOK

(* What a method writes about.                                             *)
LEMMA Subject ==
    ASSUME TypeOK, CallsDefinite, NEW c \in Caller, call[c].todo # <<>>
    PROVE  /\ call[c] \in Outcome /\ call[c].at \in Deployment
           /\ About(c) \in Model
  BY StoreAssumption DEF TypeOK, CallsDefinite, Definite, About

(* A caller that begins to write knows what it is about. *)
LEMMA BeginStep ==
    ASSUME TypeOK, CallsDefinite, NEW c \in Caller, NEW d \in Deployment, NEW k \in Outcome,
           \A i \in 1..Len(k.todo) :
              k.todo[i] = "limit" => k.stated \in LimitValue /\ k.type \in LimitType,
           Begin(c, d, k)
    PROVE  TypeOK' /\ CallsDefinite'
  <1> DEFINE placed == [k EXCEPT !.at = d]
  <1>1. placed \in Outcome /\ Definite(placed)
    BY DEF Outcome, Definite
  <1>2. call' = [call EXCEPT ![c] = placed]
    BY DEF Begin
  <1> HIDE DEF placed
  <1>3. call' \in [Caller -> Outcome] /\ CallsDefinite'
    BY <1>1, <1>2 DEF TypeOK, CallsDefinite
  <1>4. begun' \in Nat
    BY DEF Begin, TypeOK
  <1>5. QED
    BY <1>3, <1>4 DEF Begin, TypeOK, usage, limits, tries, scores, syncing

(* Two parts of what there is to write.                                    *)
LEMMA Parts ==
    ASSUME NEW s \in Seq(Method), NEW traced \in BOOLEAN,
           NEW todo, todo = s \o IF traced THEN <<"attempt">> ELSE <<>>
    PROVE  /\ todo \in Seq(Method)
           /\ \A i \in 1..Len(todo) :
                 todo[i] = "limit" => \E j \in 1..Len(s) : s[j] = "limit"
  <1>1. CASE traced
    <2>1. <<"attempt">> \in Seq(Method)
      BY DEF Method
    <2>2. todo = s \o <<"attempt">>
      BY <1>1
    <2>3. QED
      BY <2>1, <2>2
  <1>2. CASE ~traced
    BY <1>2
  <1>3. QED
    BY <1>1, <1>2

(* The outcomes that requests have are outcomes.                           *)
LEMMA OutcomesBegin ==
    ASSUME TypeOK, CallsDefinite, NEW c \in Caller, NEW d \in Deployment,
           Answered(c, d) \/ Failed(c, d) \/ RescueFailed(c, d) \/ Adapted(c, d)
    PROVE  TypeOK' /\ CallsDefinite'
  <1>1. CASE Answered(c, d)
    <2>1. PICK reported \in BOOLEAN, traced \in BOOLEAN, n \in 0..MaxTokens :
             Begin(c, d, [Idle EXCEPT !.todo = <<"usage">> \o IF traced THEN <<"attempt">> ELSE <<>>,
                                      !.tokens = n, !.reported = reported])
      BY <1>1 DEF Answered
    <2> DEFINE todo == <<"usage">> \o IF traced THEN <<"attempt">> ELSE <<>>
               k == [Idle EXCEPT !.todo = todo, !.tokens = n, !.reported = reported]
    <2>2. <<"usage">> \in Seq(Method) /\ \A j \in 1..Len(<<"usage">>) : <<"usage">>[j] # "limit"
      BY DEF Method
    <2>3. todo \in Seq(Method) /\ \A i \in 1..Len(todo) : todo[i] # "limit"
      BY <2>2, Parts
    <2> HIDE DEF todo
    <2>4. k \in Outcome /\ k.todo = todo
      <3>1. n \in Nat
        BY StoreAssumption
      <3>2. QED
        BY <2>3, <3>1, IdleOutcome DEF Outcome, Method
    <2>5. QED
      BY <2>1, <2>3, <2>4, BeginStep DEF todo
  <1>2. CASE Failed(c, d)
    <2>1. PICK traced \in BOOLEAN, cool \in BOOLEAN, g \in Category,
               v \in {n \in LimitValue : n > 0} \cup {Null}, t \in LimitType :
             Begin(c, d, [Idle EXCEPT
               !.ok = FALSE, !.category = g, !.cooldown = cool, !.stated = v, !.type = t,
               !.todo = (IF v = Null THEN <<"error", "usage">> ELSE <<"error", "limit", "usage">>)
                        \o IF traced THEN <<"attempt">> ELSE <<>>])
      BY <1>2 DEF Failed
    <2> DEFINE first == IF v = Null THEN <<"error", "usage">> ELSE <<"error", "limit", "usage">>
               todo  == first \o IF traced THEN <<"attempt">> ELSE <<>>
               k == [Idle EXCEPT !.ok = FALSE, !.category = g, !.cooldown = cool,
                                 !.stated = v, !.type = t, !.todo = todo]
    <2>2. first \in Seq(Method) /\ \A j \in 1..Len(first) : first[j] = "limit" => v \in LimitValue
      <3>1. CASE v = Null
        <4>1. first = <<"error", "usage">>
          BY <3>1
        <4>2. <<"error", "usage">> \in Seq(Method)
          BY DEF Method
        <4>3. \A j \in 1..Len(<<"error", "usage">>) : <<"error", "usage">>[j] # "limit"
          OBVIOUS
        <4>4. QED
          BY <4>1, <4>2, <4>3
      <3>2. CASE v # Null
        <4>1. first = <<"error", "limit", "usage">>
          BY <3>2
        <4>2. <<"error", "limit", "usage">> \in Seq(Method)
          BY DEF Method
        <4>3. QED
          BY <3>2, <4>1, <4>2
      <3>3. QED
        BY <3>1, <3>2
    <2> HIDE DEF first
    <2>3. todo \in Seq(Method) /\ \A i \in 1..Len(todo) : todo[i] = "limit" => v \in LimitValue
      BY <2>2, Parts
    <2> HIDE DEF todo
    <2>4. k \in Outcome /\ k.todo = todo /\ k.stated = v /\ k.type = t
      BY <2>3, IdleOutcome, StoreAssumption DEF Outcome, Method
    <2>5. QED
      BY <2>1, <2>3, <2>4, BeginStep DEF todo, first
  <1>3. CASE Adapted(c, d)
    <2>1. PICK a \in Agent \cup {NoAgent} :
             Begin(c, d, [Idle EXCEPT !.todo = <<"task", "capability">>, !.agent = a])
      BY <1>3 DEF Adapted
    <2> DEFINE todo == <<"task", "capability">>
               k == [Idle EXCEPT !.todo = todo, !.agent = a]
    <2>2. todo \in Seq(Method) /\ \A i \in 1..Len(todo) : todo[i] # "limit"
      BY DEF Method
    <2> HIDE DEF todo
    <2>3. k \in Outcome /\ k.todo = todo
      BY <2>2, IdleOutcome DEF Outcome, Method
    <2>4. QED
      BY <2>1, <2>2, <2>3, BeginStep DEF todo
  <1>4. CASE RescueFailed(c, d)
    <2> DEFINE todo == <<"attempt">>
               k == [Idle EXCEPT !.ok = FALSE, !.cooldown = TRUE, !.todo = todo]
    <2>1. Begin(c, d, k)
      BY <1>4 DEF RescueFailed
    <2>2. todo \in Seq(Method) /\ \A i \in 1..Len(todo) : todo[i] # "limit"
      BY DEF Method
    <2> HIDE DEF todo
    <2>3. k \in Outcome /\ k.todo = todo
      BY <2>2, IdleOutcome DEF Outcome, Method
    <2> HIDE DEF k
    <2>4. QED
      BY <2>1, <2>2, <2>3, BeginStep
  <1>5. QED
    BY <1>1, <1>2, <1>3, <1>4

-----------------------------------------------------------------------------
(* Types *)

(* The writes of the usage tables keep their types. *)
LEMMA UsageTypes ==
    ASSUME TypeOK, CallsDefinite, NEW c \in Caller, call[c].todo # <<>>
    PROVE  /\ CountDaily(c) => daily' \in [Model \X Day -> Usage]
           /\ ClockMoves /\ CountHourly(c) => hourly' \in [Model \X Day -> Usage]
           /\ CountLifetime(c) => lifetime' \in Usage
  <1>1. UsageOf(call[c]) \in Usage /\ About(c) \in Model
    BY Subject, UsageOfRow
  <1>2. \A u \in Usage : Plus(u, UsageOf(call[c])) \in Usage
    BY <1>1, PlusRow
  <1>3. CountDaily(c) => daily' \in [Model \X Day -> Usage]
    BY <1>1, <1>2 DEF CountDaily, TypeOK
  <1>4. ClockMoves /\ CountHourly(c) => hourly' \in [Model \X Day -> Usage]
    BY <1>1, <1>2 DEF ClockMoves, CountHourly, TypeOK
  <1>5. CountLifetime(c) => lifetime' \in Usage
    BY <1>2 DEF CountLifetime, TypeOK
  <1>6. QED
    BY <1>3, <1>4, <1>5

DeploymentRow == [ok : Nat, bad : Nat, streak : Nat, cooling : BOOLEAN]

(* An attempt keeps the type of the deployment's row. *)
LEMMA AttemptRow ==
    ASSUME NEW r \in DeploymentRow, NEW k, k.ok \in BOOLEAN, k.cooldown \in BOOLEAN
    PROVE  LET after == AfterAttempt(r, k)
           IN  /\ after \in DeploymentRow
               /\ after.ok + after.bad = r.ok + r.bad + 1
               /\ after.streak = IF k.ok THEN 0 ELSE r.streak + 1
               /\ after.cooling => after.streak > 0
  <1> DEFINE cools  == r.cooling \/ k.cooldown
             ok     == r.ok + 1
             bad    == r.bad + 1
             streak == r.streak + 1
  <1>1. cools \in BOOLEAN /\ ok \in Nat /\ bad \in Nat /\ streak \in Nat
    BY DEF DeploymentRow
  <1>2. AfterAttempt(r, k) = IF k.ok THEN [r EXCEPT !.ok = ok, !.streak = 0, !.cooling = FALSE]
                             ELSE [r EXCEPT !.bad = bad, !.streak = streak, !.cooling = cools]
    BY DEF AfterAttempt
  <1> HIDE DEF cools, ok, bad, streak
  <1>3. [r EXCEPT !.ok = ok, !.streak = 0, !.cooling = FALSE] \in DeploymentRow
    BY <1>1 DEF DeploymentRow
  <1>4. [r EXCEPT !.bad = bad, !.streak = streak, !.cooling = cools] \in DeploymentRow
    BY <1>1 DEF DeploymentRow
  <1>5. CASE k.ok
    <2>1. AfterAttempt(r, k) = [r EXCEPT !.ok = ok, !.streak = 0, !.cooling = FALSE]
      BY <1>2, <1>5
    <2>2. /\ AfterAttempt(r, k).ok = ok /\ AfterAttempt(r, k).bad = r.bad
          /\ AfterAttempt(r, k).streak = 0 /\ AfterAttempt(r, k).cooling = FALSE
      BY <2>1 DEF DeploymentRow
    <2>3. QED
      BY <1>3, <1>5, <2>1, <2>2 DEF ok, DeploymentRow
  <1>6. CASE ~k.ok
    <2>1. AfterAttempt(r, k) = [r EXCEPT !.bad = bad, !.streak = streak, !.cooling = cools]
      BY <1>2, <1>6
    <2>2. /\ AfterAttempt(r, k).ok = r.ok /\ AfterAttempt(r, k).bad = bad
          /\ AfterAttempt(r, k).streak = streak
      BY <2>1 DEF DeploymentRow
    <2>3. QED
      BY <1>4, <1>6, <2>1, <2>2 DEF bad, streak, DeploymentRow
  <1>7. QED
    BY <1>5, <1>6

(* A method that writes keeps the types. *)
LEMMA RecordTypes ==
    ASSUME TypeOK, CallsDefinite, NEW c \in Caller, Record(c)
    PROVE  TypeOK' /\ CallsDefinite'
  <1>1. call[c].todo # <<>> /\ Written(c)
    BY DEF Record, RecordModelError, RecordUsage, LearnRateLimit, RecordRequestAttempt,
       RecordTaskUsage, RecordCapability, Recording
  <1>2. call' \in [Caller -> Outcome] /\ CallsDefinite'
    BY <1>1, WrittenStep
  <1>3. /\ call[c] \in Outcome /\ call[c].at \in Deployment
        /\ About(c) \in Model
    BY <1>1, Subject
  <1> USE DEF TypeOK, usage, limits, tries, scores, syncing
  <1>4. CASE RecordModelError(c)
    <2>1. <<About(c), call[c].category>> \in Model \X Category
      BY <1>3 DEF Outcome
    <2>2. errors' \in [Model \X Category -> Nat]
      BY <1>4, <2>1 DEF RecordModelError
    <2>3. QED
      BY <1>2, <1>4, <2>2 DEF RecordModelError
  <1>5. CASE RecordUsage(c)
    <2>1. today' \in Day
      BY <1>5 DEF RecordUsage, ClockMoves
    <2>2. /\ daily' \in [Model \X Day -> Usage] /\ hourly' \in [Model \X Day -> Usage]
          /\ lifetime' \in Usage
      BY <1>1, <1>5, UsageTypes DEF RecordUsage
    <2>3. QED
      BY <1>2, <1>5, <2>1, <2>2 DEF RecordUsage
  <1>6. CASE LearnRateLimit(c)
    <2>1. call[c].stated \in Nat /\ call[c].type \in LimitType
      <3>1. 1 \in 1..Len(call[c].todo) /\ call[c].todo[1] = "limit"
        BY <1>3, <1>6 DEF LearnRateLimit, Recording, Outcome
      <3>2. Definite(call[c])
        BY DEF CallsDefinite
      <3>3. QED
        BY <3>1, <3>2, StoreAssumption DEF Definite
    <2>2. QED
      BY <1>2, <1>3, <1>6, <2>1 DEF LearnRateLimit, Observe
  <1>7. CASE RecordRequestAttempt(c)
    <2>1. attempts' \in [Deployment -> Seq(BOOLEAN)]
      BY <1>3, <1>7 DEF RecordRequestAttempt, Trace, Outcome
    <2>2. deployment' \in [Deployment -> [ok : Nat, bad : Nat, streak : Nat, cooling : BOOLEAN]]
      <3>1. call[c].ok \in BOOLEAN /\ call[c].cooldown \in BOOLEAN
        BY <1>3 DEF Outcome
      <3>2. deployment[call[c].at] \in DeploymentRow
        BY <1>3 DEF DeploymentRow
      <3>4. AfterAttempt(deployment[call[c].at], call[c]) \in DeploymentRow
        BY <3>1, <3>2, AttemptRow
      <3>3. QED
        BY <1>3, <1>7, <3>4 DEF RecordRequestAttempt, DeploymentRow
    <2>3. QED
      BY <1>2, <1>7, <2>1, <2>2 DEF RecordRequestAttempt
  <1>8. CASE RecordTaskUsage(c)
    <2>1. tasks' \in [Model \X (Agent \cup {NoAgent}) -> Seq(Nat)]
      BY <1>3, <1>8 DEF RecordTaskUsage, Outcome
    <2>2. QED
      BY <1>2, <1>8, <2>1 DEF RecordTaskUsage
  <1>9. CASE RecordCapability(c)
    BY <1>2, <1>3, <1>9 DEF RecordCapability
  <1>10. QED
    BY <1>4, <1>5, <1>6, <1>7, <1>8, <1>9 DEF Record

(* So does one that is cut short, *)
LEMMA CutShortTypes ==
    ASSUME TypeOK, CallsDefinite, NEW c \in Caller, CutShort(c)
    PROVE  TypeOK' /\ CallsDefinite'
  <1>1. call[c].todo # <<>> /\ Written(c) /\ Fault
    BY DEF CutShort, NothingWritten, UsageCutShort, LimitCutShort, AttemptCutShort, Recording
  <1>2. call' \in [Caller -> Outcome] /\ CallsDefinite' /\ lost' \in Nat
    BY <1>1, WrittenStep DEF Fault, TypeOK
  <1>3. call[c] \in Outcome /\ call[c].at \in Deployment /\ About(c) \in Model
    BY <1>1, Subject
  <1> USE DEF TypeOK, usage, limits, tries, scores, syncing
  <1>4. CASE NothingWritten(c)
    BY <1>2, <1>4 DEF NothingWritten
  <1>5. CASE UsageCutShort(c)
    <2>1. today' \in Day /\ daily' \in [Model \X Day -> Usage]
      BY <1>1, <1>5, UsageTypes DEF UsageCutShort, ClockMoves
    <2>2. hourly' \in [Model \X Day -> Usage]
      BY <1>1, <1>5, UsageTypes DEF UsageCutShort
    <2>3. QED
      BY <1>2, <1>5, <2>1, <2>2 DEF UsageCutShort
  <1>6. CASE LimitCutShort(c)
    <2>1. call[c].stated \in Nat /\ call[c].type \in LimitType
      <3>1. 1 \in 1..Len(call[c].todo) /\ call[c].todo[1] = "limit"
        BY <1>3, <1>6 DEF LimitCutShort, Recording, Outcome
      <3>2. Definite(call[c])
        BY DEF CallsDefinite
      <3>3. QED
        BY <3>1, <3>2, StoreAssumption DEF Definite
    <2>2. QED
      BY <1>2, <1>3, <1>6, <2>1 DEF LimitCutShort, Observe
  <1>7. CASE AttemptCutShort(c)
    <2>1. attempts' \in [Deployment -> Seq(BOOLEAN)]
      BY <1>3, <1>7 DEF AttemptCutShort, Trace, Outcome
    <2>2. QED
      BY <1>2, <1>7, <2>1 DEF AttemptCutShort
  <1>8. QED
    BY <1>4, <1>5, <1>6, <1>7 DEF CutShort

(* the synchronisation of the metadata, *)
LEMMA SynchroniseTypes ==
    ASSUME TypeOK, CallsDefinite, Synchronise
    PROVE  TypeOK' /\ CallsDefinite'
  <1> DEFINE Syncing == [at : {"idle", "upsert", "learn"}, models : SUBSET Model,
                         left : SUBSET Model, updated : Nat,
                         stated : [Model -> LimitValue \cup {Null}]]
             Counts  == [error : BOOLEAN, found : Nat, updated : Nat]
             Limits  == [Model -> [LimitType -> Nat \cup {Null}]]
  <1>1. SyncStep /\ call' = call
    BY DEF Synchronise, SyncFails, SyncFetched, RecordSync, SyncDone, SyncUpsert, LearnUpsert,
       UpsertFails, SyncStep
  <1>2. CallsDefinite' /\ call' \in [Caller -> Outcome]
    BY <1>1 DEF CallsDefinite, TypeOK
  <1>3. sync \in Syncing /\ status \in Counts /\ limit \in Limits /\ known \subseteq Model
        /\ up \in BOOLEAN /\ lost \in Nat
    BY DEF TypeOK
  <1>4. ASSUME sync' \in Syncing, status' \in Counts, limit' \in Limits, known' \subseteq Model,
               lost' \in Nat, up' = up
        PROVE  TypeOK'
    BY <1>1, <1>2, <1>4 DEF TypeOK, SyncStep, usage, tries, scores
  <1>5. ASSUME NEW m \in Model, NEW rpm \in Nat \cup {Null}, NEW rpd \in Nat \cup {Null},
               UpsertLimits(m, rpm, rpd)
        PROVE  limit' \in Limits /\ known' \subseteq Model
    BY <1>3, <1>5 DEF UpsertLimits, Coalesce
  <1>6. ASSUME NEW m \in Model
        PROVE  /\ Took(m) \in Syncing /\ [Took(m) EXCEPT !.updated = @ + 1] \in Syncing
               /\ sync.stated[m] \in Nat \cup {Null}
    <2>1. Took(m) \in Syncing
      BY <1>3 DEF Took
    <2>2. sync.stated[m] \in Nat \cup {Null}
      BY <1>3, StoreAssumption
    <2>3. QED
      BY <2>1, <2>2
  <1>7. Fault => lost' \in Nat
    BY <1>3 DEF Fault
  <1>0. up' = up
    BY <1>1 DEF SyncStep
  <1>8. CASE SyncFails
    <2>1. status' \in Counts
      BY <1>3, <1>8 DEF SyncFails
    <2>2. sync' = sync /\ limit' = limit /\ known' = known /\ lost' = lost
      BY <1>8 DEF SyncFails
    <2> HIDE DEF Syncing, Counts, Limits
    <2>3. QED
      BY <1>0, <1>2, <1>3, <1>4, <2>1, <2>2
  <1>9. CASE SyncFetched
    <2>1. sync' \in Syncing
      BY <1>9 DEF SyncFetched
    <2>2. status' = status /\ limit' = limit /\ known' = known /\ lost' = lost
      BY <1>9 DEF SyncFetched
    <2> HIDE DEF Syncing, Counts, Limits
    <2>3. QED
      BY <1>0, <1>2, <1>3, <1>4, <2>1, <2>2
  <1>10. ASSUME NEW m \in Model, SyncUpsert(m) PROVE TypeOK'
    BY <1>1, <1>3, <1>4, <1>5, <1>6, <1>10 DEF SyncUpsert, SyncStep
  <1>11. ASSUME NEW m \in Model, LearnUpsert(m) PROVE TypeOK'
    BY <1>1, <1>3, <1>4, <1>5, <1>6, <1>11, StoreAssumption DEF LearnUpsert, SyncStep
  <1>12. ASSUME NEW m \in Model, UpsertFails(m) PROVE TypeOK'
    BY <1>1, <1>3, <1>4, <1>6, <1>7, <1>12 DEF UpsertFails, SyncStep
  <1>13. CASE RecordSync
    <2>1. Cardinality(sync.models) \in Nat
      <3>1. IsFiniteSet(sync.models)
        BY <1>3, StoreAssumption, FS_Subset
      <3>2. QED
        BY <3>1, FS_CardinalityType
    <2>2. status' \in Counts /\ lost' \in Nat
      <3>1. CASE status' = [error |-> FALSE, found |-> Cardinality(sync.models),
                            updated |-> sync.updated] /\ lost' = lost
        BY <1>3, <2>1, <3>1
      <3>2. CASE Fault /\ status' = status
        BY <1>3, <1>7, <3>2
      <3>3. QED
        BY <1>13, <3>1, <3>2 DEF RecordSync
    <2>3. sync' \in Syncing
      <3>1. sync' = [sync EXCEPT !.at = "learn", !.left = sync.models]
        BY <1>13 DEF RecordSync
      <3>2. QED
        BY <1>3, <3>1
    <2>4. limit' = limit /\ known' = known
      BY <1>13 DEF RecordSync
    <2> HIDE DEF Syncing, Counts, Limits
    <2>5. QED
      BY <1>0, <1>2, <1>3, <1>4, <2>2, <2>3, <2>4
  <1>14. CASE SyncDone
    <2>1. sync' \in Syncing
      BY <1>14 DEF SyncDone, NotSyncing
    <2>2. status' = status /\ limit' = limit /\ known' = known /\ lost' = lost
      BY <1>14 DEF SyncDone
    <2> HIDE DEF Syncing, Counts, Limits
    <2>3. QED
      BY <1>0, <1>2, <1>3, <1>4, <2>1, <2>2
  <1>15. QED
    BY <1>2, <1>8, <1>9, <1>10, <1>11, <1>12, <1>13, <1>14 DEF Synchronise

(* and a restart. *)
LEMMA RestartTypes ==
    ASSUME TypeOK, CallsDefinite, Crash \/ Open \/ OpenFails
    PROVE  TypeOK' /\ CallsDefinite'
  <1> USE DEF TypeOK, usage, limits, tries, scores, syncing
  <1>1. Claimed \in [Model \X Day -> Usage]
    BY ClaimedRow DEF Claimed
  <1>2. ASSUME NEW table \in [Model \X Day -> Usage]
        PROVE  Migrated(table) \in [Model \X Day -> Usage]
    BY BackFillRow DEF Migrated
  <1>3. CASE Crash
    <2>1. Unfinished \in Nat
      <3>1. IsFiniteSet({c \in Caller : call[c] # Idle})
        BY StoreAssumption, FS_Subset
      <3>2. QED
        BY <3>1, FS_CardinalityType DEF Unfinished
    <2>2. call' \in [Caller -> Outcome] /\ CallsDefinite'
      BY <1>3, IdleOutcome DEF Crash, CallsDefinite, Definite, Idle
    <2>3. sync' \in [at : {"idle", "upsert", "learn"}, models : SUBSET Model,
                     left : SUBSET Model, updated : Nat,
                     stated : [Model -> LimitValue \cup {Null}]]
      BY <1>3 DEF Crash, NotSyncing
    <2>4. lost' \in Nat
      BY <1>3, <2>1 DEF Crash
    <2>5. QED
      BY <1>3, <2>2, <2>3, <2>4 DEF Crash
  <1>4. CASE Open
    <2>1. lifetime' \in Usage
      BY <1>4, BackFillRow DEF Open
    <2>2. daily' \in [Model \X Day -> Usage] /\ hourly' \in [Model \X Day -> Usage]
      BY <1>1, <1>2, <1>4 DEF Open
    <2>3. CallsDefinite'
      BY <1>4 DEF Open, CallsDefinite
    <2>4. QED
      BY <1>4, <2>1, <2>2, <2>3 DEF Open
  <1>5. CASE OpenFails
    <2>1. daily' \in [Model \X Day -> Usage]
      BY <1>1, <1>2, <1>5 DEF OpenFails
    <2>4. lost' \in Nat
      BY <1>5 DEF OpenFails, Fault
    <2>2. CallsDefinite'
      BY <1>5 DEF OpenFails, CallsDefinite
    <2>3. QED
      BY <1>5, <2>1, <2>2, <2>4 DEF OpenFails
  <1>6. QED
    BY <1>3, <1>4, <1>5

(* Every step keeps the types. *)
LEMMA TypesStep ==
    ASSUME TypeOK, CallsDefinite, [Next]_vars
    PROVE  TypeOK' /\ CallsDefinite'
  <1>1. CASE Midnight
    <2>1. today' \in Day
      BY <1>1, StoreAssumption DEF Midnight, TypeOK, Day
    <2>2. QED
      BY <1>1, <2>1 DEF Midnight, TypeOK, CallsDefinite, usage, limits, tries, scores, syncing
  <1>2. CASE UNCHANGED vars
    BY <1>2 DEF vars, TypeOK, CallsDefinite, usage, limits, tries, scores, syncing
  <1>3. QED
    BY <1>1, <1>2, RecordTypes, CutShortTypes, OutcomesBegin, SynchroniseTypes, RestartTypes
    DEF Next

-----------------------------------------------------------------------------
(* Tokens *)

(* A request adds to a row what is split, and the migration finds nothing  *)
(* to do.                                                                  *)
LEMMA SplitStep ==
    ASSUME TypeOK, CallsDefinite, RowsSplit, [Next]_vars
    PROVE  RowsSplit'
  <1>1. ASSUME NEW c \in Caller, call[c].todo # <<>>
        PROVE  /\ CountLifetime(c) => RowSplit(lifetime')
               /\ ClockMoves /\ CountHourly(c) => \A r \in Model \X Day : RowSplit(hourly'[r])
    <2>1. UsageOf(call[c]) \in Usage /\ RowSplit(UsageOf(call[c])) /\ About(c) \in Model
      BY <1>1, Subject, UsageOfRow
    <2>2. \A u \in Usage : RowSplit(u) => RowSplit(Plus(u, UsageOf(call[c])))
      BY <2>1, PlusRow
    <2>3. ASSUME CountLifetime(c) PROVE RowSplit(lifetime')
      BY <2>2, <2>3 DEF CountLifetime, TypeOK, RowsSplit
    <2>4. ASSUME CountHourly(c), NEW r \in Model \X Day PROVE RowSplit(hourly'[r])
      <3>1. PICK h : hourly' = [hourly EXCEPT ![<<About(c), h>>] = Plus(@, UsageOf(call[c]))]
        BY <2>4 DEF CountHourly
      <3>2. hourly'[r] = hourly[r] \/ hourly'[r] = Plus(hourly[r], UsageOf(call[c]))
        BY <3>1 DEF TypeOK
      <3>3. hourly[r] \in Usage /\ RowSplit(hourly[r])
        BY DEF TypeOK, RowsSplit
      <3>4. QED
        BY <2>2, <3>2, <3>3
    <2>5. QED
      BY <2>3, <2>4
  <1>2. CASE UNCHANGED <<hourly, lifetime>>
    BY <1>2 DEF RowsSplit
  <1>3. ASSUME NEW c \in Caller, RecordUsage(c) PROVE RowsSplit'
    BY <1>1, <1>3 DEF RecordUsage, Recording, RowsSplit
  <1>4. ASSUME NEW c \in Caller, UsageCutShort(c) PROVE RowsSplit'
    <2>1. lifetime' = lifetime /\ call[c].todo # <<>> /\ ClockMoves
      BY <1>4 DEF UsageCutShort, Recording
    <2>2. CountHourly(c) \/ hourly' = hourly
      BY <1>4 DEF UsageCutShort
    <2>3. QED
      BY <1>1, <2>1, <2>2 DEF RowsSplit
  <1>5. CASE Open
    <2>1. lifetime' = lifetime
      BY <1>5, BackFillRow DEF Open, TypeOK, RowsSplit
    <2>2. ASSUME NEW r \in Model \X Day PROVE hourly'[r] = hourly[r]
      <3>1. hourly[r] \in Usage /\ RowSplit(hourly[r])
        BY DEF TypeOK, RowsSplit
      <3>2. hourly'[r] = BackFill(hourly[r])
        BY <1>5 DEF Open, Migrated, TypeOK
      <3>3. QED
        BY <3>1, <3>2, BackFillRow
    <2>3. QED
      BY <2>1, <2>2 DEF RowsSplit
  <1>6. ASSUME NEW c \in Caller,
               \/ RecordModelError(c) \/ LearnRateLimit(c) \/ RecordRequestAttempt(c)
               \/ RecordTaskUsage(c) \/ RecordCapability(c)
               \/ NothingWritten(c) \/ LimitCutShort(c) \/ AttemptCutShort(c)
        PROVE  UNCHANGED <<hourly, lifetime>>
    BY <1>6 DEF RecordModelError, LearnRateLimit, RecordRequestAttempt, RecordTaskUsage,
       RecordCapability, NothingWritten, LimitCutShort, AttemptCutShort, usage
  <1>7. ASSUME NEW c \in Caller, NEW d \in Deployment,
               Answered(c, d) \/ Failed(c, d) \/ RescueFailed(c, d) \/ Adapted(c, d)
        PROVE  UNCHANGED <<hourly, lifetime>>
    BY <1>7 DEF Answered, Failed, RescueFailed, Adapted, Begin, usage
  <1>8. Midnight \/ Crash \/ OpenFails \/ Synchronise \/ UNCHANGED vars
           => UNCHANGED <<hourly, lifetime>>
    BY DEF Midnight, Crash, OpenFails, Synchronise, SyncFails, SyncFetched, RecordSync, SyncDone,
       SyncUpsert, LearnUpsert, UpsertFails, SyncStep, vars, usage
  <1>9. QED
    BY <1>2, <1>3, <1>4, <1>5, <1>6, <1>7, <1>8 DEF Next, Record, CutShort

-----------------------------------------------------------------------------
(* Attempts *)

Matches(d) ==
    LET r == deployment[d]
    IN  /\ r.ok + r.bad <= Len(attempts[d]) /\ Len(attempts[d]) <= r.ok + r.bad + lost
        /\ lost = 0 => EndsWithFailures(attempts[d], r.streak)
        /\ r.cooling => r.streak > 0

(* The invariant speaks of each deployment by itself. *)
LEMMA MatchesEach == DeploymentMatchesAttempts <=> \A d \in Deployment : Matches(d)
  BY DEF DeploymentMatchesAttempts, Matches

(* One attempt more, on both sides.                                        *)
LEMMA StreakGrows ==
    ASSUME NEW s \in Seq(BOOLEAN), NEW n \in Nat, NEW ok \in BOOLEAN, EndsWithFailures(s, n)
    PROVE  EndsWithFailures(Append(s, ok), IF ok THEN 0 ELSE n + 1)
  <1>1. /\ Len(Append(s, ok)) = Len(s) + 1
        /\ Append(s, ok)[Len(s) + 1] = ok
        /\ \A i \in 1..Len(s) : Append(s, ok)[i] = s[i]
    OBVIOUS
  <1>2. CASE ok
    BY <1>1, <1>2 DEF EndsWithFailures
  <1>3. CASE ~ok
    <2>1. n + 1 <= Len(s) + 1 /\ n <= Len(s)
      BY DEF EndsWithFailures
    <2>2. ASSUME NEW i \in 1..Len(s) + 1, i > Len(s) + 1 - (n + 1)
          PROVE  ~Append(s, ok)[i]
      BY <1>1, <1>3, <2>2 DEF EndsWithFailures
    <2>3. ASSUME n + 1 < Len(s) + 1
          PROVE  Append(s, ok)[Len(s) + 1 - (n + 1)]
      <3>1. Len(s) + 1 - (n + 1) = Len(s) - n /\ Len(s) - n \in 1..Len(s)
        BY <2>1, <2>3
      <3>2. s[Len(s) - n]
        BY <2>3 DEF EndsWithFailures
      <3>3. QED
        BY <1>1, <3>1, <3>2
    <2>4. QED
      BY <1>1, <1>3, <2>1, <2>2, <2>3 DEF EndsWithFailures
  <1>4. QED
    BY <1>2, <1>3

(* Every step keeps the deployments in line with their attempts. *)
LEMMA MatchStep ==
    ASSUME TypeOK, CallsDefinite, DeploymentMatchesAttempts, [Next]_vars
    PROVE  DeploymentMatchesAttempts'
  <1>1. lost \in Nat
    BY DEF TypeOK
  <1>2. ASSUME UNCHANGED tries, lost' >= lost, lost' \in Nat PROVE DeploymentMatchesAttempts'
    <2>1. ASSUME NEW d \in Deployment PROVE Matches(d)'
      <3>1. Matches(d)
        BY MatchesEach
      <3>2. deployment[d] \in DeploymentRow /\ Len(attempts[d]) \in Nat
        BY DEF TypeOK, DeploymentRow
      <3>3. QED
        BY <1>1, <1>2, <3>1, <3>2 DEF Matches, tries, DeploymentRow
    <2>2. QED
      BY <2>1 DEF DeploymentMatchesAttempts, Matches
  <1>3. ASSUME NEW c \in Caller, RecordRequestAttempt(c)
        PROVE  DeploymentMatchesAttempts'
    <2> DEFINE at == call[c].at
               k  == call[c]
    <2>1. k \in Outcome /\ at \in Deployment
      BY <1>3, Subject DEF RecordRequestAttempt, Recording
    <2>2. /\ attempts' = [attempts EXCEPT ![at] = Append(@, k.ok)]
          /\ deployment' = [deployment EXCEPT ![at] = AfterAttempt(@, k)]
          /\ lost' = lost
      BY <1>3 DEF RecordRequestAttempt, Trace
    <2>3. k.ok \in BOOLEAN /\ k.cooldown \in BOOLEAN
      BY <2>1 DEF Outcome
    <2> HIDE DEF at, k
    <2>4. ASSUME NEW d \in Deployment PROVE Matches(d)'
      <3> DEFINE r == deployment[d]
                 s == attempts[d]
      <3>1. Matches(d) /\ r \in DeploymentRow /\ s \in Seq(BOOLEAN)
        BY MatchesEach DEF TypeOK, DeploymentRow
      <3>2. CASE d # at
        <4>1. attempts'[d] = attempts[d] /\ deployment'[d] = deployment[d]
          BY <2>1, <2>2, <3>2 DEF TypeOK
        <4>2. QED
          BY <2>2, <3>1, <4>1 DEF Matches
      <3>3. CASE d = at
        <4>1. attempts'[d] = Append(s, k.ok) /\ deployment'[d] = AfterAttempt(r, k)
          BY <2>1, <2>2, <3>3 DEF TypeOK
        <4>2. /\ AfterAttempt(r, k) \in DeploymentRow
              /\ AfterAttempt(r, k).ok + AfterAttempt(r, k).bad = r.ok + r.bad + 1
              /\ AfterAttempt(r, k).streak = IF k.ok THEN 0 ELSE r.streak + 1
              /\ AfterAttempt(r, k).cooling => AfterAttempt(r, k).streak > 0
          BY <2>3, <3>1, AttemptRow
        <4>3. Len(Append(s, k.ok)) = Len(s) + 1 /\ Len(s) \in Nat
          BY <2>3, <3>1
        <4>4. r.ok + r.bad <= Len(s) /\ Len(s) <= r.ok + r.bad + lost
          BY <3>1 DEF Matches
        <4>5. lost = 0 => EndsWithFailures(attempts'[d], deployment'[d].streak)
          <5>1. lost = 0 => EndsWithFailures(s, r.streak)
            BY <3>1 DEF Matches
          <5>2. r.streak \in Nat
            BY <3>1 DEF DeploymentRow
          <5>3. QED
            BY <2>3, <3>1, <4>1, <4>2, <5>1, <5>2, StreakGrows
        <4>6. r.ok \in Nat /\ r.bad \in Nat
          BY <3>1 DEF DeploymentRow
        <4> HIDE DEF r, s
        <4>7. /\ deployment'[d].ok + deployment'[d].bad <= Len(attempts'[d])
              /\ Len(attempts'[d]) <= deployment'[d].ok + deployment'[d].bad + lost
          BY <1>1, <4>1, <4>2, <4>3, <4>4, <4>6
        <4>8. deployment'[d].cooling => deployment'[d].streak > 0
          BY <4>1, <4>2
        <4>9. QED
          BY <2>2, <4>5, <4>7, <4>8 DEF Matches
      <3>4. QED
        BY <3>2, <3>3
    <2>5. QED
      BY <2>4 DEF DeploymentMatchesAttempts, Matches
  <1>4. ASSUME NEW c \in Caller, AttemptCutShort(c)
        PROVE  DeploymentMatchesAttempts'
    <2> DEFINE at == call[c].at
    <2>1. call[c] \in Outcome /\ at \in Deployment
      BY <1>4, Subject DEF AttemptCutShort, Recording
    <2>2. /\ attempts' = [attempts EXCEPT ![at] = Append(@, call[c].ok)]
          /\ deployment' = deployment /\ lost' = lost + 1
      BY <1>4 DEF AttemptCutShort, Trace, Fault
    <2>3. call[c].ok \in BOOLEAN
      BY <2>1 DEF Outcome
    <2> HIDE DEF at
    <2>4. ASSUME NEW d \in Deployment PROVE Matches(d)'
      <3>1. /\ Matches(d) /\ deployment[d] \in DeploymentRow
            /\ attempts[d] \in Seq(BOOLEAN) /\ Len(attempts[d]) \in Nat
        BY MatchesEach DEF TypeOK, DeploymentRow
      <3>2. Len(attempts'[d]) \in {Len(attempts[d]), Len(attempts[d]) + 1}
        <4>1. attempts'[d] \in {attempts[d], Append(attempts[d], call[c].ok)}
          BY <2>2 DEF TypeOK
        <4>2. QED
          BY <2>3, <3>1, <4>1
      <3>3. QED
        BY <1>1, <2>2, <3>1, <3>2 DEF Matches, DeploymentRow
    <2>5. QED
      BY <2>4 DEF DeploymentMatchesAttempts, Matches
  <1>5. ASSUME NEW c \in Caller,
               \/ RecordModelError(c) \/ LearnRateLimit(c) \/ RecordUsage(c)
               \/ RecordTaskUsage(c) \/ RecordCapability(c)
               \/ NothingWritten(c) \/ LimitCutShort(c) \/ UsageCutShort(c)
        PROVE  UNCHANGED tries /\ lost' \in {lost, lost + 1}
    BY <1>5 DEF RecordModelError, LearnRateLimit, RecordUsage, RecordTaskUsage,
       RecordCapability, NothingWritten, LimitCutShort, UsageCutShort, Fault
  <1>6. ASSUME NEW c \in Caller, NEW d \in Deployment,
               Answered(c, d) \/ Failed(c, d) \/ RescueFailed(c, d) \/ Adapted(c, d)
        PROVE  UNCHANGED tries /\ lost' \in {lost, lost + 1}
    BY <1>6 DEF Answered, Failed, RescueFailed, Adapted, Begin
  <1>7. Midnight \/ Open \/ OpenFails \/ Synchronise \/ UNCHANGED vars
           => UNCHANGED tries /\ lost' \in {lost, lost + 1}
    BY DEF Midnight, Open, OpenFails, Synchronise, SyncFails, SyncFetched, RecordSync, SyncDone,
       SyncUpsert, LearnUpsert, UpsertFails, SyncStep, Fault, vars
  <1>8. CASE Crash
    <2>1. Unfinished \in Nat
      <3>1. IsFiniteSet({c \in Caller : call[c] # Idle})
        BY StoreAssumption, FS_Subset
      <3>2. QED
        BY <3>1, FS_CardinalityType DEF Unfinished
    <2>2. UNCHANGED tries /\ lost' = lost + 1 + Unfinished
      BY <1>8 DEF Crash
    <2>3. QED
      BY <1>1, <1>2, <2>1, <2>2
  <1>9. QED
    BY <1>1, <1>2, <1>3, <1>4, <1>5, <1>6, <1>7, <1>8 DEF Next, Record, CutShort

-----------------------------------------------------------------------------
(* Totals *)

Rows   == Model \X Day
Figure == {"requests", "errors", "tokens"}

Whole(table, x) == SumFunctionOnSet(Column(table, x), Rows)

(* The totals that TotalsNest compares, over all the dates.                *)
TotalsInv == \A x \in Figure :
    /\ lifetime[x] <= Whole(hourly, x) /\ Whole(hourly, x) <= Whole(daily, x)
    /\ x # "tokens" => Whole(daily, x) <= lifetime[x] + lost

(* There are finitely many rows to sum over. *)
LEMMA RowsFinite == IsFiniteSet(Rows)
  <1>1. IsFiniteSet(Day)
    BY StoreAssumption, FS_Interval DEF Day
  <1>2. QED
    BY <1>1, StoreAssumption, FS_Product DEF Rows

(* The figures of a row are numbers, and Plus adds them one by one.        *)
LEMMA Figures ==
    ASSUME NEW u \in Usage, NEW x \in Figure
    PROVE  /\ u[x] \in Nat
           /\ \A v \in Usage : Plus(u, v)[x] = u[x] + v[x]
           /\ BackFill(u)[x] = u[x] /\ CountAsReported(u)[x] = u[x]
           /\ x \in DOMAIN Unused
  <1>1. u[x] \in Nat /\ x \in DOMAIN Unused
    BY DEF Usage, Figure, Unused
  <1>2. \A v \in Usage : Plus(u, v)[x] = u[x] + v[x]
    BY DEF Plus, Usage, Figure
  <1>3. CountAsReported(u)[x] = u[x]
    BY DEF CountAsReported, Usage, Figure
  <1>4. CopyReported(u) \in Usage /\ CopyReported(u)[x] = u[x]
    BY DEF CopyReported, Usage, Figure
  <1>5. \A v \in Usage : CopyEstimated(v)[x] = v[x]
    BY DEF CopyEstimated, Usage, Figure
  <1>6. QED
    BY <1>1, <1>2, <1>3, <1>4, <1>5 DEF BackFill

(* A column of a table is a list of numbers and its sum is a number. *)
LEMMA ColumnEntries ==
    ASSUME NEW t \in [Rows -> Usage], NEW x \in Figure
    PROVE  /\ \A r \in Rows : Column(t, x)[r] = t[r][x] /\ Column(t, x)[r] \in Nat
           /\ Whole(t, x) \in Nat
  <1>1. \A r \in Rows : Column(t, x)[r] = t[r][x] /\ t[r][x] \in Nat
    BY Figures DEF Column
  <1>2. Whole(t, x) \in Nat
    BY <1>1, RowsFinite, SumInNat DEF Whole
  <1>3. QED
    BY <1>1, <1>2

(* A request counted in one row is counted once in the total.              *)
LEMMA WholeGrows ==
    ASSUME NEW t \in [Rows -> Usage], NEW u \in Usage, NEW r \in Rows, NEW x \in Figure
    PROVE  Whole([t EXCEPT ![r] = Plus(@, u)], x) = Whole(t, x) + u[x]
  <1> DEFINE t2 == [t EXCEPT ![r] = Plus(@, u)]
  <1>1. /\ t2 \in [Rows -> Usage] /\ t2[r] = Plus(t[r], u)
        /\ \A y \in Rows : y # r => t2[y] = t[y]
    BY PlusRow
  <1> HIDE DEF t2
  <1>2. Column(t2, x)[r] = Column(t, x)[r] + u[x]
    <2>1. Column(t2, x)[r] = t2[r][x] /\ Column(t, x)[r] = t[r][x]
      BY <1>1, ColumnEntries
    <2>2. Plus(t[r], u)[x] = t[r][x] + u[x]
      BY Figures
    <2>3. QED
      BY <1>1, <2>1, <2>2
  <1>3. \A y \in Rows : y # r => Column(t2, x)[y] = Column(t, x)[y]
    BY <1>1, ColumnEntries
  <1>4. \A y \in Rows : Column(t, x)[y] \in Nat
    BY ColumnEntries
  <1>5. u[x] \in Nat
    BY Figures
  <1>6. Whole(t2, x) = Whole(t, x) + u[x]
    BY <1>2, <1>3, <1>4, <1>5, RowsFinite, SumGrows DEF Whole
  <1>7. QED
    BY <1>6 DEF t2

(* The migration moves tokens between columns that are not compared.       *)
LEMMA WholeKept ==
    ASSUME NEW t \in [Rows -> Usage], NEW x \in Figure,
           NEW t2 \in [Rows -> Usage], \A r \in Rows : t2[r][x] = t[r][x]
    PROVE  Whole(t2, x) = Whole(t, x)
  <1>1. \A r \in Rows : Column(t2, x)[r] = Column(t, x)[r]
    BY ColumnEntries
  <1>2. QED
    BY <1>1, RowsFinite, SumsEqual DEF Whole

(* The migration moves figures between columns and changes no sum of       *)
(* requests, errors or tokens.                                             *)
LEMMA MigrationKeepsTotals ==
    ASSUME TypeOK, NEW x \in Figure
    PROVE  /\ Whole(Claimed, x) = Whole(daily, x)
           /\ Whole(Migrated(Claimed), x) = Whole(daily, x)
           /\ Whole(Migrated(hourly), x) = Whole(hourly, x)
           /\ BackFill(lifetime)[x] = lifetime[x]
  <1>1. daily \in [Rows -> Usage] /\ hourly \in [Rows -> Usage] /\ lifetime \in Usage
    BY DEF TypeOK, Rows
  <1>2. Claimed \in [Rows -> Usage] /\ \A r \in Rows : Claimed[r][x] = daily[r][x]
    BY <1>1, ClaimedRow, Figures DEF Claimed
  <1>3. ASSUME NEW t \in [Rows -> Usage]
        PROVE  Migrated(t) \in [Rows -> Usage] /\ \A r \in Rows : Migrated(t)[r][x] = t[r][x]
    BY BackFillRow, Figures DEF Migrated
  <1>4. Whole(Claimed, x) = Whole(daily, x)
    BY <1>1, <1>2, WholeKept
  <1>5. Whole(Migrated(Claimed), x) = Whole(Claimed, x)
    BY <1>2, <1>3, WholeKept
  <1>6. Whole(Migrated(hourly), x) = Whole(hourly, x)
    BY <1>1, <1>3, WholeKept
  <1>7. QED
    BY <1>1, <1>4, <1>5, <1>6, Figures

(* What record_usage, whole or cut short, does to the totals.              *)
LEMMA CountingTotals ==
    ASSUME TypeOK, CallsDefinite, NEW c \in Caller, call[c].todo # <<>>, ClockMoves,
           NEW x \in Figure
    PROVE  LET u == UsageOf(call[c]) IN
           /\ u[x] \in Nat
           /\ x # "tokens" => u[x] <= 1
           /\ CountDaily(c) => Whole(daily', x) = Whole(daily, x) + u[x]
           /\ CountHourly(c) => Whole(hourly', x) = Whole(hourly, x) + u[x]
           /\ CountLifetime(c) => lifetime'[x] = lifetime[x] + u[x]
  <1> DEFINE u == UsageOf(call[c])
  <1>1. /\ daily \in [Rows -> Usage] /\ hourly \in [Rows -> Usage] /\ lifetime \in Usage
        /\ u \in Usage /\ About(c) \in Model
    BY Subject, UsageOfRow DEF TypeOK, Rows
  <1>2. x # "tokens" => u[x] <= 1
    BY DEF UsageOf, Figure
  <1>3. today \in Day /\ today' \in Day
    BY DEF TypeOK, ClockMoves
  <1> HIDE DEF u
  <1>4. ASSUME CountDaily(c) PROVE Whole(daily', x) = Whole(daily, x) + u[x]
    <2>1. <<About(c), today>> \in Rows
      BY <1>1, <1>3 DEF Rows
    <2>2. daily' = [daily EXCEPT ![<<About(c), today>>] = Plus(@, u)]
      BY <1>4 DEF CountDaily, u
    <2>3. QED
      BY <1>1, <2>1, <2>2, WholeGrows
  <1>5. ASSUME CountHourly(c) PROVE Whole(hourly', x) = Whole(hourly, x) + u[x]
    <2>1. PICK h \in {today, today'} : hourly' = [hourly EXCEPT ![<<About(c), h>>] = Plus(@, u)]
      BY <1>5 DEF CountHourly, u
    <2>2. <<About(c), h>> \in Rows
      BY <1>1, <1>3 DEF Rows
    <2>3. QED
      BY <1>1, <2>1, <2>2, WholeGrows
  <1>6. CountLifetime(c) => lifetime'[x] = lifetime[x] + u[x]
    BY <1>1, Figures DEF CountLifetime, u
  <1>7. u[x] \in Nat
    BY <1>1, Figures
  <1>8. QED
    BY <1>2, <1>4, <1>5, <1>6, <1>7 DEF u

(* Only record_usage and the migration touch the usage.                    *)
LEMMA OtherSteps ==
    ASSUME TypeOK, [Next]_vars
    PROVE  \/ \E c \in Caller : RecordUsage(c) \/ UsageCutShort(c)
           \/ Open \/ OpenFails
           \/ UNCHANGED usage /\ lost' \in Nat /\ lost' >= lost
  <1> DEFINE Kept == UNCHANGED usage /\ lost' \in Nat /\ lost' >= lost
  <1>1. lost \in Nat
    BY DEF TypeOK
  <1>2. UNCHANGED usage /\ lost' \in {lost, lost + 1} => Kept
    BY <1>1
  <1>3. ASSUME NEW c \in Caller,
               \/ RecordModelError(c) \/ LearnRateLimit(c) \/ RecordRequestAttempt(c)
               \/ RecordTaskUsage(c) \/ RecordCapability(c)
               \/ NothingWritten(c) \/ LimitCutShort(c) \/ AttemptCutShort(c)
        PROVE  UNCHANGED usage /\ lost' \in {lost, lost + 1}
    BY <1>3 DEF RecordModelError, LearnRateLimit, RecordRequestAttempt, RecordTaskUsage,
       RecordCapability, NothingWritten, LimitCutShort, AttemptCutShort, Fault
  <1>4. ASSUME NEW c \in Caller, NEW d \in Deployment,
               Answered(c, d) \/ Failed(c, d) \/ RescueFailed(c, d) \/ Adapted(c, d)
        PROVE  UNCHANGED usage /\ lost' \in {lost, lost + 1}
    BY <1>4 DEF Answered, Failed, RescueFailed, Adapted, Begin
  <1>5. Midnight \/ Synchronise \/ UNCHANGED vars => UNCHANGED usage /\ lost' \in {lost, lost + 1}
    BY DEF Midnight, Synchronise, SyncFails, SyncFetched, RecordSync, SyncDone,
       SyncUpsert, LearnUpsert, UpsertFails, SyncStep, Fault, vars
  <1>6. CASE Crash
    <2>1. Unfinished \in Nat
      <3>1. IsFiniteSet({c \in Caller : call[c] # Idle})
        BY StoreAssumption, FS_Subset
      <3>2. QED
        BY <3>1, FS_CardinalityType DEF Unfinished
    <2>2. UNCHANGED usage /\ lost' = lost + 1 + Unfinished
      BY <1>6 DEF Crash
    <2>3. QED
      BY <1>1, <2>1, <2>2
  <1> HIDE DEF Kept
  <1>7. QED
    BY <1>2, <1>3, <1>4, <1>5, <1>6 DEF Next, Record, CutShort, Kept

(* The days are written before the hours and these before the lifetime, so *)
(* what is cut short is missing from the end of that chain.                *)
LEMMA TotalsStep ==
    ASSUME TypeOK, CallsDefinite, TotalsInv, [Next]_vars
    PROVE  TotalsInv'
  <1>1. /\ lost \in Nat
        /\ \A x \in Figure : /\ lifetime[x] \in Nat
                              /\ Whole(daily, x) \in Nat /\ Whole(hourly, x) \in Nat
    <2>1. daily \in [Rows -> Usage] /\ hourly \in [Rows -> Usage] /\ lifetime \in Usage
      BY DEF TypeOK, Rows
    <2>2. QED
      BY <2>1, Figures, ColumnEntries DEF TypeOK
  <1>2. ASSUME UNCHANGED usage, lost' \in Nat, lost' >= lost PROVE TotalsInv'
    BY <1>1, <1>2 DEF TotalsInv, usage
  <1>3. ASSUME NEW c \in Caller, RecordUsage(c) PROVE TotalsInv'
    <2>1. SUFFICES ASSUME NEW x \in Figure
                   PROVE  /\ lifetime'[x] <= Whole(hourly', x) /\ Whole(hourly', x) <= Whole(daily', x)
                          /\ x # "tokens" => Whole(daily', x) <= lifetime'[x] + lost'
      BY DEF TotalsInv
    <2> DEFINE n == UsageOf(call[c])[x]
    <2>2. /\ n \in Nat /\ lifetime'[x] = lifetime[x] + n
          /\ Whole(hourly', x) = Whole(hourly, x) + n
          /\ Whole(daily', x) = Whole(daily, x) + n
      <3>1. /\ call[c].todo # <<>> /\ ClockMoves
            /\ CountDaily(c) /\ CountHourly(c) /\ CountLifetime(c)
        BY <1>3 DEF RecordUsage, Recording
      <3>2. QED
        BY <3>1, CountingTotals
    <2> HIDE DEF n
    <2>3. lost' = lost
      BY <1>3 DEF RecordUsage
    <2>4. QED
      BY <1>1, <2>2, <2>3 DEF TotalsInv
  <1>4. ASSUME NEW c \in Caller, UsageCutShort(c) PROVE TotalsInv'
    <2>1. SUFFICES ASSUME NEW x \in Figure
                   PROVE  /\ lifetime'[x] <= Whole(hourly', x) /\ Whole(hourly', x) <= Whole(daily', x)
                          /\ x # "tokens" => Whole(daily', x) <= lifetime'[x] + lost'
      BY DEF TotalsInv
    <2>3. lifetime' = lifetime /\ lost' = lost + 1
      BY <1>4 DEF UsageCutShort, Fault
    <2> DEFINE n == UsageOf(call[c])[x]
    <2>4. /\ n \in Nat
          /\ x # "tokens" => n <= 1
          /\ Whole(hourly', x) \in {Whole(hourly, x), Whole(hourly, x) + n}
          /\ Whole(daily', x) = Whole(daily, x) + n
      <3>1. call[c].todo # <<>> /\ ClockMoves /\ CountDaily(c)
        BY <1>4 DEF UsageCutShort, Recording
      <3>2. CountHourly(c) \/ hourly' = hourly
        BY <1>4 DEF UsageCutShort
      <3>3. QED
        BY <3>1, <3>2, CountingTotals
    <2> HIDE DEF n
    <2>5. /\ lifetime[x] <= Whole(hourly, x) /\ Whole(hourly, x) <= Whole(daily, x)
          /\ x # "tokens" => Whole(daily, x) <= lifetime[x] + lost
      BY DEF TotalsInv
    <2>6. QED
      BY <1>1, <2>3, <2>4, <2>5
  <1>5. CASE Open \/ OpenFails
    <2>1. \A x \in Figure : /\ Whole(daily', x) = Whole(daily, x)
                            /\ Whole(hourly', x) = Whole(hourly, x) /\ lifetime'[x] = lifetime[x]
      BY <1>5, MigrationKeepsTotals DEF Open, OpenFails
    <2>2. lost' \in {lost, lost + 1}
      BY <1>5 DEF Open, OpenFails, Fault
    <2>3. QED
      BY <1>1, <2>1, <2>2 DEF TotalsInv
  <1>6. QED
    BY <1>1, <1>2, <1>3, <1>4, <1>5, OtherSteps DEF Next, Record, CutShort

(* The totals begin at nothing.                                            *)
LEMMA TotalsBegin == InitTables /\ lost = 0 => TotalsInv
  <1> SUFFICES ASSUME InitTables, lost = 0, NEW x \in Figure
               PROVE  /\ lifetime[x] <= Whole(hourly, x) /\ Whole(hourly, x) <= Whole(daily, x)
                      /\ x # "tokens" => Whole(daily, x) <= lifetime[x] + lost
    BY DEF TotalsInv
  <1> DEFINE none == [r \in Rows |-> Unused]
  <1>1. none \in [Rows -> Usage]
    BY UnusedRow
  <1>2. Unused[x] = 0
    BY DEF Unused, Figure
  <1>3. \A r \in Rows : Column(none, x)[r] = 0
    BY <1>2 DEF Column
  <1>4. Whole(none, x) = 0
    BY <1>3, RowsFinite, SumOfZeros DEF Whole
  <1>5. hourly = none /\ daily = none /\ lifetime = Unused
    BY DEF InitTables, Rows
  <1> HIDE DEF none
  <1>6. QED
    BY <1>2, <1>4, <1>5

(* What the dashboards compare follows from it: their totals are those of  *)
(* all dates, and N dates are among the N dates and today.                 *)
LEMMA TotalsFollow == TypeOK /\ TotalsInv => TotalsNest
  <1> SUFFICES ASSUME TypeOK, TotalsInv PROVE TotalsNest
    OBVIOUS
  <1> DEFINE From(n) == {r \in Rows : r[2] >= n}
  <1>1. daily \in [Rows -> Usage] /\ hourly \in [Rows -> Usage] /\ today \in Day
    BY DEF TypeOK, Rows
  <1>2. From(1) = Rows
    BY DEF Rows, Day
  <1>3. \A x : HourlySummary(x) = Whole(hourly, x) /\ UsageSummary(0, x) = Whole(daily, x)
    BY <1>2 DEF HourlySummary, UsageSummary, Total, Whole, Rows
  <1>4. ASSUME NEW n \in Day
        PROVE  DailySummary(n, "requests") <= UsageSummary(n, "requests")
    <2> DEFINE col == Column(daily, "requests")
               a == IF n >= today THEN 1 ELSE today - n + 1
               b == IF n = 0 \/ n >= today THEN 1 ELSE today - n
    <2>1. a \in Int /\ b \in Int /\ b <= a
      BY <1>1 DEF Day
    <2>2. From(a) \subseteq From(b) /\ IsFiniteSet(From(b))
      <3>1. \A r \in Rows : r[2] \in Int
        BY DEF Rows, Day
      <3>2. IsFiniteSet(From(b))
        BY RowsFinite, FS_Subset
      <3>3. QED
        BY <2>1, <3>1, <3>2
    <2>3. \A r \in Rows : col[r] \in Nat
      BY <1>1, ColumnEntries DEF Figure
    <2>4. SumFunctionOnSet(col, From(a)) <= SumFunctionOnSet(col, From(b))
      <3> HIDE DEF col, a, b
      <3>1. QED
        BY <2>2, <2>3, SumOfPart
    <2>5. QED
      BY <2>4 DEF DailySummary, UsageSummary, Total, Rows
  <1>5. QED
    BY <1>3, <1>4 DEF TotalsNest, TotalsInv, Figure

-----------------------------------------------------------------------------
(* Errors *)

Has(k, method) == \E i \in 1..Len(k.todo) : k.todo[i] = method /\ ~k.ok

Owing(method) == {c \in Caller : Has(call[c], method)}

(* Each method is called at most once, and that of an error for a failure. *)
Distinct(s) == \A i, j \in 1..Len(s) : s[i] = s[j] => i = j
Orderly(k)  == Distinct(k.todo) /\ \A i \in 1..Len(k.todo) : k.todo[i] = "error" => ~k.ok

CallsOrderly == \A c \in Caller : Orderly(call[c])

(* The failures each side counts or will, over all dates.                  *)
Categorised == Failures + Pending("error")
Counted     == Whole(daily, "errors") + Pending("usage")

ErrorsInv == Categorised <= Counted + lost /\ Counted <= Categorised + lost

(* There are finitely many counters of errors. *)
LEMMA ErrorRowsFinite == IsFiniteSet(Model \X Category)
  <1>1. IsFiniteSet({"rate_limit"} \cup {"other"})
    BY FS_Singleton, FS_AddElement
  <1>2. Category = {"rate_limit"} \cup {"other"}
    BY DEF Category
  <1>3. QED
    BY <1>1, <1>2, StoreAssumption, FS_Product

(* The sums and the counts of callers are numbers. *)
LEMMA ErrorsAreNumbers ==
    ASSUME TypeOK
    PROVE  /\ Failures \in Nat /\ Whole(daily, "errors") \in Nat /\ lost \in Nat
           /\ \A m : /\ IsFiniteSet(Owing(m)) /\ Pending(m) = Cardinality(Owing(m))
                     /\ Pending(m) \in Nat
  <1>2. Failures \in Nat
    BY ErrorRowsFinite, SumInNat DEF Failures, TypeOK
  <1>3. Whole(daily, "errors") \in Nat
    BY ColumnEntries DEF TypeOK, Rows, Figure
  <1>4. ASSUME NEW m
        PROVE  /\ IsFiniteSet(Owing(m)) /\ Pending(m) = Cardinality(Owing(m))
               /\ Pending(m) \in Nat
    <2>1. IsFiniteSet(Owing(m))
      BY StoreAssumption, FS_Subset DEF Owing
    <2>2. Pending(m) = Cardinality(Owing(m))
      BY DEF Pending, Owing, Has
    <2>3. QED
      BY <2>1, <2>2, FS_CardinalityType
  <1>5. QED
    BY <1>2, <1>3, <1>4 DEF TypeOK

(* What is left after one method is what there was without that method.    *)
LEMMA RestIsLess ==
    ASSUME NEW k \in Outcome, k.todo # <<>>, Orderly(k)
    PROVE  /\ Orderly(Rest(k))
           /\ \A m : Has(Rest(k), m) <=> Has(k, m) /\ m # Head(k.todo)
  <1>1. /\ k.todo \in Seq(Method) /\ Len(k.todo) \in Nat /\ Len(k.todo) >= 1
        /\ Head(k.todo) = k.todo[1]
    BY DEF Outcome, Method
  <1>2. CASE Len(k.todo) = 1
    <2>1. Rest(k) = Idle
      BY <1>2 DEF Rest
    <2>2. Orderly(Idle) /\ \A m : ~Has(Idle, m)
      BY DEF Orderly, Distinct, Has, Idle
    <2>3. \A m : Has(k, m) => m = Head(k.todo)
      BY <1>1, <1>2 DEF Has
    <2>4. QED
      BY <2>1, <2>2, <2>3
  <1>3. CASE Len(k.todo) # 1
    <2> DEFINE r == Rest(k)
    <2>1. r.todo = Tail(k.todo) /\ r.ok = k.ok
      BY <1>3 DEF Rest, Outcome
    <2>2. /\ Len(Tail(k.todo)) = Len(k.todo) - 1
          /\ \A i \in 1..Len(k.todo) - 1 : Tail(k.todo)[i] = k.todo[i + 1]
      BY <1>1
    <2> HIDE DEF r
    <2>3. Orderly(r)
      <3> DEFINE t == Tail(k.todo)
                 n == Len(k.todo) - 1
      <3>1. /\ Len(t) = n /\ n \in Nat
            /\ \A i \in 1..n : i + 1 \in 1..Len(k.todo) /\ t[i] = k.todo[i + 1]
        BY <1>1, <2>2
      <3>2. r.todo = t
        BY <2>1
      <3> HIDE DEF t, n
      <3>3. Distinct(t)
        <4>1. ASSUME NEW i \in 1..n, NEW j \in 1..n, t[i] = t[j] PROVE i = j
          <5>1. i + 1 = j + 1
            BY <3>1, <4>1 DEF Orderly, Distinct
          <5>2. QED
            BY <3>1, <5>1
        <4>2. QED
          BY <3>1, <4>1 DEF Distinct
      <3>4. \A i \in 1..n : t[i] = "error" => ~r.ok
        BY <2>1, <3>1 DEF Orderly
      <3>5. QED
        BY <3>1, <3>2, <3>3, <3>4 DEF Orderly
    <2>4. ASSUME NEW m, Has(r, m) PROVE Has(k, m) /\ m # Head(k.todo)
      BY <1>1, <2>1, <2>2, <2>4 DEF Orderly, Distinct, Has
    <2>5. ASSUME NEW m, Has(k, m), m # Head(k.todo) PROVE Has(r, m)
      <3>1. PICK i \in 1..Len(k.todo) : k.todo[i] = m /\ ~k.ok
        BY <2>5 DEF Has
      <3>2. i # 1
        BY <1>1, <2>5, <3>1
      <3>3. i - 1 \in 1..Len(k.todo) - 1 /\ Tail(k.todo)[i - 1] = m
        BY <1>1, <2>2, <3>1, <3>2
      <3>4. QED
        BY <2>1, <2>2, <3>1, <3>3 DEF Has
    <2>6. QED
      BY <2>3, <2>4, <2>5 DEF r
  <1>4. QED
    BY <1>2, <1>3

(* So one call fewer owes that method, if it was owed.                     *)
LEMMA WrittenOwes ==
    ASSUME TypeOK, CallsOrderly, NEW c \in Caller, call[c].todo # <<>>, Written(c)
    PROVE  /\ CallsOrderly'
           /\ \A m : IF m = Head(call[c].todo) /\ Has(call[c], m)
                     THEN Pending(m)' = Pending(m) - 1 ELSE Pending(m)' = Pending(m)
  <1>1. call[c] \in Outcome /\ Orderly(call[c])
    BY DEF TypeOK, CallsOrderly
  <1>2. call'[c] = Rest(call[c]) /\ \A e \in Caller : e # c => call'[e] = call[e]
    BY DEF Written, TypeOK
  <1>3. CallsOrderly'
    <2>1. \A e \in Caller : Orderly(call'[e])
      BY <1>1, <1>2, RestIsLess DEF CallsOrderly
    <2>2. QED
      BY <2>1 DEF CallsOrderly
  <1>4. ASSUME NEW m
        PROVE  IF m = Head(call[c].todo) /\ Has(call[c], m)
               THEN Pending(m)' = Pending(m) - 1 ELSE Pending(m)' = Pending(m)
    <2> DEFINE after == {e \in Caller : Has(call'[e], m)}
    <2>1. Pending(m)' = Cardinality(after)
      BY DEF Pending, Has
    <2>2. IsFiniteSet(Owing(m)) /\ Pending(m) = Cardinality(Owing(m)) /\ Pending(m) \in Nat
      BY ErrorsAreNumbers
    <2>3. Has(call'[c], m) <=> Has(call[c], m) /\ m # Head(call[c].todo)
      BY <1>1, <1>2, RestIsLess
    <2>4. CASE m = Head(call[c].todo) /\ Has(call[c], m)
      <3>1. after = Owing(m) \ {c} /\ c \in Owing(m)
        BY <1>2, <2>3, <2>4 DEF Owing
      <3>2. QED
        BY <2>1, <2>2, <2>4, <3>1, FS_RemoveElement
    <2>5. CASE ~(m = Head(call[c].todo) /\ Has(call[c], m))
      <3>1. after = Owing(m)
        BY <1>2, <2>3, <2>5 DEF Owing
      <3>2. QED
        BY <2>1, <2>2, <2>5, <3>1
    <2>6. QED
      BY <2>4, <2>5
  <1>5. QED
    BY <1>3, <1>4

(* Nothing is owed for an answer.                                          *)
LEMMA AnswersOweNothing ==
    ASSUME TypeOK, CallsOrderly, NEW c \in Caller, NEW d, NEW k \in Outcome, k.ok,
           Distinct(k.todo), \A i \in 1..Len(k.todo) : k.todo[i] # "error", Begin(c, d, k)
    PROVE  /\ CallsOrderly'
           /\ \A m : Pending(m)' = Pending(m)
  <1> DEFINE placed == [k EXCEPT !.at = d]
  <1>1. placed.todo = k.todo /\ placed.ok
    BY DEF Outcome
  <1>2. call[c] = Idle /\ call' = [call EXCEPT ![c] = placed]
    BY DEF Begin
  <1> HIDE DEF placed
  <1>3. call'[c] = placed /\ \A e \in Caller : e # c => call'[e] = call[e]
    BY <1>2 DEF TypeOK
  <1>4. CallsOrderly'
    <2>1. Orderly(placed)
      BY <1>1 DEF Orderly
    <2>2. \A e \in Caller : Orderly(call'[e])
      BY <1>3, <2>1 DEF CallsOrderly
    <2>3. QED
      BY <2>2 DEF CallsOrderly
  <1>5. ASSUME NEW m PROVE Pending(m)' = Pending(m)
    <2>1. ~Has(placed, m) /\ ~Has(Idle, m)
      BY <1>1 DEF Has, Idle
    <2>2. \A e \in Caller : Has(call'[e], m) <=> Has(call[e], m)
      BY <1>2, <1>3, <2>1
    <2>3. {e \in Caller : Has(call'[e], m)} = {e \in Caller : Has(call[e], m)}
      BY <2>2
    <2>4. QED
      BY <2>3 DEF Pending, Has
  <1>6. QED
    BY <1>4, <1>5

(* A failure that records no error owes none, nor what else it leaves out. *)
LEMMA AttemptsOweNothing ==
    ASSUME TypeOK, CallsOrderly, NEW c \in Caller, NEW d, NEW k \in Outcome,
           Distinct(k.todo), \A i \in 1..Len(k.todo) : k.todo[i] # "error", Begin(c, d, k),
           NEW m, \A i \in 1..Len(k.todo) : k.todo[i] # m
    PROVE  CallsOrderly' /\ Pending(m)' = Pending(m)
  <1> DEFINE placed == [k EXCEPT !.at = d]
  <1>1. placed.todo = k.todo
    BY DEF Outcome
  <1>2. call[c] = Idle /\ call' = [call EXCEPT ![c] = placed]
    BY DEF Begin
  <1> HIDE DEF placed
  <1>3. call'[c] = placed /\ \A e \in Caller : e # c => call'[e] = call[e]
    BY <1>2 DEF TypeOK
  <1>4. CallsOrderly'
    <2>1. Orderly(placed)
      BY <1>1 DEF Orderly
    <2>2. \A e \in Caller : Orderly(call'[e])
      BY <1>3, <2>1 DEF CallsOrderly
    <2>3. QED
      BY <2>2 DEF CallsOrderly
  <1>5. ~Has(placed, m) /\ ~Has(Idle, m)
    BY <1>1 DEF Has, Idle
  <1>6. \A e \in Caller : Has(call'[e], m) <=> Has(call[e], m)
    BY <1>2, <1>3, <1>5
  <1>7. {e \in Caller : Has(call'[e], m)} = {e \in Caller : Has(call[e], m)}
    BY <1>6
  <1>8. QED
    BY <1>4, <1>7 DEF Pending, Has

(* A failure owes both, the error and the usage.                           *)
LEMMA FailuresOweBoth ==
    ASSUME TypeOK, CallsOrderly, NEW c \in Caller, NEW d, NEW k \in Outcome, ~k.ok,
           Distinct(k.todo), Begin(c, d, k),
           NEW m, \E i \in 1..Len(k.todo) : k.todo[i] = m
    PROVE  CallsOrderly' /\ Pending(m)' = Pending(m) + 1
  <1> DEFINE placed == [k EXCEPT !.at = d]
  <1>1. placed.todo = k.todo /\ ~placed.ok
    BY DEF Outcome
  <1>2. call[c] = Idle /\ call' = [call EXCEPT ![c] = placed]
    BY DEF Begin
  <1> HIDE DEF placed
  <1>3. call'[c] = placed /\ \A e \in Caller : e # c => call'[e] = call[e]
    BY <1>2 DEF TypeOK
  <1>4. CallsOrderly'
    <2>1. Orderly(placed)
      BY <1>1 DEF Orderly
    <2>2. \A e \in Caller : Orderly(call'[e])
      BY <1>3, <2>1 DEF CallsOrderly
    <2>3. QED
      BY <2>2 DEF CallsOrderly
  <1>5. Has(placed, m) /\ ~Has(Idle, m)
    BY <1>1 DEF Has, Idle
  <1>6. {e \in Caller : Has(call'[e], m)} = Owing(m) \cup {c} /\ c \notin Owing(m)
    BY <1>2, <1>3, <1>5 DEF Owing
  <1>7. Pending(m)' = Cardinality({e \in Caller : Has(call'[e], m)})
    BY DEF Pending, Has
  <1>8. QED
    BY <1>4, <1>6, <1>7, ErrorsAreNumbers, FS_AddElement

(* One method more at the end, one that is not there yet.                  *)
LEMMA DistinctParts ==
    ASSUME NEW s \in Seq(Method), Distinct(s), \A i \in 1..Len(s) : s[i] # "attempt",
           NEW traced \in BOOLEAN, NEW todo, todo = s \o IF traced THEN <<"attempt">> ELSE <<>>
    PROVE  /\ Distinct(todo)
           /\ \A i \in 1..Len(s) : i \in 1..Len(todo) /\ todo[i] = s[i]
           /\ \A i \in 1..Len(todo) : todo[i] = "error" => \E j \in 1..Len(s) : s[j] = "error"
  <1>1. CASE traced
    <2>1. todo = s \o <<"attempt">>
      BY <1>1
    <2>2. /\ Len(todo) = Len(s) + 1 /\ todo[Len(s) + 1] = "attempt"
          /\ \A i \in 1..Len(s) : todo[i] = s[i]
      BY <2>1
    <2>3. QED
      BY <2>2 DEF Distinct
  <1>2. CASE ~traced
    <2>1. todo = s
      BY <1>2
    <2>2. QED
      BY <2>1
  <1>3. QED
    BY <1>1, <1>2

(* A caller that begins owes each method once, and the category of an     *)
(* error only for a failure.                                               *)
LEMMA BeginErrors ==
    ASSUME TypeOK, CallsOrderly, ErrorsInv, NEW c \in Caller, NEW d \in Deployment,
           Answered(c, d) \/ Failed(c, d) \/ RescueFailed(c, d) \/ Adapted(c, d)
    PROVE  CallsOrderly' /\ ErrorsInv'
  <1>1. UNCHANGED <<usage, errors, lost>>
    BY DEF Answered, Failed, RescueFailed, Adapted, Begin
  <1>2. Failures' = Failures /\ Whole(daily, "errors")' = Whole(daily, "errors")
    BY <1>1 DEF Failures, Whole, usage
  <1>3. ASSUME NEW n \in Nat, Pending("error")' = Pending("error") + n,
               Pending("usage")' = Pending("usage") + n
        PROVE  ErrorsInv'
    <2>1. Categorised' = Categorised + n /\ Counted' = Counted + n
      BY <1>2, <1>3, ErrorsAreNumbers DEF Categorised, Counted
    <2>2. Categorised \in Nat /\ Counted \in Nat /\ lost \in Nat /\ lost' = lost
      BY <1>1, ErrorsAreNumbers DEF Categorised, Counted
    <2>3. QED
      BY <2>1, <2>2 DEF ErrorsInv
  <1>4. ASSUME \A m : Pending(m)' = Pending(m) PROVE ErrorsInv'
    BY <1>3, <1>4, ErrorsAreNumbers
  <1>5. CASE Answered(c, d)
    <2>1. PICK reported \in BOOLEAN, traced \in BOOLEAN, n \in 0..MaxTokens :
             Begin(c, d, [Idle EXCEPT !.todo = <<"usage">> \o IF traced THEN <<"attempt">> ELSE <<>>,
                                      !.tokens = n, !.reported = reported])
      BY <1>5 DEF Answered
    <2> DEFINE todo == <<"usage">> \o IF traced THEN <<"attempt">> ELSE <<>>
               k == [Idle EXCEPT !.todo = todo, !.tokens = n, !.reported = reported]
    <2> DEFINE first == <<"usage">>
    <2>2. /\ first \in Seq(Method) /\ Distinct(first)
          /\ \A i \in 1..Len(first) : first[i] # "attempt" /\ first[i] # "error"
      BY DEF Method, Distinct
    <2>3. todo \in Seq(Method) /\ Distinct(todo) /\ \A i \in 1..Len(todo) : todo[i] # "error"
      <3>1. todo = first \o IF traced THEN <<"attempt">> ELSE <<>>
        OBVIOUS
      <3> HIDE DEF first, todo
      <3>2. todo \in Seq(Method) /\ Distinct(todo)
        BY <2>2, <3>1, Parts, DistinctParts
      <3>3. \A i \in 1..Len(todo) : todo[i] = "error" => \E j \in 1..Len(first) : first[j] = "error"
        BY <2>2, <3>1, DistinctParts
      <3>4. QED
        BY <2>2, <3>2, <3>3
    <2> HIDE DEF todo
    <2>4. k \in Outcome /\ k.todo = todo /\ k.ok
      <3>1. n \in Nat
        BY StoreAssumption
      <3>2. QED
        BY <2>3, <3>1, IdleOutcome DEF Outcome, Method, Idle
    <2>5. Begin(c, d, k)
      BY <2>1 DEF todo
    <2> HIDE DEF k
    <2>6. QED
      BY <1>4, <2>3, <2>4, <2>5, AnswersOweNothing
  <1>6. CASE Failed(c, d)
    <2>1. PICK traced \in BOOLEAN, cool \in BOOLEAN, g \in Category,
               v \in {n \in LimitValue : n > 0} \cup {Null}, t \in LimitType :
             Begin(c, d, [Idle EXCEPT
               !.ok = FALSE, !.category = g, !.cooldown = cool, !.stated = v, !.type = t,
               !.todo = (IF v = Null THEN <<"error", "usage">> ELSE <<"error", "limit", "usage">>)
                        \o IF traced THEN <<"attempt">> ELSE <<>>])
      BY <1>6 DEF Failed
    <2> DEFINE first == IF v = Null THEN <<"error", "usage">> ELSE <<"error", "limit", "usage">>
               todo  == first \o IF traced THEN <<"attempt">> ELSE <<>>
               k == [Idle EXCEPT !.ok = FALSE, !.category = g, !.cooldown = cool,
                                 !.stated = v, !.type = t, !.todo = todo]
    <2>2. /\ first \in Seq(Method) /\ Distinct(first)
          /\ \A i \in 1..Len(first) : first[i] # "attempt"
          /\ \A m \in {"error", "usage"} : \E i \in 1..Len(first) : first[i] = m
      <3>1. ASSUME NEW s, s = <<"error", "usage">> \/ s = <<"error", "limit", "usage">>
            PROVE  /\ s \in Seq(Method) /\ Distinct(s)
                   /\ \A i \in 1..Len(s) : s[i] # "attempt"
                   /\ s[1] = "error" /\ s[Len(s)] = "usage" /\ Len(s) \in 2..3
        <4>1. CASE s = <<"error", "usage">>
          BY <4>1 DEF Method, Distinct
        <4>2. CASE s = <<"error", "limit", "usage">>
          BY <4>2 DEF Method, Distinct
        <4>3. QED
          BY <3>1, <4>1, <4>2
      <3>2. first = <<"error", "usage">> \/ first = <<"error", "limit", "usage">>
        OBVIOUS
      <3> HIDE DEF first
      <3>3. QED
        BY <3>1, <3>2
    <2> HIDE DEF first
    <2>3. /\ todo \in Seq(Method) /\ Distinct(todo)
          /\ \A m \in {"error", "usage"} : \E i \in 1..Len(todo) : todo[i] = m
      <3>1. todo = first \o IF traced THEN <<"attempt">> ELSE <<>>
        OBVIOUS
      <3> HIDE DEF todo
      <3>2. todo \in Seq(Method) /\ Distinct(todo)
        BY <2>2, <3>1, Parts, DistinctParts
      <3>3. \A i \in 1..Len(first) : i \in 1..Len(todo) /\ todo[i] = first[i]
        BY <2>2, <3>1, DistinctParts
      <3>4. QED
        BY <2>2, <3>2, <3>3
    <2> HIDE DEF todo
    <2>4. k \in Outcome /\ k.todo = todo /\ ~k.ok
      BY <2>3, IdleOutcome, StoreAssumption DEF Outcome, Method
    <2>5. Begin(c, d, k)
      BY <2>1 DEF todo, first
    <2> HIDE DEF k
    <2>6. ASSUME NEW m \in {"error", "usage"}
          PROVE  CallsOrderly' /\ Pending(m)' = Pending(m) + 1
      <3>1. \E i \in 1..Len(k.todo) : k.todo[i] = m
        BY <2>3, <2>4
      <3>2. Distinct(k.todo)
        BY <2>3, <2>4
      <3>3. QED
        BY <2>4, <2>5, <3>1, <3>2, FailuresOweBoth
    <2>7. QED
      BY <1>3, <2>6
  <1>7. CASE Adapted(c, d)
    <2>1. PICK a \in Agent \cup {NoAgent} :
             Begin(c, d, [Idle EXCEPT !.todo = <<"task", "capability">>, !.agent = a])
      BY <1>7 DEF Adapted
    <2> DEFINE todo == <<"task", "capability">>
               k == [Idle EXCEPT !.todo = todo, !.agent = a]
    <2>2. todo \in Seq(Method) /\ Distinct(todo) /\ \A i \in 1..Len(todo) : todo[i] # "error"
      BY DEF Method, Distinct
    <2> HIDE DEF todo
    <2>3. k \in Outcome /\ k.todo = todo /\ k.ok
      BY <2>2, IdleOutcome DEF Outcome, Method, Idle
    <2>4. Begin(c, d, k)
      BY <2>1 DEF todo
    <2> HIDE DEF k
    <2>5. QED
      BY <1>4, <2>2, <2>3, <2>4, AnswersOweNothing
  <1>8. CASE RescueFailed(c, d)
    <2> DEFINE todo == <<"attempt">>
               k == [Idle EXCEPT !.ok = FALSE, !.cooldown = TRUE, !.todo = todo]
    <2>1. Begin(c, d, k)
      BY <1>8 DEF RescueFailed
    <2>2. /\ todo \in Seq(Method) /\ Distinct(todo)
          /\ \A i \in 1..Len(todo) : todo[i] \notin {"error", "usage"}
      BY DEF Method, Distinct
    <2> HIDE DEF todo
    <2>3. k \in Outcome /\ k.todo = todo
      BY <2>2, IdleOutcome DEF Outcome, Method
    <2> HIDE DEF k
    <2>4. ASSUME NEW m \in {"error", "usage"}
          PROVE  CallsOrderly' /\ Pending(m)' = Pending(m)
      BY <2>1, <2>2, <2>3, AttemptsOweNothing
    <2>5. QED
      BY <1>3, <2>4, ErrorsAreNumbers
  <1>9. QED
    BY <1>5, <1>6, <1>7, <1>8

(* A method written or cut short takes what it owed from the one and adds  *)
(* it to the other, or it is lost.                                         *)
LEMMA MethodErrors ==
    ASSUME TypeOK, CallsDefinite, CallsOrderly, ErrorsInv, NEW c \in Caller,
           Record(c) \/ CutShort(c)
    PROVE  CallsOrderly' /\ ErrorsInv'
  <1> DEFINE head == Head(call[c].todo)
  <1>1. call[c].todo # <<>> /\ Written(c)
    BY DEF Record, RecordModelError, RecordUsage, LearnRateLimit, RecordRequestAttempt,
       RecordTaskUsage, RecordCapability, CutShort, NothingWritten, UsageCutShort, LimitCutShort,
       AttemptCutShort, Recording
  <1>2. /\ CallsOrderly'
        /\ \A m : IF m = head /\ Has(call[c], m)
                  THEN Pending(m)' = Pending(m) - 1 ELSE Pending(m)' = Pending(m)
    BY <1>1, WrittenOwes
  <1>3. /\ Failures \in Nat /\ Whole(daily, "errors") \in Nat /\ lost \in Nat
        /\ \A m : Pending(m) \in Nat
    BY ErrorsAreNumbers
  <1>4. /\ call[c] \in Outcome /\ Orderly(call[c]) /\ About(c) \in Model
        /\ call[c].ok \in BOOLEAN /\ head = call[c].todo[1] /\ 1 \in 1..Len(call[c].todo)
    BY <1>1, Subject DEF CallsOrderly, Outcome
  <1> DEFINE Settles(e, u) == /\ Pending("error")' = Pending("error") - e
                               /\ Pending("usage")' = Pending("usage") - u
  <1>5. head = "error" => Settles(1, 0)
    BY <1>2, <1>3, <1>4 DEF Orderly, Has
  <1>6. head = "usage" => IF call[c].ok THEN Settles(0, 0) ELSE Settles(0, 1)
    BY <1>2, <1>3, <1>4 DEF Has
  <1>7. head \notin {"error", "usage"} => Settles(0, 0)
    BY <1>2, <1>3
  <1>8. daily' = daily => Whole(daily, "errors")' = Whole(daily, "errors")
    BY DEF Whole
  <1>9. errors' = errors => Failures' = Failures
    BY DEF Failures
  <1>10. ASSUME NEW e \in 0..1, NEW u \in 0..1, Settles(e, u),
                \/ /\ Failures' = Failures + e
                   /\ Whole(daily, "errors")' = Whole(daily, "errors") + u
                   /\ lost' \in {lost, lost + 1}
                \/ /\ Failures' = Failures
                   /\ Whole(daily, "errors")' = Whole(daily, "errors")
                   /\ e + u <= 1 /\ lost' = lost + 1
         PROVE  ErrorsInv'
    <2>1. /\ Categorised' = Failures' + (Pending("error") - e)
          /\ Counted' = Whole(daily, "errors")' + (Pending("usage") - u)
          /\ Categorised = Failures + Pending("error")
          /\ Counted = Whole(daily, "errors") + Pending("usage")
      BY <1>10 DEF Categorised, Counted
    <2>2. Pending("error") \in Nat /\ Pending("usage") \in Nat
      BY <1>3
    <2>3. QED
      BY <1>3, <1>10, <2>1, <2>2 DEF ErrorsInv
  <1> HIDE DEF head, Settles
  <1>11. CASE RecordModelError(c)
    <2>1. head = "error" /\ daily' = daily /\ lost' = lost
      BY <1>11 DEF RecordModelError, Recording, head, usage
    <2>2. Failures' = Failures + 1
      <3> DEFINE at == <<About(c), call[c].category>>
      <3>1. at \in Model \X Category
        BY <1>4 DEF Outcome
      <3>2. errors' = [errors EXCEPT ![at] = @ + 1]
        BY <1>11 DEF RecordModelError
      <3> HIDE DEF at
      <3>3. errors'[at] = errors[at] + 1 /\ \A y \in Model \X Category : y # at => errors'[y] = errors[y]
        BY <3>1, <3>2 DEF TypeOK
      <3>4. \A y \in Model \X Category : errors[y] \in Nat
        BY DEF TypeOK
      <3>5. QED
        BY <3>1, <3>3, <3>4, ErrorRowsFinite, SumGrows DEF Failures
    <2>3. QED
      BY <1>2, <1>3, <1>5, <1>8, <1>10, <2>1, <2>2
  <1>12. CASE RecordUsage(c) \/ UsageCutShort(c)
    <2>1. head = "usage" /\ UNCHANGED errors /\ lost' \in {lost, lost + 1}
      BY <1>12 DEF RecordUsage, UsageCutShort, Recording, Fault, head
    <2>2. ClockMoves /\ CountDaily(c)
      BY <1>12 DEF RecordUsage, UsageCutShort
    <2>3. Whole(daily, "errors")' = Whole(daily, "errors") + UsageOf(call[c])["errors"]
      BY <1>1, <2>2, CountingTotals DEF Figure
    <2>4. UsageOf(call[c])["errors"] = IF call[c].ok THEN 0 ELSE 1
      BY DEF UsageOf
    <2>5. QED
      BY <1>2, <1>3, <1>4, <1>6, <1>9, <1>10, <2>1, <2>3, <2>4
  <1>13. CASE \/ LearnRateLimit(c) \/ RecordRequestAttempt(c) \/ RecordTaskUsage(c)
              \/ RecordCapability(c) \/ LimitCutShort(c) \/ AttemptCutShort(c)
    <2>1. head \notin {"error", "usage"} /\ UNCHANGED <<usage, errors>> /\ lost' \in {lost, lost + 1}
      BY <1>13 DEF LearnRateLimit, RecordRequestAttempt, RecordTaskUsage, RecordCapability,
         LimitCutShort, AttemptCutShort, Recording, Fault, head
    <2>2. QED
      BY <1>2, <1>3, <1>7, <1>8, <1>9, <1>10, <2>1 DEF usage
  <1>14. CASE NothingWritten(c)
    <2>1. UNCHANGED <<usage, errors>> /\ lost' = lost + 1
      BY <1>14 DEF NothingWritten, Fault
    <2>2. Settles(0, 0) \/ Settles(0, 1) \/ Settles(1, 0)
      BY <1>5, <1>6, <1>7
    <2>3. QED
      BY <1>2, <1>3, <1>8, <1>9, <1>10, <2>1, <2>2 DEF usage
  <1>15. QED
    BY <1>11, <1>12, <1>13, <1>14 DEF Record, CutShort

(* Every step keeps the errors and their categories together. *)
LEMMA ErrorsStep ==
    ASSUME TypeOK, CallsDefinite, CallsOrderly, ErrorsInv, [Next]_vars
    PROVE  CallsOrderly' /\ ErrorsInv'
  <1>1. Categorised \in Nat /\ Counted \in Nat /\ lost \in Nat
    BY ErrorsAreNumbers DEF Categorised, Counted
  <1>2. ASSUME call' = call, errors' = errors, Whole(daily, "errors")' = Whole(daily, "errors"),
               lost' \in {lost, lost + 1}
        PROVE  CallsOrderly' /\ ErrorsInv'
    <2>1. Categorised' = Categorised /\ Counted' = Counted
      BY <1>2 DEF Categorised, Counted, Failures, Pending
    <2>2. CallsOrderly'
      BY <1>2 DEF CallsOrderly
    <2>3. lost' \in Nat /\ lost' >= lost
      BY <1>1, <1>2
    <2>4. ErrorsInv'
      <3>1. Categorised <= Counted + lost /\ Counted <= Categorised + lost
        BY DEF ErrorsInv
      <3>2. Categorised' <= Counted' + lost' /\ Counted' <= Categorised' + lost'
        <4>1. \A a, b, l, m \in Nat : a <= b + l /\ m >= l => a <= b + m
          OBVIOUS
        <4>2. Categorised <= Counted + lost' /\ Counted <= Categorised + lost'
          BY <1>1, <2>3, <3>1, <4>1
        <4>3. QED
          BY <2>1, <4>2, Zenon
      <3>3. QED
        BY <3>2 DEF ErrorsInv
    <2>5. QED
      BY <2>2, <2>4
  <1>3. CASE Midnight \/ Synchronise \/ UNCHANGED vars
    <2>1. /\ call' = call /\ errors' = errors /\ daily' = daily
          /\ lost' \in {lost, lost + 1}
      BY <1>3 DEF Midnight, Synchronise, SyncFails, SyncFetched, RecordSync, SyncDone,
         SyncUpsert, LearnUpsert, UpsertFails, SyncStep, Fault, vars, usage
    <2>2. Whole(daily, "errors")' = Whole(daily, "errors")
      BY <2>1 DEF Whole
    <2>3. QED
      BY <1>2, <2>1, <2>2
  <1>4. CASE Open \/ OpenFails
    <2>1. call' = call /\ errors' = errors /\ lost' \in {lost, lost + 1}
      BY <1>4 DEF Open, OpenFails, Fault
    <2>2. Whole(daily, "errors")' = Whole(daily, "errors")
      BY <1>4, MigrationKeepsTotals DEF Open, OpenFails, Figure
    <2>3. QED
      BY <1>2, <2>1, <2>2
  <1>5. CASE Crash
    <2> DEFINE busy == {c \in Caller : call[c] # Idle}
    <2>1. /\ UNCHANGED <<usage, errors>> /\ lost' = lost + 1 + Unfinished
          /\ call' = [c \in Caller |-> Idle]
      BY <1>5 DEF Crash
    <2>2. Orderly(Idle) /\ \A m : ~Has(Idle, m)
      BY DEF Orderly, Distinct, Has, Idle
    <2>3. IsFiniteSet(busy) /\ Unfinished = Cardinality(busy) /\ Unfinished \in Nat
      BY StoreAssumption, FS_Subset, FS_CardinalityType DEF Unfinished
    <2>4. \A m : Pending(m) \in Nat /\ Pending(m) <= Unfinished
      <3>1. \A m : Owing(m) \subseteq busy
        BY <2>2 DEF Owing
      <3>2. QED
        BY <2>3, <3>1, ErrorsAreNumbers, FS_Subset
    <2>5. \A m : Pending(m)' = 0
      <3>1. ASSUME NEW m PROVE {c \in Caller : Has(call'[c], m)} = {}
        BY <2>1, <2>2
      <3>2. QED
        BY <3>1, FS_EmptySet DEF Pending, Has
    <2>6. CallsOrderly'
      BY <2>1, <2>2 DEF CallsOrderly
    <2>7. Failures' = Failures /\ Whole(daily, "errors")' = Whole(daily, "errors")
      BY <2>1 DEF Failures, Whole, usage
    <2>8. /\ Categorised' = Failures /\ Categorised = Failures + Pending("error")
          /\ Counted' = Whole(daily, "errors") /\ Counted = Whole(daily, "errors") + Pending("usage")
          /\ Failures \in Nat /\ Whole(daily, "errors") \in Nat
      <3>1. Failures \in Nat /\ Whole(daily, "errors") \in Nat
        BY ErrorsAreNumbers
      <3>2. QED
        BY <2>5, <2>7, <3>1 DEF Categorised, Counted
    <2>9. /\ Pending("error") \in Nat /\ Pending("error") <= Unfinished
          /\ Pending("usage") \in Nat /\ Pending("usage") <= Unfinished
      BY <2>4
    <2>10. ErrorsInv'
      BY <1>1, <2>1, <2>3, <2>8, <2>9 DEF ErrorsInv
    <2>11. QED
      BY <2>6, <2>10
  <1>6. QED
    BY <1>3, <1>4, <1>5, BeginErrors, MethodErrors DEF Next

(* Nothing is counted and nothing owed at first.                           *)
LEMMA ErrorsBegin == Init => CallsOrderly /\ ErrorsInv
  <1> SUFFICES ASSUME Init PROVE CallsOrderly /\ ErrorsInv
    OBVIOUS
  <1>1. /\ errors = [r \in Model \X Category |-> 0] /\ lost = 0
        /\ call = [c \in Caller |-> Idle] /\ daily = [r \in Rows |-> Unused]
    BY DEF Init, InitTables, Rows
  <1>2. Orderly(Idle) /\ \A m : ~Has(Idle, m)
    BY DEF Orderly, Distinct, Has, Idle
  <1>3. CallsOrderly
    BY <1>1, <1>2 DEF CallsOrderly
  <1>4. Failures = 0
    BY <1>1, ErrorRowsFinite, SumOfZeros DEF Failures
  <1>5. Whole(daily, "errors") = 0
    <2>1. \A r \in Rows : Column(daily, "errors")[r] = 0
      BY <1>1 DEF Column, Unused
    <2>2. QED
      BY <2>1, RowsFinite, SumOfZeros DEF Whole
  <1>6. \A m : Pending(m) = 0
    <2>1. ASSUME NEW m PROVE {c \in Caller : Has(call[c], m)} = {}
      BY <1>1, <1>2
    <2>2. QED
      BY <2>1, FS_EmptySet DEF Pending, Has
  <1>7. Categorised = 0 /\ Counted = 0
    BY <1>4, <1>5, <1>6 DEF Categorised, Counted
  <1>8. QED
    BY <1>1, <1>3, <1>7 DEF ErrorsInv

(* The summary of all dates is the whole table. *)
LEMMA ErrorsFollow == TypeOK /\ ErrorsInv => ErrorsFollowUsage
  <1>1. {r \in Rows : r[2] >= 1} = Rows
    BY DEF Rows, Day
  <1>2. UsageSummary(0, "errors") = Whole(daily, "errors")
    BY <1>1 DEF UsageSummary, Total, Whole, Rows
  <1>3. QED
    BY <1>2 DEF ErrorsInv, ErrorsFollowUsage, Categorised, Counted

-----------------------------------------------------------------------------
(* The inductive invariant *)

StoreInv ==
    /\ TypeOK /\ CallsDefinite /\ CallsOrderly
    /\ RowsSplit /\ DeploymentMatchesAttempts /\ TotalsInv /\ ErrorsInv

(* The store's invariant holds in a new database. *)
LEMMA StoreInit == Init => StoreInv
  <1> SUFFICES ASSUME Init PROVE StoreInv
    OBVIOUS
  <1> USE StoreAssumption DEF Init, InitTables
  <1>1. TypeOK
    <2>1. call \in [Caller -> Outcome]
      BY IdleOutcome
    <2>2. /\ daily \in [Model \X Day -> Usage] /\ hourly \in [Model \X Day -> Usage]
          /\ lifetime \in Usage
      BY UnusedRow
    <2>3. sync \in [at : {"idle", "upsert", "learn"}, models : SUBSET Model, left : SUBSET Model,
                    updated : Nat, stated : [Model -> LimitValue \cup {Null}]]
      BY DEF NotSyncing
    <2>4. /\ attempts \in [Deployment -> Seq(BOOLEAN)]
          /\ tasks \in [Model \X (Agent \cup {NoAgent}) -> Seq(Nat)]
          /\ deployment \in [Deployment -> [ok : Nat, bad : Nat, streak : Nat, cooling : BOOLEAN]]
      BY DEF Untried
    <2>5. /\ errors \in [Model \X Category -> Nat] /\ observed \in [Model -> Nat]
          /\ limit \in [Model -> [LimitType -> Nat \cup {Null}]]
          /\ known \subseteq Model /\ learned \subseteq Model \X LimitType \X Nat
          /\ status \in [error : BOOLEAN, found : Nat, updated : Nat]
          /\ up \in BOOLEAN /\ begun \in Nat /\ lost \in Nat
      OBVIOUS
    <2>6. today \in Day
      BY DEF Day
    <2>7. QED
      BY <2>1, <2>2, <2>3, <2>4, <2>5, <2>6 DEF TypeOK
  <1>2. CallsDefinite
    BY DEF CallsDefinite, Definite, Idle
  <1>3. RowsSplit
    BY UnusedRow DEF RowsSplit
  <1>4. DeploymentMatchesAttempts
    BY DEF DeploymentMatchesAttempts, Untried, EndsWithFailures
  <1>5. TotalsInv
    BY TotalsBegin
  <1>6. CallsOrderly /\ ErrorsInv
    BY ErrorsBegin
  <1>7. QED
    BY <1>1, <1>2, <1>3, <1>4, <1>5, <1>6 DEF StoreInv

(* The inductive invariant of the store.                                   *)
THEOREM StoreInvariance == Spec => []StoreInv
  <1>1. StoreInv /\ [Next]_vars => StoreInv'
    BY TypesStep, SplitStep, MatchStep, TotalsStep, ErrorsStep DEF StoreInv
  <1>2. QED
    BY StoreInit, <1>1, PTL DEF Spec

(* The tables of the database have the types of its schema, whatever is    *)
(* cut short.                                                              *)
THEOREM StoreTypes == Spec => []TypeOK
  <1>1. StoreInv => TypeOK
    BY DEF StoreInv
  <1>2. QED
    BY <1>1, StoreInvariance, PTL

(* Tokens are reported or estimated, never both, in the rows of the hours  *)
(* and of the lifetime, through crashes and any number of migrations.      *)
THEOREM TokensStaySplit == Spec => []TokensSplit
  <1>1. StoreInv => TokensSplit
    BY DEF StoreInv, RowsSplit, RowSplit, TokensSplit
  <1>2. QED
    BY <1>1, StoreInvariance, PTL

(* The row of a deployment agrees with the trace of its attempts.          *)
THEOREM AttemptsMatch == Spec => []DeploymentMatchesAttempts
  <1>1. StoreInv => DeploymentMatchesAttempts
    BY DEF StoreInv
  <1>2. QED
    BY <1>1, StoreInvariance, PTL

(* Lifetime, hours and days count the same requests, and no longer period  *)
(* shows fewer, whatever is cut short and however often the gateway starts *)
(* again.                                                                  *)
THEOREM TotalsStayNested == Spec => []TotalsNest
  <1>1. StoreInv => TotalsNest
    BY TotalsFollow DEF StoreInv
  <1>2. QED
    BY <1>1, StoreInvariance, PTL

(* The table of errors and the table of usage, written by two methods that *)
(* may each fail, count the same failures up to those still being recorded *)
(* and those cut short.                                                    *)
THEOREM ErrorsStayTogether == Spec => []ErrorsFollowUsage
  <1>1. StoreInv => ErrorsFollowUsage
    BY ErrorsFollow DEF StoreInv
  <1>2. QED
    BY <1>1, StoreInvariance, PTL

-----------------------------------------------------------------------------
(* Limits *)

Tightens(m, t) == limit[m][t] # Null =>
    /\ limit'[m][t] # Null
    /\ limit'[m][t] > limit[m][t] => sync.at # "idle" /\ sync.stated[m] # Null

(* upsert_model changes a limit of one model, and only for a stated one.   *)
LEMMA UpsertTightens ==
    ASSUME TypeOK, NEW n \in Model, NEW rpm \in Nat \cup {Null}, NEW rpd \in Nat \cup {Null},
           UpsertLimits(n, rpm, rpd),
           rpm # Null \/ rpd # Null => sync.at # "idle" /\ sync.stated[n] # Null,
           NEW m \in Model, NEW t \in LimitType
    PROVE  Tightens(m, t)
  <1>1. limit[m][t] \in Nat \cup {Null}
    BY DEF TypeOK
  <1>2. CASE m # n
    <2>1. limit'[m][t] = limit[m][t]
      BY <1>2 DEF UpsertLimits, TypeOK
    <2>2. QED
      BY <1>1, <2>1, StoreAssumption DEF Tightens
  <1>3. CASE m = n
    <2> DEFINE new == IF t = "rpm" THEN rpm ELSE rpd
    <2>1. limit'[m][t] = Coalesce(new, limit[m][t])
      BY <1>3 DEF UpsertLimits, TypeOK
    <2>2. CASE new = Null
      BY <1>1, <2>1, <2>2, StoreAssumption DEF Coalesce, Tightens
    <2>3. CASE new # Null
      BY <1>3, <2>1, <2>3 DEF Coalesce, Tightens
    <2>4. QED
      BY <2>2, <2>3
  <1>4. QED
    BY <1>2, <1>3

(* learn_rate_limit takes a limit that is new or tighter.                  *)
LEMMA LearnTightens ==
    ASSUME StoreInv, NEW c \in Caller, LearnRateLimit(c), NEW m \in Model, NEW t \in LimitType
    PROVE  Tightens(m, t)
  <1>1. limit[m][t] \in Nat \cup {Null}
    BY DEF StoreInv, TypeOK
  <1>2. call[c].stated \in Nat
    <2>1. call[c] \in Outcome
      BY DEF StoreInv, TypeOK
    <2>2. 1 \in 1..Len(call[c].todo) /\ call[c].todo[1] = "limit"
      BY <2>1 DEF LearnRateLimit, Recording, Outcome
    <2>3. Definite(call[c])
      BY DEF StoreInv, CallsDefinite
    <2>4. QED
      BY <2>2, <2>3, StoreAssumption DEF Definite
  <1> DEFINE old == limit[About(c)][call[c].type]
             new == IF About(c) \in known /\ (IF old = Null THEN TRUE ELSE old > call[c].stated)
                    THEN call[c].stated ELSE old
  <1>3. limit' = [limit EXCEPT ![About(c)][call[c].type] = new]
    BY DEF LearnRateLimit
  <1>4. \/ limit'[m][t] = limit[m][t]
        \/ limit'[m][t] = new /\ old = limit[m][t]
    BY <1>3 DEF StoreInv, TypeOK
  <1>5. CASE limit'[m][t] = limit[m][t]
    BY <1>1, <1>5, StoreAssumption DEF Tightens
  <1>6. CASE limit'[m][t] = new /\ old = limit[m][t]
    BY <1>1, <1>2, <1>6, StoreAssumption DEF Tightens
  <1>7. QED
    BY <1>4, <1>5, <1>6

(* Only a catalogue that states a limit may raise what is known.           *)
THEOREM LimitsTighten == Spec => LimitsOnlyTighten
  <1> DEFINE Tighter == \A m \in Model, t \in LimitType : limit[m][t] # Null =>
                /\ limit'[m][t] # Null
                /\ limit'[m][t] > limit[m][t] => sync.at # "idle" /\ sync.stated[m] # Null
  <1>1. StoreInv /\ [Next]_vars => [Tighter]_vars
    <2> SUFFICES ASSUME StoreInv, Next, NEW m \in Model, NEW t \in LimitType
                 PROVE  Tightens(m, t)
      BY DEF Tightens
    <2>1. limit[m][t] \in Nat \cup {Null}
      BY DEF StoreInv, TypeOK
    <2>2. ASSUME limit' = limit PROVE Tightens(m, t)
      BY <2>1, <2>2, StoreAssumption DEF Tightens
    <2>3. ASSUME NEW c \in Caller, LearnRateLimit(c) PROVE Tightens(m, t)
      BY <2>3, LearnTightens
    <2>4. ASSUME NEW n \in Model, SyncUpsert(n) \/ LearnUpsert(n) PROVE Tightens(m, t)
      <3>1. sync.stated[n] \in Nat \cup {Null}
        BY StoreAssumption DEF StoreInv, TypeOK
      <3>2. CASE SyncUpsert(n)
        <4>1. UpsertLimits(n, sync.stated[n], Null) /\ sync.at = "upsert"
          BY <3>2 DEF SyncUpsert
        <4>2. QED
          BY <3>1, <4>1, UpsertTightens DEF StoreInv
      <3>3. CASE LearnUpsert(n)
        <4> DEFINE rpd == IF sync.stated[n] = Null THEN Null ELSE CatalogueRpd
        <4>1. UpsertLimits(n, sync.stated[n], rpd) /\ sync.at = "learn"
          BY <3>3 DEF LearnUpsert
        <4>2. rpd \in Nat \cup {Null} /\ (rpd # Null => sync.stated[n] # Null)
          BY StoreAssumption
        <4> HIDE DEF rpd
        <4>3. QED
          BY <3>1, <4>1, <4>2, UpsertTightens DEF StoreInv
      <3>4. QED
        BY <2>4, <3>2, <3>3
    <2>5. ASSUME NEW c \in Caller,
                 \/ RecordModelError(c) \/ RecordUsage(c) \/ RecordRequestAttempt(c)
                 \/ RecordTaskUsage(c) \/ RecordCapability(c) \/ CutShort(c)
          PROVE  limit' = limit
      BY <2>5 DEF RecordModelError, RecordUsage, RecordRequestAttempt, RecordTaskUsage,
         RecordCapability, CutShort, NothingWritten, UsageCutShort, LimitCutShort,
         AttemptCutShort, limits
    <2>6. ASSUME NEW c \in Caller, NEW d \in Deployment,
                 Answered(c, d) \/ Failed(c, d) \/ RescueFailed(c, d) \/ Adapted(c, d)
          PROVE  limit' = limit
      BY <2>6 DEF Answered, Failed, RescueFailed, Adapted, Begin, limits
    <2>7. ASSUME \/ Midnight \/ Crash \/ Open \/ OpenFails
                 \/ SyncFails \/ SyncFetched \/ RecordSync \/ SyncDone
                 \/ \E n \in Model : UpsertFails(n)
          PROVE  limit' = limit
      BY <2>7 DEF Midnight, Crash, Open, OpenFails, SyncFails, SyncFetched, RecordSync, SyncDone,
         UpsertFails, limits
    <2>8. QED
      BY <2>2, <2>3, <2>4, <2>5, <2>6, <2>7 DEF Next, Record, Synchronise
  <1>2. QED
    BY StoreInvariance, <1>1, PTL DEF Spec, LimitsOnlyTighten

=============================================================================
