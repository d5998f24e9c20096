---------------------------- MODULE KeyPoolProofs ----------------------------
(***************************************************************************)
(* What is proved of KeyPool for every set of keys and callers and every   *)
(* value of the limits and durations.  The argument is the inductive       *)
(* invariant IInv of KeyPool.  It is regrouped here into what it says of   *)
(* the records, of the budgets and of the callers (RecordsOK, BudgetsOK,   *)
(* CallersOK), because every action is made of operators that act on one   *)
(* of the three: first come the lemmas about those operators, then one     *)
(* step per action that only says which operators it applies.              *)
(***************************************************************************)
EXTENDS KeyPool, TLAPS

RecordOK(s, p) ==
    /\ s \in KeyState
    /\ p \in 0..CooldownSeconds
    /\ Admissible(s) => s.cooldown = NoDeadline
    /\ p > 0 => s.status = "cooldown" /\ s.cooldown = p

EntryOK(e, g, limit, a) ==
    /\ e \in Entry
    /\ g \in 0..CountCap
    /\ IF e.current THEN g <= e.count ELSE g = 0
    /\ e.source = "config" => limit # NoLimit /\ e.limit = limit /\ g <= limit
    /\ a = "rpm" /\ limit # NoLimit => e.source = "config"

BudgetOK(b, g, limit) ==
    /\ b \in Budget
    /\ g \in [Axis -> 0..CountCap]
    /\ \A a \in Axis : EntryOK(b[a], g[a], limit[a], a)

RecordsOK ==
    /\ keys \in [Key -> KeyState]
    /\ probe \in [Key -> 0..CooldownSeconds]
    /\ \A k \in Key : RecordOK(keys[k], probe[k])

BudgetsOK ==
    /\ budget \in [Key -> Budget]
    /\ granted \in [Key -> [Axis -> 0..CountCap]]
    /\ \A k \in Key : BudgetOK(budget[k], granted[k], ConfiguredLimit[k])

CallersOK ==
    /\ clock \in [Axis -> Nat]
    /\ pc \in [Caller -> {"idle", "sent", "learn"}]
    /\ holds \in [Caller -> Key \cup {NoKey}]
    /\ CallersHoldKeys

(* The regrouping says neither more nor less than the invariant.           *)
LEMMA Regrouped == IInv <=> RecordsOK /\ BudgetsOK /\ CallersOK
  <1>1. ASSUME IInv PROVE RecordsOK
    BY <1>1 DEF IInv, TypeOK, RecordsOK, RecordOK, ProbedKeyIsParked,
       SelectableHasNoDeadline
  <1>2. ASSUME IInv PROVE BudgetsOK
    <2>1. budget \in [Key -> Budget] /\ granted \in [Key -> [Axis -> 0..CountCap]]
      BY <1>2 DEF IInv, TypeOK
    <2>2. ASSUME NEW k \in Key, NEW a \in Axis
          PROVE  EntryOK(budget[k][a], granted[k][a], ConfiguredLimit[k][a], a)
      <3>1. budget[k][a] \in Entry /\ granted[k][a] \in 0..CountCap
        BY <2>1 DEF Budget
      <3>2. QED
        BY <1>2, <3>1 DEF IInv, EntryOK, CountsCoverGrants, ConfigMarkIsTrue,
           ConfiguredLimitRespected
    <2>3. QED
      BY <2>1, <2>2 DEF BudgetsOK, BudgetOK
  <1>3. ASSUME RecordsOK, BudgetsOK, CallersOK PROVE IInv
    <2>1. TypeOK
      BY <1>3 DEF TypeOK, RecordsOK, BudgetsOK, CallersOK
    <2>2. \A k \in Key, a \in Axis :
             EntryOK(budget[k][a], granted[k][a], ConfiguredLimit[k][a], a)
      BY <1>3 DEF BudgetsOK, BudgetOK
    <2>3. CountsCoverGrants /\ ConfigMarkIsTrue /\ ConfiguredLimitRespected
      BY <2>2 DEF EntryOK, CountsCoverGrants, ConfigMarkIsTrue, ConfiguredLimitRespected
    <2>4. ProbedKeyIsParked /\ SelectableHasNoDeadline
      BY <1>3 DEF RecordsOK, RecordOK, ProbedKeyIsParked, SelectableHasNoDeadline
    <2>5. QED
      BY <1>3, <2>1, <2>3, <2>4 DEF IInv, CallersOK
  <1>4. IInv => CallersOK
    BY DEF IInv, TypeOK, CallersOK
  <1>5. QED
    BY <1>1, <1>2, <1>3, <1>4

(* The same regrouping of the invariant after a step.                      *)
LEMMA RegroupedNext == IInv' <=> RecordsOK' /\ BudgetsOK' /\ CallersOK'
  BY Regrouped, PTL

-----------------------------------------------------------------------------
(* The operators on a record.                                              *)

(* The values the operators write are of the type of the field.            *)
LEMMA RecordValues ==
    /\ {"available", "probing", "rate_limited", "cooldown", "disabled"} = Status
    /\ NoDeadline \in Deadline
    /\ CooldownSeconds \in Deadline
    /\ RealModelCooldown \in Deadline
    /\ 0 \in 0..FailCap
    /\ \A n \in 0..FailCap : Bump(n) \in 0..FailCap
    /\ \A d \in Deadline : (IF d > 0 THEN d - 1 ELSE d) \in Deadline
    /\ \A retry \in Retry : /\ retry # NoRetry => retry \in Deadline
                            /\ retry > 0 => retry \in Deadline
    /\ \A s \in KeyState : Escalation[Tier(s)] \in Deadline
  <1> USE KeyStateAssumption
  <1>1. ASSUME NEW n \in 0..FailCap PROVE Bump(n) \in 0..FailCap
    BY DEF Bump
  <1>2. ASSUME NEW d \in Deadline PROVE (IF d > 0 THEN d - 1 ELSE d) \in Deadline
    BY DEF Deadline, NoDeadline
  <1>3. ASSUME NEW retry \in Retry
        PROVE  (retry # NoRetry => retry \in Deadline) /\ (retry > 0 => retry \in Deadline)
    BY DEF Retry, NoRetry, Deadline, NoDeadline
  <1>4. ASSUME NEW s \in KeyState PROVE Escalation[Tier(s)] \in Deadline
    <2>1. s.failCount \in 0..FailCap
      BY DEF KeyState
    <2>2. Tier(s) \in 0..MaxTier
      BY <2>1 DEF Tier
    <2>3. QED
      BY <2>2 DEF Deadline
  <1>5. QED
    BY <1>1, <1>2, <1>3, <1>4 DEF Status, Deadline, NoDeadline

(* Every operation of KeyStates maps records to records.                   *)
LEMMA RecordTypes ==
    ASSUME NEW s \in KeyState
    PROVE  /\ Age(s) \in KeyState
           /\ Recover(s) \in KeyState
           /\ BeginProbe(s) \in KeyState
           /\ Succeed(s) \in KeyState
           /\ FailAuth(s) \in KeyState
           /\ FailGeneral(s) \in KeyState
           /\ ForceCooldown(s) \in KeyState
           /\ FailRealModelRateLimited(s) \in KeyState
           /\ RestoreByHand(s) \in KeyState
           /\ \A ms \in SUBSET Model : WithModels(s, ms) \in KeyState
           /\ \A retry \in Retry : /\ FailRateLimited(s, retry) \in KeyState
                                   /\ FailRealModelUnavailable(s, retry) \in KeyState
  <1> USE RecordValues DEF KeyState
  <1>1. Age(s) \in KeyState
    BY DEF Age
  <1>2. Recover(s) \in KeyState
    BY DEF Recover
  <1>3. BeginProbe(s) \in KeyState
    BY DEF BeginProbe
  <1>4. Succeed(s) \in KeyState
    BY DEF Succeed
  <1>5. FailAuth(s) \in KeyState
    BY DEF FailAuth
  <1>6. FailGeneral(s) \in KeyState
    BY DEF FailGeneral
  <1>7. ForceCooldown(s) \in KeyState
    BY DEF ForceCooldown
  <1>8. FailRealModelRateLimited(s) \in KeyState
    BY DEF FailRealModelRateLimited
  <1>9. RestoreByHand(s) \in KeyState
    BY DEF RestoreByHand
  <1>10. ASSUME NEW ms \in SUBSET Model PROVE WithModels(s, ms) \in KeyState
    BY DEF WithModels
  <1>11. ASSUME NEW retry \in Retry PROVE FailRateLimited(s, retry) \in KeyState
    BY DEF FailRateLimited
  <1>12. ASSUME NEW retry \in Retry PROVE FailRealModelUnavailable(s, retry) \in KeyState
    BY DEF FailRealModelUnavailable
  <1>13. QED
    BY <1>1, <1>2, <1>3, <1>4, <1>5, <1>6, <1>7, <1>8, <1>9, <1>10, <1>11, <1>12

(* Time, recovery, probing and discovery keep a probed key parked.         *)
LEMMA RecordSteps ==
    ASSUME NEW s \in KeyState, NEW p \in 0..CooldownSeconds, RecordOK(s, p)
    PROVE  /\ RecordOK(Age(s), IF p > 0 THEN p - 1 ELSE p)
           /\ RecordOK(Recover(s), p)
           /\ RecordOK(BeginProbe(s), IF s.status = "probing" THEN CooldownSeconds ELSE p)
           /\ \A ms \in SUBSET Model : RecordOK(WithModels(s, ms), p)
  <1>1. RecordOK(Age(s), IF p > 0 THEN p - 1 ELSE p)
    <2>1. Age(s).status = s.status
      BY DEF Age, KeyState
    <2>2. Age(s).cooldown = IF s.cooldown > 0 THEN s.cooldown - 1 ELSE s.cooldown
      BY DEF Age, KeyState
    <2>3. QED
      BY <2>1, <2>2, RecordTypes, KeyStateAssumption DEF RecordOK, Admissible, NoDeadline
  <1>2. RecordOK(Recover(s), p)
    <2>1. Admissible(Recover(s)) => Recover(s).cooldown = NoDeadline
      BY DEF RecordOK, Recover, Admissible, KeyState
    <2>2. p > 0 => Recover(s) = s
      BY DEF RecordOK, Recover
    <2>3. QED
      BY <2>1, <2>2, RecordTypes DEF RecordOK
  <1>3. RecordOK(BeginProbe(s), IF s.status = "probing" THEN CooldownSeconds ELSE p)
    <2>1. CASE s.status = "probing"
      <3>1. BeginProbe(s).status = "cooldown" /\ BeginProbe(s).cooldown = CooldownSeconds
        BY <2>1 DEF BeginProbe, KeyState
      <3>2. QED
        BY <2>1, <3>1, RecordTypes, KeyStateAssumption DEF RecordOK, Admissible
    <2>2. CASE s.status # "probing"
      BY <2>2 DEF BeginProbe
    <2>3. QED
      BY <2>1, <2>2
  <1>4. ASSUME NEW ms \in SUBSET Model
        PROVE  RecordOK(WithModels(s, ms), p)
    <2>1. Admissible(WithModels(s, ms)) => WithModels(s, ms).cooldown = NoDeadline
      BY DEF RecordOK, WithModels, Admissible, KeyState
    <2>2. p > 0 => /\ WithModels(s, ms).status = s.status
                   /\ WithModels(s, ms).cooldown = s.cooldown
      BY DEF RecordOK, WithModels, KeyState
    <2>3. QED
      BY <2>1, <2>2, RecordTypes DEF RecordOK
  <1>5. QED
    BY <1>1, <1>2, <1>3, <1>4

(* Every report answers the probe.                                         *)
LEMMA RecordReports ==
    ASSUME NEW s \in KeyState, NEW p \in 0..CooldownSeconds, RecordOK(s, p)
    PROVE  /\ RecordOK(Succeed(s), 0)
           /\ RecordOK(FailAuth(s), 0)
           /\ RecordOK(FailGeneral(s), 0)
           /\ RecordOK(ForceCooldown(s), 0)
           /\ RecordOK(FailRealModelRateLimited(s), 0)
           /\ RecordOK(RestoreByHand(s), 0)
           /\ \A retry \in Retry : /\ RecordOK(FailRateLimited(s, retry), 0)
                                   /\ RecordOK(FailRealModelUnavailable(s, retry), 0)
  <1>1. ASSUME NEW t \in KeyState, Admissible(t) => t.cooldown = NoDeadline
        PROVE  RecordOK(t, 0)
    BY <1>1, KeyStateAssumption DEF RecordOK
  <1> USE DEF RecordOK, Admissible, KeyState
  <1>2. Admissible(Succeed(s)) => Succeed(s).cooldown = NoDeadline
    BY DEF Succeed, PromotedBySuccess, Status
  <1>3. Admissible(FailAuth(s)) => FailAuth(s).cooldown = NoDeadline
    BY DEF FailAuth
  <1>4. Admissible(FailGeneral(s)) => FailGeneral(s).cooldown = NoDeadline
    BY DEF FailGeneral
  <1>5. Admissible(ForceCooldown(s)) => ForceCooldown(s).cooldown = NoDeadline
    BY DEF ForceCooldown
  <1>6. Admissible(FailRealModelRateLimited(s)) => FailRealModelRateLimited(s).cooldown = NoDeadline
    BY DEF FailRealModelRateLimited
  <1>7. Admissible(RestoreByHand(s)) => RestoreByHand(s).cooldown = NoDeadline
    BY DEF RestoreByHand
  <1>8. ASSUME NEW retry \in Retry
        PROVE  /\ ~Admissible(FailRateLimited(s, retry))
               /\ ~Admissible(FailRealModelUnavailable(s, retry))
    BY DEF FailRateLimited, FailRealModelUnavailable
  <1> HIDE DEF RecordOK, Admissible, KeyState
  <1>9. QED
    BY <1>1, <1>2, <1>3, <1>4, <1>5, <1>6, <1>7, <1>8, RecordTypes

-----------------------------------------------------------------------------
(* The operators on a budget.                                              *)

(* Saturating addition stays in range and never falls.                     *)
LEMMA SatAddType ==
    ASSUME NEW x \in 0..CountCap, NEW y \in 0..CountCap
    PROVE  /\ SatAdd(x, y) \in 0..CountCap
           /\ SatAdd(x, y) >= x
  BY BudgetAssumption DEF SatAdd

(* Every operation of RateBudgets on an entry maps entries to entries.     *)
LEMMA EntryTypes ==
    ASSUME NEW e \in Entry
    PROVE  /\ ResetEntry(e) \in Entry
           /\ \A observed \in 0..CountCap :
                 /\ MarkObserved(e, Tightened(e.limit, observed)) \in Entry
                 /\ Observe(e, observed) \in Entry
           /\ \A value \in 0..CountCap : SetLimit(e, value, "official_api") \in Entry
           /\ [e EXCEPT !.current = FALSE] \in Entry
           /\ [e EXCEPT !.count = SatAdd(e.count, 1)] \in Entry
  <1>1. 0 \in 0..CountCap /\ {"observed", "official_api"} \subseteq Source
    BY BudgetAssumption DEF Source
  <1>2. ASSUME NEW observed \in 0..CountCap
        PROVE  Tightened(e.limit, observed) \in Limit
    BY DEF Tightened, Limit, Entry
  <1>3. ResetEntry(e) \in Entry
    BY <1>1 DEF ResetEntry, Entry
  <1>4. ASSUME NEW observed \in 0..CountCap
        PROVE  MarkObserved(e, Tightened(e.limit, observed)) \in Entry
    BY <1>1, <1>2 DEF MarkObserved, Entry
  <1>5. ASSUME NEW observed \in 0..CountCap
        PROVE  Observe(e, observed) \in Entry
    BY <1>4 DEF Observe
  <1>6. ASSUME NEW value \in 0..CountCap
        PROVE  SetLimit(e, value, "official_api") \in Entry
    <2>1. value \in Limit
      BY DEF Limit
    <2>2. QED
      BY <1>1, <2>1 DEF SetLimit, Entry
  <1>7. [e EXCEPT !.current = FALSE] \in Entry
    BY DEF Entry
  <1>8. [e EXCEPT !.count = SatAdd(e.count, 1)] \in Entry
    <2>1. SatAdd(e.count, 1) \in 0..CountCap
      BY BudgetAssumption DEF SatAdd, Entry
    <2>2. QED
      BY <2>1 DEF Entry
  <1>9. QED
    BY <1>3, <1>4, <1>5, <1>6, <1>7, <1>8

(* Starting a window, counting, learning from an observation and taking an *)
(* official limit leave the grants covered and the configured limit in     *)
(* force.                                                                  *)
LEMMA EntrySteps ==
    ASSUME NEW e \in Entry, NEW g \in 0..CountCap, NEW limit, NEW a,
           EntryOK(e, g, limit, a)
    PROVE  /\ EntryOK(ResetEntry(e), g, limit, a)
           /\ ResetEntry(e).current
           /\ EntryOK([e EXCEPT !.count = SatAdd(e.count, 1)], g, limit, a)
           /\ \A observed \in 0..CountCap : EntryOK(Observe(e, observed), g, limit, a)
           /\ a # "rpm" => \A observed \in 0..CountCap :
                 EntryOK(MarkObserved(e, Tightened(e.limit, observed)), g, limit, a)
           /\ \A value \in 0..CountCap :
                 EntryOK(SetLimit(e, value, "official_api"), g, limit, a)
           /\ EntryOK([e EXCEPT !.current = FALSE], 0, limit, a)
  <1>1. EntryOK(ResetEntry(e), g, limit, a) /\ ResetEntry(e).current
    <2>1. CASE e.current
      BY <2>1 DEF ResetEntry
    <2>2. CASE ~e.current
      <3>1. g = 0
        BY <2>2 DEF EntryOK
      <3>2. /\ ResetEntry(e).count = 0
            /\ ResetEntry(e).current = TRUE
            /\ ResetEntry(e).limit = e.limit
            /\ ResetEntry(e).source = e.source
        BY <2>2 DEF ResetEntry, Entry
      <3>3. ResetEntry(e) \in Entry
        BY EntryTypes
      <3>4. g <= ResetEntry(e).count
        BY <3>1, <3>2
      <3>5. EntryOK(ResetEntry(e), g, limit, a)
        BY <3>2, <3>3, <3>4 DEF EntryOK
      <3>6. QED
        BY <3>2, <3>5
    <2>3. QED
      BY <2>1, <2>2
  <1>2. EntryOK([e EXCEPT !.count = SatAdd(e.count, 1)], g, limit, a)
    <2> DEFINE f == [e EXCEPT !.count = SatAdd(e.count, 1)]
    <2>1. /\ f.count = SatAdd(e.count, 1)
          /\ f.current = e.current
          /\ f.limit = e.limit
          /\ f.source = e.source
      BY DEF Entry
    <2>2. SatAdd(e.count, 1) >= e.count /\ e.count \in 0..CountCap
      BY BudgetAssumption DEF SatAdd, Entry
    <2>3. f \in Entry /\ f.count \in 0..CountCap
      BY EntryTypes DEF Entry
    <2> HIDE DEF f
    <2>4. EntryOK(f, g, limit, a)
      BY <2>1, <2>2, <2>3 DEF EntryOK
    <2>5. QED
      BY <2>4 DEF f
  <1>3. ASSUME NEW l \in Limit, MarkObserved(e, l) \in Entry,
               a # "rpm" \/ CanObserve(e), l = NoLimit => e.limit = NoLimit
        PROVE  EntryOK(MarkObserved(e, l), g, limit, a)
    <2> DEFINE f == MarkObserved(e, l)
    <2>1. f.count = e.count /\ f.current = e.current
      BY DEF MarkObserved, Entry
    <2>2. \/ f.source = "observed"
          \/ f.source = e.source /\ f.limit = e.limit
      BY <1>3 DEF MarkObserved, Entry
    <2>3. a = "rpm" => limit = NoLimit
      BY <1>3 DEF EntryOK, CanObserve
    <2>4. QED
      BY <1>3, <2>1, <2>2, <2>3 DEF EntryOK
  <1>4. ASSUME NEW observed \in 0..CountCap
        PROVE  /\ Tightened(e.limit, observed) \in Limit
               /\ Tightened(e.limit, observed) = NoLimit => e.limit = NoLimit
    BY DEF Tightened, Limit, Entry, NoLimit
  <1>5. ASSUME NEW observed \in 0..CountCap
        PROVE  EntryOK(Observe(e, observed), g, limit, a)
    BY <1>3, <1>4, EntryTypes DEF Observe
  <1>6. ASSUME a # "rpm", NEW observed \in 0..CountCap
        PROVE  EntryOK(MarkObserved(e, Tightened(e.limit, observed)), g, limit, a)
    BY <1>3, <1>4, <1>6, EntryTypes
  <1>7. ASSUME NEW value \in 0..CountCap
        PROVE  EntryOK(SetLimit(e, value, "official_api"), g, limit, a)
    <2>1. CASE e.source = "config" \/ value = 0
      BY <2>1 DEF SetLimit
    <2>2. CASE e.source # "config" /\ value # 0
      <3> DEFINE f == SetLimit(e, value, "official_api")
      <3>1. f.count = e.count /\ f.current = e.current /\ f.source = "official_api"
        BY <2>2 DEF SetLimit, Entry
      <3>2. QED
        BY <2>2, <3>1, EntryTypes DEF EntryOK
    <2>3. QED
      BY <2>1, <2>2
  <1>8. EntryOK([e EXCEPT !.current = FALSE], 0, limit, a)
    <2> DEFINE f == [e EXCEPT !.current = FALSE]
    <2>1. f.limit = e.limit /\ f.source = e.source /\ f.current = FALSE /\ f \in Entry
      BY EntryTypes DEF Entry
    <2>2. e.source = "config" => limit # NoLimit /\ e.limit = limit /\ g <= limit
      BY DEF EntryOK
    <2>3. e.limit \in Limit
      BY DEF Entry
    <2> HIDE DEF f
    <2>4. e.source = "config" => 0 <= limit
      BY <2>2, <2>3 DEF Limit, NoLimit
    <2>5. EntryOK(f, 0, limit, a)
      BY <2>1, <2>2, <2>4, BudgetAssumption DEF EntryOK
    <2>6. QED
      BY <2>5 DEF f
  <1>9. QED
    BY <1>1, <1>2, <1>5, <1>6, <1>7, <1>8

(* The operators on a whole budget, an axis at a time.                     *)
LEMMA BudgetSteps ==
    ASSUME NEW k \in Key, NEW b, NEW g, BudgetOK(b, g, ConfiguredLimit[k])
    PROVE  /\ BudgetOK(ResetWindows(b), g, ConfiguredLimit[k])
           /\ BudgetOK(Charge(b), g, ConfiguredLimit[k])
           /\ \A retry \in Retry : BudgetOK(LearnFrom429(b, retry), g, ConfiguredLimit[k])
           /\ \A limit \in Limit, remaining \in Limit :
                 BudgetOK(LearnFromHeaders(b, limit, remaining), g, ConfiguredLimit[k])
           /\ \A value \in [Axis -> 0..CountCap] :
                 BudgetOK([a \in Axis |-> SetLimit(b[a], value[a], "official_api")],
                          g, ConfiguredLimit[k])
           /\ \A ended \in SUBSET Axis :
                 BudgetOK(Elapse(b, ended),
                          [a \in Axis |-> IF a \in ended THEN 0 ELSE g[a]],
                          ConfiguredLimit[k])
  <1> DEFINE L == ConfiguredLimit[k]
             r == ResetWindows(b)
  <1>1. ASSUME NEW c \in [Axis -> Entry], NEW h \in [Axis -> 0..CountCap],
               \A a \in Axis : EntryOK(c[a], h[a], L[a], a)
        PROVE  BudgetOK(c, h, L)
    BY <1>1 DEF BudgetOK, Budget
  <1>2. /\ b \in [Axis -> Entry]
        /\ g \in [Axis -> 0..CountCap]
        /\ \A a \in Axis : b[a] \in Entry /\ g[a] \in 0..CountCap
                           /\ EntryOK(b[a], g[a], L[a], a)
    BY DEF BudgetOK, Budget
  <1> HIDE DEF L
  <1>3. /\ r \in [Axis -> Entry]
        /\ \A a \in Axis : r[a] \in Entry /\ r[a].current /\ EntryOK(r[a], g[a], L[a], a)
    BY <1>2, EntryTypes, EntrySteps DEF ResetWindows
  <1>4. BudgetOK(r, g, L)
    BY <1>1, <1>2, <1>3
  <1>5. BudgetOK(Charge(b), g, L)
    <2>1. /\ Charge(b) \in [Axis -> Entry]
          /\ \A a \in Axis : EntryOK(Charge(b)[a], g[a], L[a], a)
      BY <1>2, EntryTypes, EntrySteps DEF Charge
    <2>2. QED
      BY <1>1, <1>2, <2>1
  <1> HIDE DEF r
  <1>6. ASSUME NEW retry \in Retry PROVE BudgetOK(LearnFrom429(b, retry), g, L)
    <2> DEFINE c == LearnFrom429(b, retry)
    <2>1. \A a \in Axis : c[a] = IF a = TaughtAxis(retry) THEN Observe(r[a], r[a].count)
                                                         ELSE r[a]
      BY DEF LearnFrom429, r
    <2>2. \A a \in Axis : r[a].count \in 0..CountCap
      BY <1>3 DEF Entry
    <2> HIDE DEF c
    <2>3. ASSUME NEW a \in Axis PROVE c[a] \in Entry /\ EntryOK(c[a], g[a], L[a], a)
      <3>1. r[a] \in Entry /\ EntryOK(r[a], g[a], L[a], a) /\ g[a] \in 0..CountCap
        BY <1>2, <1>3
      <3>2. /\ Observe(r[a], r[a].count) \in Entry
            /\ EntryOK(Observe(r[a], r[a].count), g[a], L[a], a)
        BY <3>1, <2>2, EntryTypes, EntrySteps
      <3>3. QED
        BY <2>1, <3>1, <3>2
    <2> USE DEF c
    <2>4. c \in [Axis -> Entry]
      BY <2>3 DEF LearnFrom429
    <2>5. QED
      BY <1>1, <1>2, <2>3, <2>4
  <1>7. ASSUME NEW limit \in Limit, NEW remaining \in Limit
        PROVE  BudgetOK(LearnFromHeaders(b, limit, remaining), g, L)
    <2> DEFINE c        == LearnFromHeaders(b, limit, remaining)
               sent     == r["rpm"].count
               byLimit  == IF limit = NoLimit THEN r["rpm"] ELSE Observe(r["rpm"], limit)
               byRemain == IF remaining = NoLimit THEN byLimit
                           ELSE Observe(byLimit, SatAdd(sent, remaining))
               daySpent == remaining # NoLimit /\ remaining <= LowRemaining /\ sent >= ManySent
    <2>1. \A a \in Axis :
             c[a] = IF a = "rpm" THEN byRemain
                    ELSE IF daySpent THEN MarkObserved(r[a], Tightened(r[a].limit, sent))
                    ELSE r[a]
      BY DEF LearnFromHeaders, r
    <2>2. c = [a \in Axis |-> c[a]]
      BY DEF LearnFromHeaders
    <2>3. "rpm" \in Axis
      BY BudgetAssumption
    <2>4. sent \in 0..CountCap
      BY <1>3, <2>3 DEF Entry
    <2>5. limit # NoLimit => limit \in 0..CountCap
      BY DEF Limit
    <2>6. remaining # NoLimit => SatAdd(sent, remaining) \in 0..CountCap
      BY <2>4, SatAddType DEF Limit
    <2> HIDE DEF c, sent
    <2>7. byLimit \in Entry /\ EntryOK(byLimit, g["rpm"], L["rpm"], "rpm")
      BY <1>2, <1>3, <2>3, <2>5, EntryTypes, EntrySteps
    <2> HIDE DEF byLimit
    <2>8. byRemain \in Entry /\ EntryOK(byRemain, g["rpm"], L["rpm"], "rpm")
      BY <1>2, <2>3, <2>6, <2>7, EntryTypes, EntrySteps
    <2> HIDE DEF byRemain, daySpent
    <2>9. ASSUME NEW a \in Axis PROVE c[a] \in Entry /\ EntryOK(c[a], g[a], L[a], a)
      <3>1. CASE a = "rpm"
        BY <3>1, <2>1, <2>8
      <3>2. CASE a # "rpm"
        <4>1. /\ MarkObserved(r[a], Tightened(r[a].limit, sent)) \in Entry
              /\ EntryOK(MarkObserved(r[a], Tightened(r[a].limit, sent)), g[a], L[a], a)
          BY <3>2, <1>2, <1>3, <2>4, EntryTypes, EntrySteps
        <4>2. QED
          BY <3>2, <4>1, <2>1, <1>3
      <3>3. QED
        BY <3>1, <3>2
    <2>10. c \in [Axis -> Entry]
      BY <2>2, <2>9
    <2>11. BudgetOK(c, g, L)
      BY <1>1, <1>2, <2>9, <2>10
    <2>12. QED
      BY <2>11 DEF c
  <1>8. ASSUME NEW value \in [Axis -> 0..CountCap]
        PROVE  BudgetOK([a \in Axis |-> SetLimit(b[a], value[a], "official_api")], g, L)
    <2> DEFINE c == [a \in Axis |-> SetLimit(b[a], value[a], "official_api")]
    <2>1. \A a \in Axis : SetLimit(b[a], value[a], "official_api") \in Entry
               /\ EntryOK(SetLimit(b[a], value[a], "official_api"), g[a], L[a], a)
      BY <1>2, EntryTypes, EntrySteps
    <2>2. c \in [Axis -> Entry] /\ \A a \in Axis : EntryOK(c[a], g[a], L[a], a)
      BY <2>1
    <2>3. QED
      BY <1>1, <1>2, <2>2
  <1>9. ASSUME NEW ended \in SUBSET Axis
        PROVE  BudgetOK(Elapse(b, ended),
                        [a \in Axis |-> IF a \in ended THEN 0 ELSE g[a]], L)
    <2> DEFINE h == [a \in Axis |-> IF a \in ended THEN 0 ELSE g[a]]
               c == Elapse(b, ended)
    <2>1. \A a \in Axis : /\ c[a] = IF a \in ended THEN [b[a] EXCEPT !.current = FALSE]
                                                   ELSE b[a]
                         /\ h[a] = IF a \in ended THEN 0 ELSE g[a]
      BY DEF Elapse
    <2> HIDE DEF c, h
    <2>2. ASSUME NEW a \in Axis PROVE c[a] \in Entry /\ EntryOK(c[a], h[a], L[a], a)
      <3>1. b[a] \in Entry /\ g[a] \in 0..CountCap /\ EntryOK(b[a], g[a], L[a], a)
        BY <1>2
      <3>2. /\ [b[a] EXCEPT !.current = FALSE] \in Entry
            /\ EntryOK([b[a] EXCEPT !.current = FALSE], 0, L[a], a)
        BY <3>1, EntryTypes, EntrySteps
      <3>3. QED
        BY <2>1, <3>1, <3>2
    <2> USE DEF c, h
    <2>3. c \in [Axis -> Entry]
      BY <2>2 DEF Elapse
    <2>4. h \in [Axis -> 0..CountCap]
      BY <1>2, BudgetAssumption
    <2>5. QED
      BY <1>1, <2>2, <2>3, <2>4
  <1>10. QED
    BY <1>4, <1>5, <1>6, <1>7, <1>8, <1>9 DEF L, r

(* A reservation is counted where the limit has been found to leave room.  *)
LEMMA BudgetReserve ==
    ASSUME NEW k \in Key, NEW b, NEW g, BudgetOK(b, g, ConfiguredLimit[k]),
           ~IsRateLimited(ResetWindows(b))
    PROVE  BudgetOK(Charge(ResetWindows(b)), [a \in Axis |-> SatAdd(g[a], 1)],
                    ConfiguredLimit[k])
  <1> DEFINE L == ConfiguredLimit[k]
             r == ResetWindows(b)
             c == Charge(r)
             h == [a \in Axis |-> SatAdd(g[a], 1)]
  <1>1. BudgetOK(r, g, L) /\ BudgetOK(c, g, L)
    BY BudgetSteps
  <1>2. ASSUME NEW a \in Axis
        PROVE  /\ c[a] \in Entry
               /\ h[a] \in 0..CountCap
               /\ EntryOK(c[a], h[a], L[a], a)
    <2>1. /\ r[a] \in Entry /\ g[a] \in 0..CountCap /\ EntryOK(r[a], g[a], L[a], a)
          /\ c[a] \in Entry /\ EntryOK(c[a], g[a], L[a], a)
      BY <1>1 DEF BudgetOK, Budget
    <2>2. r[a].current = TRUE
      <3>1. b[a] \in Entry /\ r[a] = ResetEntry(b[a])
        BY DEF BudgetOK, Budget, ResetWindows
      <3>2. QED
        BY <3>1 DEF ResetEntry, Entry
    <2>3. r[a].limit # NoLimit => r[a].count < r[a].limit
      BY <2>1, <2>2 DEF IsRateLimited, Entry, Limit, NoLimit
    <2>4. /\ c[a].count = SatAdd(r[a].count, 1)
          /\ c[a].limit = r[a].limit
          /\ c[a].source = r[a].source
          /\ c[a].current = TRUE
      BY <2>1, <2>2 DEF Charge, Entry
    <2>5. h[a] = SatAdd(g[a], 1)
      OBVIOUS
    <2>6. g[a] <= r[a].count /\ r[a].count \in 0..CountCap
      BY <2>1, <2>2 DEF EntryOK, Entry
    <2>7. h[a] <= c[a].count /\ h[a] \in 0..CountCap
      BY <2>1, <2>4, <2>5, <2>6, BudgetAssumption DEF SatAdd
    <2>8. r[a].source = "config" => L[a] # NoLimit /\ r[a].limit = L[a] /\ h[a] <= L[a]
      <3>1. r[a].limit \in Limit
        BY <2>1 DEF Entry
      <3>2. r[a].limit # NoLimit => h[a] <= r[a].limit
        BY <3>1, <2>1, <2>3, <2>5, <2>6, BudgetAssumption DEF SatAdd, Limit, NoLimit
      <3>3. QED
        BY <3>2, <2>1 DEF EntryOK
    <2>9. a = "rpm" /\ L[a] # NoLimit => c[a].source = "config"
      BY <2>1 DEF EntryOK
    <2> HIDE DEF c, h, r, L
    <2>10. QED
      BY <2>1, <2>4, <2>7, <2>8, <2>9 DEF EntryOK
  <1>3. c \in [Axis -> Entry]
    BY <1>2 DEF Charge
  <1>4. h \in [Axis -> 0..CountCap]
    BY <1>2
  <1> HIDE DEF L, c, h
  <1>5. BudgetOK(c, h, L)
    BY <1>2, <1>3, <1>4 DEF BudgetOK, Budget
  <1>6. QED
    BY <1>5 DEF c, h, L

(* KeyPool::new                                                            *)
LEMMA FreshOK ==
    ASSUME NEW k \in Key
    PROVE  /\ RecordOK(FreshKey, 0)
           /\ BudgetOK(FreshBudget(k), [a \in Axis |-> 0], ConfiguredLimit[k])
  <1>1. RecordOK(FreshKey, 0)
    BY KeyStateAssumption
    DEF FreshKey, RecordOK, KeyState, Status, Deadline, NoDeadline, Admissible
  <1>2. ASSUME NEW a \in Axis
        PROVE  /\ FreshBudget(k)[a] \in Entry
               /\ EntryOK(FreshBudget(k)[a], 0, ConfiguredLimit[k][a], a)
    <2> DEFINE e == FreshEntry(ConfiguredLimit[k][a])
    <2>1. FreshBudget(k)[a] = e /\ ConfiguredLimit[k][a] \in Limit
      BY PoolAssumption DEF FreshBudget
    <2>2. 0 \in 0..CountCap
      BY BudgetAssumption
    <2>3. e \in Entry
      BY <2>1, <2>2 DEF FreshEntry, Entry, Source
    <2>4. EntryOK(e, 0, ConfiguredLimit[k][a], a)
      BY <2>1, <2>2, <2>3 DEF FreshEntry, EntryOK, Limit, NoLimit
    <2>5. QED
      BY <2>1, <2>3, <2>4
  <1>3. FreshBudget(k) \in [Axis -> Entry]
    BY <1>2 DEF FreshBudget
  <1>4. [a \in Axis |-> 0] \in [Axis -> 0..CountCap]
    BY BudgetAssumption
  <1>5. QED
    BY <1>1, <1>2, <1>3, <1>4 DEF BudgetOK, Budget

-----------------------------------------------------------------------------
(* The building blocks of the actions.                                     *)

(* A report that leaves one record in order leaves all of them in order.   *)
LEMMA SettleOK ==
    ASSUME RecordsOK, NEW k \in Key, NEW s, RecordOK(s, 0), Settle(k, s)
    PROVE  RecordsOK'
  <1>1. s \in KeyState /\ 0 \in 0..CooldownSeconds
    BY DEF RecordOK
  <1>2. keys' \in [Key -> KeyState] /\ probe' \in [Key -> 0..CooldownSeconds]
    BY <1>1 DEF RecordsOK, Settle
  <1>3. \A j \in Key : RecordOK(keys'[j], probe'[j])
    BY DEF RecordsOK, Settle
  <1>4. QED
    BY <1>2, <1>3 DEF RecordsOK

(* Replacing the budget of one key by one in order keeps all in order.     *)
LEMMA BudgetReplacedOK ==
    ASSUME BudgetsOK, NEW k \in Key, NEW b,
           BudgetOK(b, granted[k], ConfiguredLimit[k]),
           budget' = [budget EXCEPT ![k] = b], UNCHANGED granted
    PROVE  BudgetsOK'
  <1>1. b \in Budget
    BY DEF BudgetOK
  <1>2. budget' \in [Key -> Budget] /\ granted' \in [Key -> [Axis -> 0..CountCap]]
    BY <1>1 DEF BudgetsOK
  <1>3. \A j \in Key : BudgetOK(budget'[j], granted'[j], ConfiguredLimit[j])
    BY DEF BudgetsOK
  <1>4. QED
    BY <1>2, <1>3 DEF BudgetsOK

(* recover_expired, applied to every key, keeps the records in order.      *)
LEMMA RecoveredOK ==
    ASSUME RecordsOK
    PROVE  /\ Recovered \in [Key -> KeyState]
           /\ \A k \in Key : Recovered[k] = Recover(keys[k])
           /\ \A k \in Key : RecordOK(Recovered[k], probe[k])
  BY RecordTypes, RecordSteps DEF RecordsOK, Recovered

(* Whatever a report says and whoever makes it.                            *)
Reported(k) ==
    \/ ReservedSuccess(k)
    \/ UnreservedSuccess(k)
    \/ GatewayError(k)
    \/ StreamBodyFailure(k)
    \/ RealModelUnavailable(k)
    \/ RealModelRateLimited(k)

(* Whatever a caller reports on a key keeps records and budgets in order.  *)
LEMMA ReportOK ==
    ASSUME RecordsOK, BudgetsOK, NEW k \in Key, Reported(k), UNCHANGED granted
    PROVE  RecordsOK' /\ BudgetsOK'
  <1>1. /\ keys[k] \in KeyState
        /\ probe[k] \in 0..CooldownSeconds
        /\ RecordOK(keys[k], probe[k])
    BY DEF RecordsOK
  <1>2. BudgetOK(budget[k], granted[k], ConfiguredLimit[k])
    BY DEF BudgetsOK
  <1>3. RetryAfter \subseteq Retry
    BY PoolAssumption
  <1>4. ASSUME UNCHANGED budget PROVE BudgetsOK'
    BY <1>4 DEF BudgetsOK
  <1>5. CASE ReservedSuccess(k)
    <2>1. RecordsOK'
      BY <1>1, <1>5, RecordReports, SettleOK DEF ReservedSuccess
    <2>2. BudgetOK(ResetWindows(budget[k]), granted[k], ConfiguredLimit[k])
      BY <1>2, BudgetSteps
    <2>3. BudgetsOK'
      BY <1>5, <2>2, BudgetReplacedOK DEF ReservedSuccess
    <2>4. QED
      BY <2>1, <2>3
  <1>6. CASE UnreservedSuccess(k)
    <2>1. RecordsOK'
      BY <1>1, <1>6, RecordReports, SettleOK DEF UnreservedSuccess
    <2>2. BudgetOK(ResetWindows(budget[k]), granted[k], ConfiguredLimit[k])
      BY <1>2, BudgetSteps
    <2>3. BudgetOK(Charge(ResetWindows(budget[k])), granted[k], ConfiguredLimit[k])
      BY <2>2, BudgetSteps
    <2>4. BudgetsOK'
      BY <1>6, <2>3, BudgetReplacedOK DEF UnreservedSuccess
    <2>5. QED
      BY <2>1, <2>4
  <1>7. CASE AuthFailure(k)
    BY <1>1, <1>4, <1>7, RecordReports, SettleOK DEF AuthFailure
  <1>8. CASE RateLimitFailure(k)
    <2>1. PICK retry \in RetryAfter :
             /\ Settle(k, FailRateLimited(keys[k], retry))
             /\ budget' = [budget EXCEPT ![k] = LearnFrom429(budget[k], retry)]
      BY <1>8 DEF RateLimitFailure
    <2>2. retry \in Retry
      BY <1>3
    <2>3. RecordsOK'
      BY <1>1, <2>1, <2>2, RecordReports, SettleOK
    <2>4. BudgetOK(LearnFrom429(budget[k], retry), granted[k], ConfiguredLimit[k])
      BY <1>2, <2>2, BudgetSteps
    <2>5. BudgetsOK'
      BY <2>1, <2>4, BudgetReplacedOK
    <2>6. QED
      BY <2>3, <2>5
  <1>9. CASE TransientFailure(k)
    BY <1>1, <1>4, <1>9, RecordReports, SettleOK DEF TransientFailure
  <1>10. CASE StreamBodyFailure(k)
    BY <1>1, <1>4, <1>10, RecordReports, SettleOK DEF StreamBodyFailure
  <1>11. CASE RealModelUnavailable(k)
    <2>1. PICK retry \in RetryAfter :
             Settle(k, FailRealModelUnavailable(keys[k], retry)) /\ UNCHANGED budget
      BY <1>11 DEF RealModelUnavailable
    <2>2. QED
      BY <1>1, <1>3, <1>4, <2>1, RecordReports, SettleOK
  <1>12. CASE RealModelRateLimited(k)
    BY <1>1, <1>4, <1>12, RecordReports, SettleOK DEF RealModelRateLimited
  <1>13. QED
    BY <1>5, <1>6, <1>7, <1>8, <1>9, <1>10, <1>11, <1>12 DEF Reported, GatewayError

(* A caller that is past its reservation may leave, or stay with its key.  *)
LEMMA ReleaseOK ==
    ASSUME CallersOK, NEW c \in Caller, NEW to \in {"idle", "learn"},
           pc[c] # "idle", Release(c, to)
    PROVE  CallersOK' /\ UNCHANGED granted
  <1>1. holds[c] \in Key
    BY DEF CallersOK, CallersHoldKeys
  <1>2. pc' \in [Caller -> {"idle", "sent", "learn"}] /\ holds' \in [Caller -> Key \cup {NoKey}]
    BY DEF CallersOK, Release
  <1>3. CallersHoldKeys'
    BY <1>1 DEF CallersOK, CallersHoldKeys, Release
  <1>4. QED
    BY <1>2, <1>3 DEF CallersOK, Release

-----------------------------------------------------------------------------
(* The invariant holds initially and every action keeps it.                *)

(* A new pool satisfies the invariant.                                     *)
LEMMA InitOK == Init => IInv
  <1> SUFFICES ASSUME Init PROVE IInv
    OBVIOUS
  <1>1. RecordsOK
    <2>1. FreshKey \in KeyState /\ 0 \in 0..CooldownSeconds
      BY KeyStateAssumption DEF FreshKey, KeyState, Status, Deadline, NoDeadline
    <2>2. QED
      BY <2>1, FreshOK DEF Init, RecordsOK
  <1>2. BudgetsOK
    <2>1. \A k \in Key : FreshBudget(k) \in Budget
      BY FreshOK DEF BudgetOK
    <2>2. [a \in Axis |-> 0] \in [Axis -> 0..CountCap]
      BY BudgetAssumption
    <2>3. QED
      BY <2>1, <2>2, FreshOK DEF Init, BudgetsOK
  <1>3. CallersOK
    BY DEF Init, CallersOK, CallersHoldKeys
  <1>4. QED
    BY <1>1, <1>2, <1>3, Regrouped

(* What a granted reservation does to the pool, whoever asked for it: the  *)
(* test and the charge fall under one lock.                                *)
LEMMA GrantOK ==
    ASSUME RecordsOK, BudgetsOK, NEW k \in Key, NEW s, s = Recover(keys[k]),
           NEW b, b = ResetWindows(budget[k]), ~IsRateLimited(b),
           keys' = [Recovered EXCEPT ![k] = BeginProbe(s)],
           budget' = [budget EXCEPT ![k] = Charge(b)],
           granted' = [granted EXCEPT ![k] = [a \in Axis |-> SatAdd(granted[k][a], 1)]],
           probe' = IF s.status = "probing" THEN [probe EXCEPT ![k] = CooldownSeconds] ELSE probe
    PROVE  RecordsOK' /\ BudgetsOK'
  <1> DEFINE g == [a \in Axis |-> SatAdd(granted[k][a], 1)]
             p == IF s.status = "probing" THEN CooldownSeconds ELSE probe[k]
  <1>1. probe' = [probe EXCEPT ![k] = p]
    BY DEF RecordsOK
  <1>2. s \in KeyState /\ p \in 0..CooldownSeconds /\ RecordOK(s, probe[k])
    BY RecoveredOK, KeyStateAssumption DEF RecordsOK, RecordOK
  <1>3. RecordOK(BeginProbe(s), p)
    BY <1>2, RecordSteps DEF RecordsOK
  <1>4. RecordsOK'
    <2>1. BeginProbe(s) \in KeyState
      BY <1>3 DEF RecordOK
    <2> HIDE DEF p
    <2>2. keys' \in [Key -> KeyState] /\ probe' \in [Key -> 0..CooldownSeconds]
      BY <1>1, <1>2, <2>1, RecoveredOK DEF RecordsOK
    <2>3. \A j \in Key : RecordOK(keys'[j], probe'[j])
      BY <1>1, <1>3, RecoveredOK DEF RecordsOK
    <2>4. QED
      BY <2>2, <2>3 DEF RecordsOK
  <1>5. BudgetsOK'
    <2>1. BudgetOK(budget[k], granted[k], ConfiguredLimit[k])
      BY DEF BudgetsOK
    <2>2. BudgetOK(Charge(b), g, ConfiguredLimit[k])
      BY <2>1, BudgetReserve
    <2>3. Charge(b) \in Budget /\ g \in [Axis -> 0..CountCap]
      BY <2>2 DEF BudgetOK
    <2> HIDE DEF g
    <2>4. budget' \in [Key -> Budget] /\ granted' \in [Key -> [Axis -> 0..CountCap]]
      BY <2>3 DEF BudgetsOK, g
    <2>5. \A j \in Key : BudgetOK(budget'[j], granted'[j], ConfiguredLimit[j])
      BY <2>2 DEF BudgetsOK, g
    <2>6. QED
      BY <2>4, <2>5 DEF BudgetsOK
  <1>6. QED
    BY <1>4, <1>5

(* A request reserves a key.                                               *)
LEMMA ReserveStep ==
    ASSUME IInv, NEW c \in Caller, NEW k \in Key, Reserve(c, k)
    PROVE  IInv'
  <1>1. RecordsOK /\ BudgetsOK /\ CallersOK
    BY Regrouped
  <1>2. RecordsOK' /\ BudgetsOK'
    BY <1>1, GrantOK DEF Reserve, Selectable
  <1>3. CallersOK'
    BY <1>1 DEF Reserve, CallersOK, CallersHoldKeys
  <1>4. QED
    BY <1>2, <1>3, RegroupedNext

(* A refused reservation only recovers keys and resets one window.         *)
LEMMA RefusedStep ==
    ASSUME IInv, NEW c \in Caller, NEW k \in Key, ReserveRefused(c, k)
    PROVE  IInv'
  <1>1. RecordsOK /\ BudgetsOK /\ CallersOK
    BY Regrouped
  <1>2. RecordsOK'
    BY <1>1, RecoveredOK DEF ReserveRefused, RecordsOK, history
  <1>3. BudgetOK(ResetWindows(budget[k]), granted[k], ConfiguredLimit[k])
    BY <1>1, BudgetSteps DEF BudgetsOK
  <1>4. BudgetsOK'
    BY <1>1, <1>3, BudgetReplacedOK DEF ReserveRefused, history
  <1>5. CallersOK'
    BY <1>1 DEF ReserveRefused, callerVars, CallersOK, CallersHoldKeys
  <1>6. QED
    BY <1>2, <1>4, <1>5, RegroupedNext

(* The report of a success by a caller that holds a key.                   *)
LEMMA AnsweredStep ==
    ASSUME IInv, NEW c \in Caller, Answered(c)
    PROVE  IInv'
  <1>1. RecordsOK /\ BudgetsOK /\ CallersOK
    BY Regrouped
  <1>2. pc[c] = "sent" /\ holds[c] \in Key
    BY <1>1 DEF Answered, CallersOK, CallersHoldKeys
  <1>3. CallersOK' /\ UNCHANGED granted
    BY <1>1, <1>2, ReleaseOK DEF Answered
  <1>4. RecordsOK' /\ BudgetsOK'
    BY <1>1, <1>2, <1>3, ReportOK DEF Answered, Reported
  <1>5. QED
    BY <1>3, <1>4, RegroupedNext

(* The rate headers of an answer, read after it was reported.              *)
LEMMA ReadHeadersStep ==
    ASSUME IInv, NEW c \in Caller, ReadHeaders(c)
    PROVE  IInv'
  <1> DEFINE k == holds[c]
  <1>1. RecordsOK /\ BudgetsOK /\ CallersOK
    BY Regrouped
  <1>2. pc[c] = "learn" /\ k \in Key
    BY <1>1 DEF ReadHeaders, CallersOK, CallersHoldKeys
  <1>3. CallersOK' /\ UNCHANGED granted
    BY <1>1, <1>2, ReleaseOK DEF ReadHeaders
  <1>4. PICK limit \in HeaderLimit, remaining \in HeaderRemaining :
           budget' = [budget EXCEPT ![k] = LearnFromHeaders(budget[k], limit, remaining)]
    BY DEF ReadHeaders
  <1>5. limit \in Limit /\ remaining \in Limit
    BY PoolAssumption
  <1>6. BudgetOK(LearnFromHeaders(budget[k], limit, remaining), granted[k],
                 ConfiguredLimit[k])
    BY <1>1, <1>2, <1>5, BudgetSteps DEF BudgetsOK
  <1>7. BudgetsOK'
    BY <1>1, <1>2, <1>3, <1>4, <1>6, BudgetReplacedOK
  <1>8. RecordsOK'
    BY <1>1 DEF ReadHeaders, RecordsOK
  <1>9. QED
    BY <1>3, <1>7, <1>8, RegroupedNext

(* The report of a failure by a caller that holds a key.                   *)
LEMMA FailedStep ==
    ASSUME IInv, NEW c \in Caller, Failed(c)
    PROVE  IInv'
  <1>1. RecordsOK /\ BudgetsOK /\ CallersOK
    BY Regrouped
  <1>2. pc[c] = "sent" /\ holds[c] \in Key /\ Reported(holds[c])
    BY <1>1 DEF Failed, CallersOK, CallersHoldKeys, Reported
  <1>3. CallersOK' /\ UNCHANGED granted
    BY <1>1, <1>2, ReleaseOK DEF Failed
  <1>4. RecordsOK' /\ BudgetsOK'
    BY <1>1, <1>2, <1>3, ReportOK
  <1>5. QED
    BY <1>3, <1>4, RegroupedNext

(* A request that ends without a report.                                   *)
LEMMA AbandonedStep ==
    ASSUME IInv, NEW c \in Caller, Abandoned(c)
    PROVE  IInv'
  <1>1. RecordsOK /\ BudgetsOK /\ CallersOK
    BY Regrouped
  <1>2. CallersOK' /\ UNCHANGED granted
    BY <1>1, ReleaseOK DEF Abandoned
  <1>3. RecordsOK' /\ BudgetsOK'
    BY <1>1, <1>2 DEF Abandoned, poolVars, RecordsOK, BudgetsOK
  <1>4. QED
    BY <1>2, <1>3, RegroupedNext

(* Selection and snapshots recover keys and reset windows.                 *)
LEMMA SurveyStep ==
    ASSUME IInv, Survey \/ Snapshot
    PROVE  IInv'
  <1>1. RecordsOK /\ BudgetsOK /\ CallersOK
    BY Regrouped
  <1>2. RecordsOK'
    BY <1>1, RecoveredOK DEF Survey, Snapshot, RecordsOK, history
  <1>3. BudgetsOK'
    <2>1. \A k \in Key : BudgetOK(ResetWindows(budget[k]), granted[k], ConfiguredLimit[k])
      BY <1>1, BudgetSteps DEF BudgetsOK
    <2>2. \A k \in Key : ResetWindows(budget[k]) \in Budget
      BY <2>1 DEF BudgetOK
    <2>3. QED
      BY <1>1, <2>1, <2>2 DEF Survey, Snapshot, BudgetsOK, history
  <1>4. CallersOK'
    BY <1>1 DEF Survey, Snapshot, callerVars, CallersOK, CallersHoldKeys
  <1>5. QED
    BY <1>2, <1>3, <1>4, RegroupedNext

(* What the operator and the background jobs do to one key.                *)
LEMMA OperatorStep ==
    ASSUME IInv, NEW k \in Key,
           Validate(k) \/ RestoreKey(k) \/ UpdateModels(k) \/ ApplyOfficialLimits(k)
    PROVE  IInv'
  <1>1. RecordsOK /\ BudgetsOK /\ CallersOK
    BY Regrouped
  <1>2. CallersOK' /\ UNCHANGED granted
    BY <1>1 DEF Validate, RestoreKey, UpdateModels, ApplyOfficialLimits, callerVars,
       history, CallersOK, CallersHoldKeys
  <1>3. /\ keys[k] \in KeyState
        /\ probe[k] \in 0..CooldownSeconds
        /\ RecordOK(keys[k], probe[k])
    BY <1>1 DEF RecordsOK
  <1>4. CASE Validate(k)
    BY <1>1, <1>2, <1>4, ReportOK, RegroupedNext DEF Validate, Reported
  <1>5. CASE RestoreKey(k)
    <2>1. RecordsOK'
      BY <1>1, <1>3, <1>5, RecordReports, SettleOK DEF RestoreKey
    <2>2. BudgetsOK'
      BY <1>1, <1>2, <1>5 DEF RestoreKey, BudgetsOK
    <2>3. QED
      BY <1>2, <2>1, <2>2, RegroupedNext
  <1>6. CASE UpdateModels(k)
    <2>1. PICK ms \in SUBSET Model : keys' = [keys EXCEPT ![k] = WithModels(keys[k], ms)]
      BY <1>6 DEF UpdateModels
    <2>2. WithModels(keys[k], ms) \in KeyState /\ RecordOK(WithModels(keys[k], ms), probe[k])
      BY <1>3, RecordTypes, RecordSteps
    <2>3. probe' = probe /\ UNCHANGED budget
      BY <1>6 DEF UpdateModels, history
    <2>4. RecordsOK'
      BY <1>1, <2>1, <2>2, <2>3 DEF RecordsOK
    <2>5. BudgetsOK'
      BY <1>1, <1>2, <2>3 DEF BudgetsOK
    <2>6. QED
      BY <1>2, <2>4, <2>5, RegroupedNext
  <1>7. CASE ApplyOfficialLimits(k)
    <2>1. PICK value \in [Axis -> OfficialLimit \cup {0}] :
             budget' = [budget EXCEPT ![k] =
                [a \in Axis |-> SetLimit(budget[k][a], value[a], "official_api")]]
      BY <1>7 DEF ApplyOfficialLimits
    <2>2. value \in [Axis -> 0..CountCap]
      <3>1. OfficialLimit \cup {0} \subseteq 0..CountCap
        BY PoolAssumption, BudgetAssumption
      <3>2. QED
        BY <3>1
    <2>3. BudgetOK([a \in Axis |-> SetLimit(budget[k][a], value[a], "official_api")],
                   granted[k], ConfiguredLimit[k])
      BY <1>1, <2>2, BudgetSteps DEF BudgetsOK
    <2>4. BudgetsOK'
      BY <1>1, <1>2, <2>1, <2>3, BudgetReplacedOK
    <2>5. RecordsOK'
      BY <1>1, <1>7 DEF ApplyOfficialLimits, history, RecordsOK
    <2>6. QED
      BY <1>2, <2>4, <2>5, RegroupedNext
  <1>8. QED
    BY <1>4, <1>5, <1>6, <1>7

(* A pool registered under an existing name starts afresh.                 *)
LEMMA RegisterStep ==
    ASSUME IInv, Register
    PROVE  IInv'
  <1>1. CallersOK
    BY Regrouped
  <1>2. FreshKey \in KeyState /\ 0 \in 0..CooldownSeconds
    BY KeyStateAssumption DEF FreshKey, KeyState, Status, Deadline, NoDeadline
  <1>3. RecordsOK'
    BY <1>2, FreshOK DEF Register, RecordsOK
  <1>4. \A k \in Key : FreshBudget(k) \in Budget
    BY FreshOK DEF BudgetOK
  <1>5. [a \in Axis |-> 0] \in [Axis -> 0..CountCap]
    BY BudgetAssumption
  <1>6. BudgetsOK'
    BY <1>4, <1>5, FreshOK DEF Register, BudgetsOK
  <1>7. CallersOK'
    BY <1>1 DEF Register, callerVars, CallersOK, CallersHoldKeys
  <1>8. QED
    BY <1>3, <1>6, <1>7, RegroupedNext

(* A tick ages deadlines and probes together and ends windows.             *)
LEMMA TickStep ==
    ASSUME IInv, Tick
    PROVE  IInv'
  <1>1. RecordsOK /\ BudgetsOK /\ CallersOK
    BY Regrouped
  <1>2. RecordsOK'
    <2>1. /\ keys' = [k \in Key |-> Age(keys[k])]
          /\ probe' = [k \in Key |-> IF probe[k] > 0 THEN probe[k] - 1 ELSE probe[k]]
      BY DEF Tick
    <2>2. ASSUME NEW k \in Key
          PROVE  RecordOK(Age(keys[k]), IF probe[k] > 0 THEN probe[k] - 1 ELSE probe[k])
      BY <1>1, RecordSteps DEF RecordsOK
    <2>3. \A k \in Key : /\ Age(keys[k]) \in KeyState
                        /\ (IF probe[k] > 0 THEN probe[k] - 1 ELSE probe[k])
                               \in 0..CooldownSeconds
      BY <2>2 DEF RecordOK
    <2>4. QED
      BY <2>1, <2>2, <2>3 DEF RecordsOK
  <1>3. BudgetsOK'
    <2> DEFINE g(k) == [a \in Axis |-> IF a \in Ended THEN 0 ELSE granted[k][a]]
    <2>1. /\ budget' = [k \in Key |-> Elapse(budget[k], Ended)]
          /\ granted' = [k \in Key |-> g(k)]
      BY DEF Tick
    <2>2. Ended \in SUBSET Axis
      BY DEF Ended
    <2>3. ASSUME NEW k \in Key
          PROVE  BudgetOK(Elapse(budget[k], Ended), g(k), ConfiguredLimit[k])
      BY <1>1, <2>2, BudgetSteps DEF BudgetsOK
    <2> HIDE DEF g
    <2>4. \A k \in Key : Elapse(budget[k], Ended) \in Budget /\ g(k) \in [Axis -> 0..CountCap]
      BY <2>3 DEF BudgetOK
    <2>5. QED
      BY <2>1, <2>3, <2>4 DEF BudgetsOK
  <1>4. CallersOK'
    <2>1. clock' \in [Axis -> Nat]
      BY <1>1 DEF Tick, CallersOK
    <2>2. QED
      BY <1>1, <2>1 DEF Tick, callerVars, CallersOK, CallersHoldKeys
  <1>5. QED
    BY <1>2, <1>3, <1>4, RegroupedNext

(* IInv is inductive.                                                      *)
THEOREM NextPreservesIInv == IInv /\ [Next]_vars => IInv'
  <1> SUFFICES ASSUME IInv, [Next]_vars PROVE IInv'
    OBVIOUS
  <1>1. ASSUME NEW c \in Caller, Request(c) PROVE IInv'
    BY <1>1, ReserveStep, RefusedStep, AnsweredStep, ReadHeadersStep, FailedStep,
       AbandonedStep DEF Request
  <1>2. CASE TrafficNext
    BY <1>1, <1>2, SurveyStep, TickStep DEF TrafficNext
  <1>3. CASE \E k \in Key : \/ Validate(k)
                           \/ RestoreKey(k)
                           \/ UpdateModels(k)
                           \/ ApplyOfficialLimits(k)
    BY <1>3, OperatorStep
  <1>4. CASE Register
    BY <1>4, RegisterStep
  <1>5. CASE UNCHANGED vars
    <2>1. RecordsOK /\ BudgetsOK /\ CallersOK
      BY Regrouped
    <2>2. RecordsOK' /\ BudgetsOK' /\ CallersOK'
      BY <1>5, <2>1 DEF vars, poolVars, callerVars, history, RecordsOK, BudgetsOK,
         CallersOK, CallersHoldKeys
    <2>3. QED
      BY <2>2, RegroupedNext
  <1>6. QED
    BY <1>2, <1>3, <1>4, <1>5 DEF Next

(* The inductive invariant holds in every state of every pool, whatever    *)
(* its keys, callers, limits and durations are.                            *)
THEOREM Invariance == Spec => []IInv
  BY InitOK, NextPreservesIInv, PTL DEF Spec

(* Type correctness.                                                       *)
THEOREM TypeCorrect == Spec => []TypeOK
  <1>1. IInv => TypeOK
    BY DEF IInv
  <1>2. QED
    BY <1>1, Invariance, PTL

-----------------------------------------------------------------------------
(* The properties of the runs.                                             *)

(* A key that may be reserved carries no deadline (recover_expired,        *)
(* reserve_key and every report together).                                 *)
THEOREM NoStaleDeadline == Spec => []SelectableHasNoDeadline
  <1>1. IInv => SelectableHasNoDeadline
    BY DEF IInv
  <1>2. QED
    BY <1>1, Invariance, PTL

(* While a configured limit is in force its window holds no more           *)
(* reservations than it allows, however many callers there are.            *)
THEOREM LimitRespected == Spec => []ConfiguredLimitRespected
  <1>1. IInv => ConfiguredLimitRespected
    BY DEF IInv
  <1>2. QED
    BY <1>1, Invariance, PTL

(* A configured rpm_limit is never exceeded while the pool lives.          *)
THEOREM RpmRespected == Spec => []ConfiguredRpmRespected
  <1>1. "rpm" \in Axis
    BY BudgetAssumption
  <1>2. IInv => ConfiguredRpmRespected
    BY <1>1 DEF IInv, ConfigMarkIsTrue, ConfiguredLimitRespected, ConfiguredRpmRespected
  <1>3. QED
    BY <1>2, Invariance, PTL

(* A key whose probe is out is refused to everyone.                        *)
LEMMA ProbedKeyIsRefused ==
    ASSUME IInv, NEW k \in Key, probe[k] > 0
    PROVE  ~Admissible(Recover(keys[k]))
  <1>1. probe[k] \in 0..CooldownSeconds
    BY DEF IInv, TypeOK
  <1>2. keys[k].status = "cooldown" /\ keys[k].cooldown = probe[k]
    BY DEF IInv, ProbedKeyIsParked
  <1>3. Recover(keys[k]) = keys[k]
    BY <1>1, <1>2 DEF Recover
  <1>4. QED
    BY <1>2, <1>3 DEF Admissible

(* Half-open: at most one caller holds the probe of a key.                 *)
THEOREM HalfOpen == Spec => HalfOpenExclusive
  <1> DEFINE A == \A k \in Key :
                     probe[k] > 0 => \A c \in Caller : holds'[c] = k => holds[c] = k
  <1>1. ASSUME IInv, [Next]_vars PROVE [A]_vars
    <2> SUFFICES ASSUME Next, NEW k \in Key, probe[k] > 0,
                        NEW d \in Caller, holds'[d] = k
                 PROVE  holds[d] = k
      BY <1>1
    <2>1. holds \in [Caller -> Key \cup {NoKey}] /\ NoKey \notin Key
      BY <1>1, PoolAssumption DEF IInv, TypeOK
    <2>2. ASSUME NEW c \in Caller, NEW j \in Key, Reserve(c, j) PROVE holds[d] = k
      <3>1. Admissible(Recover(keys[j]))
        BY <2>2 DEF Reserve, Selectable
      <3>2. j # k
        BY <1>1, <3>1, ProbedKeyIsRefused
      <3>3. QED
        BY <2>1, <2>2, <3>2 DEF Reserve
    <2>3. ASSUME NEW c \in Caller, NEW to, Release(c, to) PROVE holds[d] = k
      BY <2>1, <2>3 DEF Release
    <2>4. ASSUME UNCHANGED holds PROVE holds[d] = k
      BY <2>4
    <2>5. ASSUME NEW c \in Caller, Request(c) PROVE holds[d] = k
      BY <2>2, <2>3, <2>4, <2>5
      DEF Request, ReserveRefused, Answered, ReadHeaders, Failed, Abandoned, callerVars
    <2>6. QED
      BY <2>4, <2>5
      DEF Next, TrafficNext, Survey, Snapshot, Tick, Validate, RestoreKey, UpdateModels,
          ApplyOfficialLimits, Register, callerVars
  <1>2. QED
    BY <1>1, Invariance, PTL DEF Spec, HalfOpenExclusive

-----------------------------------------------------------------------------
(* Observed limits.                                                        *)

Tightens(old, new) ==
    old.limit # NoLimit => new.limit # NoLimit /\ new.limit <= old.limit

(* Which operations on an entry leave its limit as it was.                 *)
LEMMA EntryTightens ==
    ASSUME NEW e \in Entry
    PROVE  /\ Tightens(e, e)
           /\ ResetEntry(e).limit = e.limit
           /\ [e EXCEPT !.count = SatAdd(e.count, 1)].limit = e.limit
           /\ [e EXCEPT !.current = FALSE].limit = e.limit
           /\ \A observed \in 0..CountCap :
                 /\ Tightens(e, MarkObserved(e, Tightened(e.limit, observed)))
                 /\ Tightens(e, Observe(e, observed))
           /\ \A value \in 0..CountCap :
                 LET f == SetLimit(e, value, "official_api")
                 IN  f.source = "observed" => Tightens(e, f)
  <1>1. e.limit \in Int
    BY BudgetAssumption DEF Entry, Limit, NoLimit
  <1>2. Tightens(e, e)
    BY <1>1 DEF Tightens
  <1>3. /\ ResetEntry(e).limit = e.limit
        /\ [e EXCEPT !.count = SatAdd(e.count, 1)].limit = e.limit
        /\ [e EXCEPT !.current = FALSE].limit = e.limit
    BY DEF ResetEntry, Entry
  <1>4. ASSUME NEW observed \in 0..CountCap
        PROVE  /\ Tightens(e, MarkObserved(e, Tightened(e.limit, observed)))
               /\ Tightens(e, Observe(e, observed))
    <2>1. MarkObserved(e, Tightened(e.limit, observed)).limit = Tightened(e.limit, observed)
      BY DEF MarkObserved, Entry
    <2>2. e.limit # NoLimit => /\ Tightened(e.limit, observed) # NoLimit
                               /\ Tightened(e.limit, observed) <= e.limit
      BY <1>1 DEF Tightened, NoLimit
    <2>3. QED
      BY <1>2, <2>1, <2>2 DEF Observe, Tightens
  <1>5. ASSUME NEW value \in 0..CountCap
        PROVE  LET f == SetLimit(e, value, "official_api")
               IN  f.source = "observed" => Tightens(e, f)
    BY <1>2 DEF SetLimit, Entry
  <1>6. QED
    BY <1>2, <1>3, <1>4, <1>5

(* Two tightening writes in a row tighten.                                 *)
LEMMA TightensTransitive ==
    ASSUME NEW e \in Entry, NEW f \in Entry, NEW h \in Entry,
           Tightens(e, f), Tightens(f, h)
    PROVE  Tightens(e, h)
  <1>1. e.limit \in Int /\ f.limit \in Int /\ h.limit \in Int
    BY BudgetAssumption DEF Entry, Limit, NoLimit
  <1>2. QED
    BY <1>1 DEF Tightens

(* The learning paths on a whole budget.                                   *)
LEMMA BudgetTightens ==
    ASSUME NEW b \in Budget, NEW a \in Axis
    PROVE  /\ Tightens(b[a], ResetWindows(b)[a])
           /\ Tightens(b[a], Charge(b)[a])
           /\ Tightens(b[a], Charge(ResetWindows(b))[a])
           /\ \A ended : Tightens(b[a], Elapse(b, ended)[a])
           /\ \A retry \in Retry : Tightens(b[a], LearnFrom429(b, retry)[a])
           /\ \A limit \in Limit, remaining \in Limit :
                 Tightens(b[a], LearnFromHeaders(b, limit, remaining)[a])
  <1> DEFINE r == ResetWindows(b)
  <1>1. \A x \in Axis : b[x] \in Entry /\ r[x] = ResetEntry(b[x]) /\ r[x] \in Entry
    BY EntryTypes DEF Budget, ResetWindows
  <1>2. \A x \in Axis : Tightens(b[x], r[x])
    BY <1>1, EntryTightens DEF Tightens
  <1>3. Tightens(b[a], Charge(b)[a]) /\ \A ended : Tightens(b[a], Elapse(b, ended)[a])
    BY <1>1, EntryTightens DEF Charge, Elapse, Tightens
  <1>4. Tightens(b[a], Charge(r)[a])
    <2>1. Charge(r)[a].limit = r[a].limit
      BY <1>1, EntryTightens DEF Charge
    <2>2. QED
      BY <1>2, <2>1 DEF Tightens
  <1> HIDE DEF r
  <1>5. ASSUME NEW retry \in Retry PROVE Tightens(b[a], LearnFrom429(b, retry)[a])
    <2>1. LearnFrom429(b, retry)[a] = IF a = TaughtAxis(retry) THEN Observe(r[a], r[a].count)
                                                               ELSE r[a]
      BY DEF LearnFrom429, r
    <2>2. r[a].count \in 0..CountCap
      BY <1>1 DEF Entry
    <2>3. Observe(r[a], r[a].count) \in Entry /\ Tightens(r[a], Observe(r[a], r[a].count))
      BY <1>1, <2>2, EntryTypes, EntryTightens
    <2>4. QED
      BY <1>1, <1>2, <2>1, <2>3, TightensTransitive
  <1>6. ASSUME NEW limit \in Limit, NEW remaining \in Limit
        PROVE  Tightens(b[a], LearnFromHeaders(b, limit, remaining)[a])
    <2> DEFINE m        == r["rpm"]
               sent     == m.count
               byLimit  == IF limit = NoLimit THEN m ELSE Observe(m, limit)
               byRemain == IF remaining = NoLimit THEN byLimit
                           ELSE Observe(byLimit, SatAdd(sent, remaining))
               daySpent == remaining # NoLimit /\ remaining <= LowRemaining /\ sent >= ManySent
    <2>1. LearnFromHeaders(b, limit, remaining)[a] =
             IF a = "rpm" THEN byRemain
             ELSE IF daySpent THEN MarkObserved(r[a], Tightened(r[a].limit, sent))
             ELSE r[a]
      BY DEF LearnFromHeaders, r
    <2>2. m \in Entry /\ sent \in 0..CountCap
      BY <1>1, BudgetAssumption DEF Entry
    <2>3. limit # NoLimit => limit \in 0..CountCap
      BY DEF Limit
    <2>4. remaining # NoLimit => SatAdd(sent, remaining) \in 0..CountCap
      BY <2>2, SatAddType DEF Limit
    <2> HIDE DEF m, sent
    <2>5. byLimit \in Entry /\ Tightens(m, byLimit)
      BY <2>2, <2>3, EntryTypes, EntryTightens
    <2> HIDE DEF byLimit
    <2>6. byRemain \in Entry /\ Tightens(byLimit, byRemain)
      BY <2>4, <2>5, EntryTypes, EntryTightens
    <2> HIDE DEF byRemain, daySpent
    <2>7. Tightens(m, byRemain)
      BY <2>2, <2>5, <2>6, TightensTransitive
    <2>8. a = "rpm" => Tightens(b[a], byRemain)
      BY <1>1, <1>2, <2>2, <2>6, <2>7, TightensTransitive DEF m
    <2>9. Tightens(b[a], MarkObserved(r[a], Tightened(r[a].limit, sent)))
      <3>1. /\ MarkObserved(r[a], Tightened(r[a].limit, sent)) \in Entry
            /\ Tightens(r[a], MarkObserved(r[a], Tightened(r[a].limit, sent)))
        BY <1>1, <2>2, EntryTypes, EntryTightens
      <3>2. QED
        BY <1>1, <1>2, <3>1, TightensTransitive
    <2>10. QED
      BY <1>2, <2>1, <2>8, <2>9
  <1>7. QED
    BY <1>2, <1>3, <1>4, <1>5, <1>6 DEF r

(* "Tightens observed limits but never relaxes them": no learning path     *)
(* raises or drops a limit.                                                *)
THEOREM OnlyTightens == Spec => ObservedLimitOnlyTightens
  <1> DEFINE Good(k, a) == budget'[k][a].source = "observed"
                              => Tightens(budget[k][a], budget'[k][a])
             A == \A k \in Key, a \in Axis :
                     LET old == budget[k][a]
                         new == budget'[k][a]
                     IN  new.source = "observed" /\ old.limit # NoLimit
                            => new.limit # NoLimit /\ new.limit <= old.limit
  <1>1. ASSUME IInv, [Next]_vars PROVE [A]_vars
    <2> SUFFICES ASSUME NEW k \in Key, NEW a \in Axis, Next PROVE Good(k, a)
      <3>1. (\A k \in Key, a \in Axis : Next => Good(k, a)) => [A]_vars
        BY <1>1 DEF Tightens
      <3>2. QED
        BY <3>1
    <2>1. /\ budget \in [Key -> Budget]
          /\ \A j \in Key : budget[j] \in Budget /\ \A x \in Axis : budget[j][x] \in Entry
      BY <1>1 DEF IInv, TypeOK, Budget
    <2>2. holds \in [Caller -> Key \cup {NoKey}] /\ CallersHoldKeys
      BY <1>1 DEF IInv, TypeOK
    <2>3. ASSUME UNCHANGED budget PROVE Good(k, a)
      BY <2>1, <2>3, EntryTightens
    <2>4. ASSUME NEW j \in Key, NEW b, budget' = [budget EXCEPT ![j] = b],
                 Tightens(budget[j][a], b[a])
          PROVE  Good(k, a)
      BY <2>1, <2>4, EntryTightens
    <2>5. ASSUME NEW j \in Key, Reported(j) PROVE Good(k, a)
      <3>1. CASE ReservedSuccess(j)
        BY <2>1, <2>4, <3>1, BudgetTightens DEF ReservedSuccess
      <3>2. CASE UnreservedSuccess(j)
        BY <2>1, <2>4, <3>2, BudgetTightens DEF UnreservedSuccess
      <3>3. CASE RateLimitFailure(j)
        <4>1. PICK retry \in RetryAfter :
                 budget' = [budget EXCEPT ![j] = LearnFrom429(budget[j], retry)]
          BY <3>3 DEF RateLimitFailure
        <4>2. retry \in Retry
          BY PoolAssumption
        <4>3. QED
          BY <2>1, <2>4, <4>1, <4>2, BudgetTightens
      <3>4. QED
        BY <2>3, <2>5, <3>1, <3>2, <3>3
        DEF Reported, GatewayError, AuthFailure, TransientFailure, StreamBodyFailure,
            RealModelUnavailable, RealModelRateLimited
    <2>6. ASSUME NEW c \in Caller, Request(c) PROVE Good(k, a)
      <3>1. pc[c] # "idle" => holds[c] \in Key
        BY <2>2 DEF CallersHoldKeys
      <3>2. ASSUME NEW j \in Key, Reserve(c, j) \/ ReserveRefused(c, j) PROVE Good(k, a)
        BY <2>1, <2>4, <3>2, BudgetTightens DEF Reserve, ReserveRefused
      <3>3. CASE Answered(c) \/ Failed(c)
        BY <2>5, <3>1, <3>3 DEF Answered, Failed, Reported
      <3>4. CASE ReadHeaders(c)
        <4>1. PICK limit \in HeaderLimit, remaining \in HeaderRemaining :
                 budget' = [budget EXCEPT ![holds[c]] =
                               LearnFromHeaders(budget[holds[c]], limit, remaining)]
          BY <3>4 DEF ReadHeaders
        <4>2. limit \in Limit /\ remaining \in Limit /\ holds[c] \in Key
          BY <3>1, <3>4, PoolAssumption DEF ReadHeaders
        <4>3. QED
          BY <2>1, <2>4, <4>1, <4>2, BudgetTightens
      <3>5. CASE Abandoned(c)
        BY <2>3, <3>5 DEF Abandoned, poolVars
      <3>6. QED
        BY <2>6, <3>2, <3>3, <3>4, <3>5 DEF Request
    <2>7. CASE Survey \/ Snapshot
      <3>1. CASE Survey
        BY <2>1, <3>1, BudgetTightens DEF Survey
      <3>2. QED
        BY <2>3, <2>7, <3>1 DEF Snapshot
    <2>8. CASE Tick
      BY <2>1, <2>8, BudgetTightens DEF Tick
    <2>9. CASE Register
      <3>1. budget'[k][a].source \in {"none", "config"}
        BY <2>9 DEF Register, FreshBudget, FreshEntry
      <3>2. QED
        BY <3>1
    <2>10. ASSUME NEW j \in Key,
                  Validate(j) \/ RestoreKey(j) \/ UpdateModels(j) \/ ApplyOfficialLimits(j)
           PROVE  Good(k, a)
      <3>1. CASE Validate(j)
        BY <2>5, <3>1 DEF Validate, Reported
      <3>2. CASE RestoreKey(j) \/ UpdateModels(j)
        BY <2>3, <3>2 DEF RestoreKey, UpdateModels
      <3>3. CASE ApplyOfficialLimits(j)
        <4>1. PICK value \in [Axis -> OfficialLimit \cup {0}] :
                 budget' = [budget EXCEPT ![j] =
                    [x \in Axis |-> SetLimit(budget[j][x], value[x], "official_api")]]
          BY <3>3 DEF ApplyOfficialLimits
        <4>2. value[a] \in 0..CountCap
          <5>1. OfficialLimit \cup {0} \subseteq 0..CountCap
            BY PoolAssumption, BudgetAssumption
          <5>2. QED
            BY <5>1
        <4>3. CASE j = k
          <5>1. budget'[k][a] = SetLimit(budget[k][a], value[a], "official_api")
            BY <2>1, <4>1, <4>3
          <5>2. QED
            BY <2>1, <4>2, <5>1, EntryTightens
        <4>4. CASE j # k
          BY <2>1, <4>1, <4>4, EntryTightens
        <4>5. QED
          BY <4>3, <4>4
      <3>4. QED
        BY <2>10, <3>1, <3>2, <3>3
    <2>11. TrafficNext => Good(k, a)
      BY <2>6, <2>7, <2>8 DEF TrafficNext
    <2>12. QED
      BY <2>9, <2>10, <2>11 DEF Next
  <1>2. QED
    BY <1>1, Invariance, PTL DEF Spec, ObservedLimitOnlyTightens

-----------------------------------------------------------------------------
(* The pool implements the admission control.                              *)

(* The initial pool maps to the initial admission control.                 *)
LEMMA PromiseInit == Init => Promise!Init
  <1>1. "rpm" \in Axis
    BY BudgetAssumption
  <1>2. QED
    BY <1>1 DEF Init, Promise!Init, MeteredKey

(* A granted reservation is an admission.                                  *)
LEMMA ReserveAdmits ==
    ASSUME IInv, NEW c \in Caller, NEW k \in Key, Reserve(c, k)
    PROVE  Promise!Admit(k)
  <1> DEFINE b == ResetWindows(budget[k])
             s == Recover(keys[k])
  <1>1. RecordsOK /\ BudgetsOK /\ "rpm" \in Axis
    BY Regrouped, BudgetAssumption
  <1>2. Admissible(s) /\ ~IsRateLimited(b)
    BY DEF Reserve, Selectable
  <1>3. probe \in [Key -> 0..CooldownSeconds]
    BY <1>1 DEF RecordsOK
  <1>4. probe[k] = 0
    BY <1>2, <1>3, ProbedKeyIsRefused, KeyStateAssumption
  <1>5. k \in MeteredKey => granted[k]["rpm"] < ConfiguredLimit[k]["rpm"]
    <2>1. BudgetOK(b, granted[k], ConfiguredLimit[k])
      BY <1>1, BudgetSteps DEF BudgetsOK
    <2>2. /\ b["rpm"] \in Entry
          /\ granted[k]["rpm"] \in 0..CountCap
          /\ EntryOK(b["rpm"], granted[k]["rpm"], ConfiguredLimit[k]["rpm"], "rpm")
      BY <1>1, <2>1 DEF BudgetOK, Budget
    <2>3. b["rpm"].current = TRUE
      <3>1. budget[k]["rpm"] \in Entry /\ b["rpm"] = ResetEntry(budget[k]["rpm"])
        BY <1>1 DEF BudgetsOK, Budget, ResetWindows
      <3>2. QED
        BY <3>1 DEF ResetEntry, Entry
    <2>4. b["rpm"].limit # NoLimit => b["rpm"].count < b["rpm"].limit
      BY <1>1, <1>2, <2>2, <2>3 DEF IsRateLimited, Entry, Limit, NoLimit
    <2>5. ConfiguredLimit[k]["rpm"] # NoLimit =>
             /\ b["rpm"].limit = ConfiguredLimit[k]["rpm"]
             /\ granted[k]["rpm"] <= b["rpm"].count
      BY <2>2, <2>3 DEF EntryOK
    <2>6. b["rpm"].count \in 0..CountCap /\ b["rpm"].limit \in Limit
      BY <2>2 DEF Entry
    <2> HIDE DEF b
    <2>7. QED
      BY <2>2, <2>4, <2>5, <2>6 DEF MeteredKey, Limit, NoLimit
  <1>6. \A j \in MeteredKey :
           granted'[j]["rpm"] = IF j = k THEN granted[j]["rpm"] + 1 ELSE granted[j]["rpm"]
    <2>1. granted' = [granted EXCEPT ![k] = [a \in Axis |-> SatAdd(granted[k][a], 1)]]
      BY DEF Reserve
    <2>2. granted \in [Key -> [Axis -> 0..CountCap]]
      BY <1>1 DEF BudgetsOK
    <2>3. granted[k]["rpm"] \in 0..CountCap
      BY <1>1, <2>2
    <2>4. k \in MeteredKey => ConfiguredLimit[k]["rpm"] \in 0..CountCap
      BY <1>1, PoolAssumption DEF MeteredKey, Limit
    <2>5. k \in MeteredKey => SatAdd(granted[k]["rpm"], 1) = granted[k]["rpm"] + 1
      BY <1>5, <2>3, <2>4, BudgetAssumption DEF SatAdd
    <2>6. granted'[k]["rpm"] = SatAdd(granted[k]["rpm"], 1)
      BY <1>1, <2>1, <2>2
    <2>7. \A j \in Key : j # k => granted'[j] = granted[j]
      BY <2>1, <2>2
    <2>8. QED
      BY <2>5, <2>6, <2>7 DEF MeteredKey
  <1>7. \E t \in {0, CooldownSeconds} : probe' = [probe EXCEPT ![k] = t]
    <2>1. CASE s.status = "probing"
      BY <2>1 DEF Reserve
    <2>2. CASE s.status # "probing"
      <3>1. probe' = probe
        BY <2>2 DEF Reserve
      <3>2. probe' = [probe EXCEPT ![k] = 0]
        BY <3>1, <1>3, <1>4
      <3>3. QED
        BY <3>2
    <2>3. QED
      BY <2>1, <2>2
  <1>8. QED
    BY <1>4, <1>5, <1>6, <1>7 DEF Promise!Admit, MeteredKey

(* Every step of the pool is a step of the admission control or none.      *)
LEMMA StepImplements ==
    ASSUME IInv, Next
    PROVE  Promise!Next \/ UNCHANGED <<[k \in MeteredKey |-> granted[k]["rpm"]], probe>>
  <1> DEFINE Goal == Promise!Next \/ UNCHANGED <<[k \in MeteredKey |-> granted[k]["rpm"]], probe>>
  <1>1. "rpm" \in Axis /\ RecordsOK /\ BudgetsOK /\ CallersOK
    BY Regrouped, BudgetAssumption
  <1>2. ASSUME UNCHANGED <<granted, probe>> PROVE Goal
    BY <1>2
  <1>3. ASSUME NEW k \in Key, NEW t, Settle(k, t), UNCHANGED granted PROVE Goal
    <2>1. Promise!Settle(k)
      BY <1>3 DEF Settle, Promise!Settle
    <2>2. QED
      BY <2>1 DEF Promise!Next
  <1>4. ASSUME NEW k \in Key, Reported(k), UNCHANGED granted PROVE Goal
    <2>1. \E t : Settle(k, t)
      BY <1>4 DEF Reported, ReservedSuccess, UnreservedSuccess, GatewayError, AuthFailure,
         RateLimitFailure, TransientFailure, StreamBodyFailure, RealModelUnavailable,
         RealModelRateLimited
    <2>2. QED
      BY <1>3, <1>4, <2>1
  <1>5. ASSUME NEW c \in Caller, Request(c) PROVE Goal
    <2>1. ASSUME NEW k \in Key, Reserve(c, k) PROVE Goal
      <3>1. Promise!Admit(k)
        BY <2>1, ReserveAdmits
      <3>2. QED
        BY <3>1 DEF Promise!Next
    <2>2. ASSUME NEW k \in Key, ReserveRefused(c, k) PROVE Goal
      BY <1>2, <2>2 DEF ReserveRefused, history
    <2>3. CASE Answered(c)
      <3>1. holds[c] \in Key
        BY <1>1, <2>3 DEF Answered, CallersOK, CallersHoldKeys
      <3>2. Reported(holds[c]) /\ UNCHANGED granted
        BY <2>3 DEF Answered, Release, Reported
      <3>3. QED
        BY <1>4, <3>1, <3>2
    <2>4. CASE Failed(c)
      <3>1. holds[c] \in Key
        BY <1>1, <2>4 DEF Failed, CallersOK, CallersHoldKeys
      <3>2. Reported(holds[c]) /\ UNCHANGED granted
        BY <2>4 DEF Failed, Release, Reported
      <3>3. QED
        BY <1>4, <3>1, <3>2
    <2>5. CASE ReadHeaders(c) \/ Abandoned(c)
      BY <1>2, <2>5 DEF ReadHeaders, Abandoned, Release
    <2>6. QED
      BY <1>5, <2>1, <2>2, <2>3, <2>4, <2>5 DEF Request
  <1>6. CASE Survey \/ Snapshot
    BY <1>2, <1>6 DEF Survey, Snapshot, history
  <1>7. CASE Tick
    <2>1. \A k \in Key : probe[k] \in 0..CooldownSeconds
      BY <1>1 DEF RecordsOK
    <2>2. probe' = [k \in Key |-> IF probe[k] > 0 THEN probe[k] - 1 ELSE 0]
      BY <1>7, <2>1, KeyStateAssumption DEF Tick
    <2>3. \A k \in Key :
             granted'[k]["rpm"] = IF "rpm" \in Ended THEN 0 ELSE granted[k]["rpm"]
      BY <1>1, <1>7 DEF Tick
    <2>4. Promise!Tick
      <3>1. CASE "rpm" \in Ended
        BY <2>2, <2>3, <3>1 DEF Promise!Tick, MeteredKey
      <3>2. CASE "rpm" \notin Ended
        BY <2>2, <2>3, <3>2 DEF Promise!Tick, MeteredKey
      <3>3. QED
        BY <3>1, <3>2
    <2>5. QED
      BY <2>4 DEF Promise!Next
  <1>8. ASSUME NEW k \in Key,
               Validate(k) \/ RestoreKey(k) \/ UpdateModels(k) \/ ApplyOfficialLimits(k)
        PROVE  Goal
    <2>1. CASE Validate(k)
      BY <1>4, <2>1 DEF Validate, Reported
    <2>2. CASE RestoreKey(k)
      BY <1>3, <2>2 DEF RestoreKey
    <2>3. CASE UpdateModels(k) \/ ApplyOfficialLimits(k)
      BY <1>2, <2>3 DEF UpdateModels, ApplyOfficialLimits, history
    <2>4. QED
      BY <1>8, <2>1, <2>2, <2>3
  <1>9. CASE Register
    <2>1. Promise!Replace
      BY <1>1, <1>9 DEF Register, Promise!Replace, MeteredKey
    <2>2. QED
      BY <2>1 DEF Promise!Next
  <1>10. QED
    <2>1. TrafficNext => Goal
      BY <1>5, <1>6, <1>7 DEF TrafficNext
    <2>2. (\E k \in Key : \/ Validate(k)
                        \/ RestoreKey(k)
                        \/ UpdateModels(k)
                        \/ ApplyOfficialLimits(k)) => Goal
      BY <1>8
    <2>3. QED
      BY <2>1, <2>2, <1>9 DEF Next

(* Every behaviour of the pool is a behaviour of the admission control:    *)
(* reserve_key admits a metered key at most rpm_limit times in a window    *)
(* and never while its probe is out.                                       *)
THEOREM Refinement == Spec => ImplementsAdmission
  <1>1. ASSUME IInv, [Next]_vars
        PROVE  [Promise!Next]_<<[k \in MeteredKey |-> granted[k]["rpm"]], probe>>
    <2>1. CASE Next
      BY <1>1, <2>1, StepImplements
    <2>2. CASE UNCHANGED vars
      BY <2>2 DEF vars, history
    <2>3. QED
      BY <1>1, <2>1, <2>2
  <1>2. QED
    BY <1>1, PromiseInit, Invariance, PTL DEF Spec, ImplementsAdmission, Promise!Spec

=============================================================================
