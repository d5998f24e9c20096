--------------------------- MODULE DiscoveryProofs ---------------------------
(***************************************************************************)
(* What is proved of Discovery, for every number of keys, requests and     *)
(* watchers: the invariant of the pool survives a start from any state     *)
(* file, the discovery of models beside the traffic, and an operator's     *)
(* refresh that reserves keys and reports on them without being a caller.  *)
(***************************************************************************)
EXTENDS Discovery, KeyPoolProofs

(* A record restored from a state file is in order.                        *)
LEMMA RestoredOK ==
    ASSUME NEW s \in Savable
    PROVE  RecordOK(Recover(Restored(s)), 0)
  <1>1. s \in KeyState
    BY DiscoveryAssumption DEF Savable, KeyState, Status
  <1>2. RecordOK(s, 0)
    BY <1>1, KeyStateAssumption DEF Savable, RecordOK
  <1>3. RecordOK(RestoreByHand(s), 0)
    BY <1>1, <1>2, KeyStateAssumption, RecordReports
  <1>4. RecordOK(Restored(s), 0)
    BY <1>2, <1>3 DEF Restored, RestoreByHand
  <1>5. QED
    BY <1>4, KeyStateAssumption, RecordSteps DEF RecordOK

(* A restored counter is in order with what it says the previous process   *)
(* granted in the window.                                                  *)
LEMMA RestoredEntryOK ==
    ASSUME NEW e \in Entry, NEW limit \in Limit, NEW a \in Axis,
           e.source = "config" => limit # NoLimit
    PROVE  /\ RestoredEntry(e, limit) \in Entry
           /\ EntryOK(RestoredEntry(e, limit), Carried(RestoredEntry(e, limit)), limit, a)
  <1> DEFINE r == RestoredEntry(e, limit)
  <1>1. r \in Entry
    BY DEF RestoredEntry, Entry, Source
  <1>2. limit # NoLimit => r.limit = limit /\ r.source = "config"
    BY DEF RestoredEntry, Entry
  <1>3. limit = NoLimit => r.source # "config"
    BY DEF RestoredEntry
  <1> HIDE DEF r
  <1>4. 0 \in 0..CountCap
    BY BudgetAssumption
  <1>5. EntryOK(r, Carried(r), limit, a)
    BY <1>1, <1>2, <1>3, <1>4, BudgetAssumption DEF EntryOK, Carried, Entry, Limit, NoLimit
  <1>6. QED
    BY <1>1, <1>5 DEF r

LEMMA RestoredBudgetOK ==
    ASSUME NEW k \in Key, NEW c \in RestoredBudgets(k)
    PROVE  BudgetOK(c, [a \in Axis |-> Carried(c[a])], ConfiguredLimit[k])
  <1>1. PICK b \in SavedFor(k) : c = [a \in Axis |-> RestoredEntry(b[a], ConfiguredLimit[k][a])]
    BY DEF RestoredBudgets
  <1>2. b \in [Axis -> Entry] /\ \A a \in Axis : b[a].source = "config" => ConfiguredLimit[k][a] # NoLimit
    BY DiscoveryAssumption DEF SavedFor, Budget
  <1>3. ConfiguredLimit[k] \in [Axis -> Limit]
    BY PoolAssumption
  <1>4. ASSUME NEW a \in Axis
        PROVE  c[a] \in Entry /\ EntryOK(c[a], Carried(c[a]), ConfiguredLimit[k][a], a)
    <2>1. b[a] \in Entry /\ ConfiguredLimit[k][a] \in Limit
      BY <1>2, <1>3
    <2>2. b[a].source = "config" => ConfiguredLimit[k][a] # NoLimit
      BY <1>2
    <2>3. c[a] = RestoredEntry(b[a], ConfiguredLimit[k][a])
      BY <1>1
    <2>4. QED
      BY <2>1, <2>2, <2>3, RestoredEntryOK
  <1>5. c \in [Axis -> Entry]
    BY <1>1, <1>4
  <1>6. \A a \in Axis : Carried(c[a]) \in 0..CountCap
    BY <1>4 DEF EntryOK
  <1>7. QED
    BY <1>4, <1>5, <1>6 DEF BudgetOK, Budget

LEMMA DiscoveryInitOK == DiscoveryInit => IInv
  <1> SUFFICES ASSUME DiscoveryInit PROVE IInv
    OBVIOUS
  <1>1. CASE Init
    BY <1>1, InitOK
  <1>2. CASE RestoredInit
    <2>1. \A k \in Key : RecordOK(keys[k], 0)
      BY <1>2, RestoredOK DEF RestoredInit
    <2>2. RecordsOK
      BY <1>2, <2>1, KeyStateAssumption DEF RestoredInit, RecordsOK, RecordOK
    <2>3. BudgetsOK
      <3>1. budget \in [Key -> Budget] /\ \A k \in Key : budget[k] \in RestoredBudgets(k)
        BY <1>2 DEF RestoredInit
      <3>2. granted = [k \in Key |-> [a \in Axis |-> Carried(budget[k][a])]]
        BY <1>2 DEF RestoredInit
      <3>3. \A k \in Key : BudgetOK(budget[k], granted[k], ConfiguredLimit[k])
        BY <3>1, <3>2, RestoredBudgetOK
      <3>4. \A k \in Key : granted[k] \in [Axis -> 0..CountCap]
        BY <3>3 DEF BudgetOK
      <3>5. QED
        BY <3>1, <3>2, <3>3, <3>4 DEF BudgetsOK
    <2>4. CallersOK
      <3>1. clock \in [Axis -> Nat]
        BY <1>2, PoolAssumption DEF RestoredInit
      <3>2. QED
        BY <1>2, <3>1 DEF RestoredInit, CallersOK, CallersHoldKeys
    <2>5. QED
      BY <2>2, <2>3, <2>4, Regrouped
  <1>3. QED
    BY <1>1, <1>2 DEF DiscoveryInit

-----------------------------------------------------------------------------
(* The refresh of the operator.                                            *)

LEMMA RefreshAsksStep ==
    ASSUME IInv, NEW k \in Key, RefreshAsks(k)
    PROVE  IInv'
  <1> DEFINE s == Recover(keys[k])
             b == ResetWindows(budget[k])
  <1>1. RecordsOK /\ BudgetsOK /\ CallersOK
    BY Regrouped
  <1>2. CallersOK'
    BY <1>1 DEF RefreshAsks, callerVars, CallersOK, CallersHoldKeys
  <1>3. CASE Selectable(s, b)
    <2>1. RecordsOK' /\ BudgetsOK'
      BY <1>1, <1>3, GrantOK DEF RefreshAsks, Selectable
    <2>2. QED
      BY <1>2, <2>1, RegroupedNext
  <1>4. CASE ~Selectable(s, b)
    <2>1. /\ keys' = [Recovered EXCEPT ![k] = s] /\ UNCHANGED <<granted, probe>>
          /\ budget' = [budget EXCEPT ![k] = b]
      BY <1>4 DEF RefreshAsks
    <2>2. keys' = Recovered
      BY <2>1 DEF Recovered
    <2>3. RecordsOK'
      BY <1>1, <2>1, <2>2, RecoveredOK DEF RecordsOK
    <2>4. BudgetOK(b, granted[k], ConfiguredLimit[k])
      BY <1>1, BudgetSteps DEF BudgetsOK
    <2>5. BudgetsOK'
      BY <1>1, <2>1, <2>4, BudgetReplacedOK
    <2>6. QED
      BY <1>2, <2>3, <2>5, RegroupedNext
  <1>5. QED
    BY <1>3, <1>4

LEMMA RefreshListsStep ==
    ASSUME IInv, NEW k \in Key, RefreshLists(k)
    PROVE  IInv'
  <1>1. UpdateModels(k)
    BY DEF RefreshLists, UpdateModels
  <1>2. QED
    BY <1>1, OperatorStep

LEMMA RefreshReportsStep ==
    ASSUME IInv, NEW k \in Key, RefreshReports(k)
    PROVE  IInv'
  <1>1. RecordsOK /\ BudgetsOK /\ CallersOK
    BY Regrouped
  <1>2. CallersOK' /\ UNCHANGED granted
    BY <1>1 DEF RefreshReports, callerVars, CallersOK, CallersHoldKeys
  <1>3. Reported(k)
    BY DEF RefreshReports, Reported
  <1>4. RecordsOK' /\ BudgetsOK'
    BY <1>1, <1>2, <1>3, ReportOK
  <1>5. QED
    BY <1>2, <1>4, RegroupedNext

-----------------------------------------------------------------------------
(* Everything else is a step of the pool, or none.                         *)

LEMMA Surveys ==
    ASSUME SurveyPool, UNCHANGED <<clock, callerVars, history>>
    PROVE  Survey
  BY DEF SurveyPool, Surveyed, Survey

LEMMA DiscoveryStepOK ==
    ASSUME IInv, NEW d \in Run, DiscoveryStep(d)
    PROVE  IInv'
  <1>1. CASE Begin(d) \/ Ask(d) \/ Watch(d) \/ CheckEnds(d)
    <2>1. Survey
      BY <1>1, Surveys DEF Begin, Ask, Watch, CheckEnds
    <2>2. QED
      BY <2>1, SurveyStep
  <1>2. CASE Skip(d) \/ Finish(d) \/ \E k \in Key : ListFails(d, k)
    BY <1>2, NextPreservesIInv DEF Skip, Finish, ListFails
  <1>3. ASSUME NEW k \in Key, Lists(d, k) PROVE IInv'
    <2>1. UpdateModels(k)
      BY <1>3 DEF Lists, UpdateModels
    <2>2. QED
      BY <2>1, OperatorStep
  <1>4. QED
    BY <1>1, <1>2, <1>3 DEF DiscoveryStep

THEOREM DiscoveryPreservesIInv == IInv /\ [DiscoveryNext]_allVars => IInv'
  <1> SUFFICES ASSUME IInv, [DiscoveryNext]_allVars PROVE IInv'
    OBVIOUS
  <1>1. ASSUME UNCHANGED vars PROVE IInv'
    BY <1>1, NextPreservesIInv
  <1>2. CASE Traffic
    BY <1>2, NextPreservesIInv DEF Traffic, Next, TrafficNext
  <1>3. CASE Passes
    BY <1>3, TickStep DEF Passes
  <1>4. CASE RefreshBegins
    BY <1>4, Surveys, SurveyStep DEF RefreshBegins
  <1>5. ASSUME NEW k \in Key, RefreshAsksDisabled(k) PROVE IInv'
    BY <1>1, <1>5 DEF RefreshAsksDisabled
  <1>6. ASSUME NEW k \in Key, RefreshFails(k) PROVE IInv'
    <2>1. CASE GatewayError(k)
      BY <1>6, <2>1, OperatorStep DEF RefreshFails, Validate
    <2>2. CASE UNCHANGED <<keys, budget, probe>>
      BY <1>1, <1>6, <2>2 DEF RefreshFails, vars, poolVars, callerVars, history
    <2>3. QED
      BY <1>6, <2>1, <2>2 DEF RefreshFails
  <1>7. CASE Outage
    BY <1>1, <1>7 DEF Outage
  <1>8. CASE UNCHANGED allVars
    BY <1>1, <1>8 DEF allVars
  <1>9. QED
    BY <1>2, <1>3, <1>4, <1>5, <1>6, <1>7, <1>8, DiscoveryStepOK, RefreshAsksStep,
       RefreshListsStep, RefreshReportsStep DEF DiscoveryNext

(* The pool keeps its promises beside model discovery and after a restart. *)
THEOREM DiscoveryInvariance == DiscoverySpec => []IInv
  BY DiscoveryInitOK, DiscoveryPreservesIInv, PTL DEF DiscoverySpec

(* A key that may be reserved carries no deadline, although state files    *)
(* bring old deadlines back, discovery takes disabled keys back and a      *)
(* refresh reports on keys it reserved (restore_states, update_models,     *)
(* admin_provider_refresh).                                                *)
THEOREM NoStaleDeadlineAfterRestart == DiscoverySpec => []SelectableHasNoDeadline
  <1>1. IInv => SelectableHasNoDeadline
    BY DEF IInv
  <1>2. QED
    BY <1>1, DiscoveryInvariance, PTL

=============================================================================
