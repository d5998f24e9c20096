--------------------------- MODULE SelectionProofs ---------------------------
(***************************************************************************)
(* What is proved of the choice of a deployment (ModelNames.tla,           *)
(* Routing.tla and AdaptiveRouting.tla), for any providers, keys, names,   *)
(* aliases, fallbacks and histories of results.                            *)
(*                                                                         *)
(* Typed, the types of the state, is inductive and carries most of it:     *)
(* what a list of candidates is follows from what filtering, sorting,      *)
(* rotating and concatenating take from their arguments (Takes, Shifted,   *)
(* Covers).  Two theorems need more: that no key is asked twice rests on   *)
(* Asking, what a request under way has yet to ask, and that what is       *)
(* listed is served on Stocked, that no key lists what its provider does   *)
(* not.                                                                    *)
(***************************************************************************)
EXTENDS AdaptiveRouting, FiniteInduction, SequenceTheorems

-----------------------------------------------------------------------------
(* The lexicographic order *)

ByKey(S, k) == {p \in S \X S : Before(k[p[1]], k[p[2]])}
KeysOf(S, k, m) ==
    /\ \A x \in S : k[x] \in Seq(Int) /\ Len(k[x]) = m
    /\ \A x, y \in S : k[x] = k[y] => x = y

(* Elements with different keys of one length are strictly ordered. *)
LEMMA KeysOrder ==
    ASSUME NEW S, NEW k, NEW m \in Nat, KeysOf(S, k, m)
    PROVE  TotalOrder(S, ByKey(S, k))
  <1>1. ASSUME NEW x \in S PROVE <<x, x>> \notin ByKey(S, k)
    <2>1. SUFFICES ASSUME NEW i \in 1..m, k[x][i] < k[x][i] PROVE FALSE
      BY DEF ByKey, Before, KeysOf
    <2>2. k[x][i] \in Int
      BY DEF KeysOf
    <2>3. QED
      BY <2>1, <2>2
  <1>2. ASSUME NEW x \in S, NEW y \in S, NEW z \in S,
               <<x, y>> \in ByKey(S, k), <<y, z>> \in ByKey(S, k)
        PROVE  <<x, z>> \in ByKey(S, k)
    <2>1. PICK i \in 1..m : k[x][i] < k[y][i] /\ \A n \in 1..(i - 1) : k[x][n] = k[y][n]
      BY <1>2 DEF ByKey, Before, KeysOf
    <2>2. PICK j \in 1..m : k[y][j] < k[z][j] /\ \A n \in 1..(j - 1) : k[y][n] = k[z][n]
      BY <1>2 DEF ByKey, Before, KeysOf
    <2>3. ASSUME NEW n \in 1..m PROVE k[x][n] \in Int /\ k[y][n] \in Int /\ k[z][n] \in Int
      BY DEF KeysOf
    <2>4. \E l \in 1..m : k[x][l] < k[z][l] /\ \A n \in 1..(l - 1) : k[x][n] = k[z][n]
      <3>1. CASE i < j
        <4>1. i \in 1..(j - 1) /\ \A n \in 1..(i - 1) : n \in 1..(j - 1)
          BY <3>1
        <4>2. k[x][i] < k[z][i] /\ \A n \in 1..(i - 1) : k[x][n] = k[z][n]
          BY <2>1, <2>2, <4>1
        <4>3. QED
          BY <4>2
      <3>2. CASE i = j
        <4>1. k[x][i] < k[z][i]
          BY <2>1, <2>2, <2>3, <3>2
        <4>2. \A n \in 1..(i - 1) : k[x][n] = k[z][n]
          BY <2>1, <2>2, <3>2
        <4>3. QED
          BY <4>1, <4>2
      <3>3. CASE j < i
        <4>1. j \in 1..(i - 1) /\ \A n \in 1..(j - 1) : n \in 1..(i - 1)
          BY <3>3
        <4>2. k[x][j] < k[z][j] /\ \A n \in 1..(j - 1) : k[x][n] = k[z][n]
          BY <2>1, <2>2, <4>1
        <4>3. QED
          BY <4>2
      <3>4. QED
        BY <3>1, <3>2, <3>3
    <2>5. QED
      BY <2>4 DEF ByKey, Before, KeysOf
  <1>3. ASSUME NEW x \in S, NEW y \in S, x # y
        PROVE  <<x, y>> \in ByKey(S, k) \/ <<y, x>> \in ByKey(S, k)
    <2> DEFINE D == {n \in 1..m : k[x][n] # k[y][n]}
    <2>1. k[x] \in Seq(Int) /\ Len(k[x]) = m /\ k[y] \in Seq(Int) /\ Len(k[y]) = m
      BY DEF KeysOf
    <2>2. D # {}
      <3>1. k[x] # k[y]
        BY <1>3 DEF KeysOf
      <3>2. QED
        BY <2>1, <3>1, SeqEqual
    <2>3. PICK i \in D : \A j \in D : i <= j
      BY <2>2, LeastNatural, D \subseteq Nat
    <2>4. \A n \in 1..(i - 1) : k[x][n] = k[y][n]
      <3>1. \A n \in 1..(i - 1) : n \in 1..m /\ ~ (i <= n)
        OBVIOUS
      <3>2. QED
        BY <2>3, <3>1
    <2>5. k[x][i] < k[y][i] \/ k[y][i] < k[x][i]
      <3>1. k[x][i] \in Int /\ k[y][i] \in Int /\ k[x][i] # k[y][i]
        BY <2>1
      <3>2. QED
        BY <3>1
    <2>6. i \in 1..m
      OBVIOUS
    <2> HIDE DEF D
    <2>7. QED
      BY <2>1, <2>4, <2>5, <2>6 DEF ByKey, Before
  <1>4. QED
    BY <1>1, <1>2, <1>3 DEF TotalOrder

(* What Least chooses from: there is a first element in the order of keys. *)
LEMMA FirstByKey ==
    ASSUME NEW S, IsFiniteSet(S), S # {}, NEW k, NEW m \in Nat, KeysOf(S, k, m)
    PROVE  \E x \in S : \A y \in S : y = x \/ Before(k[x], k[y])
  <1>1. PICK x \in S : \A y \in S : y = x \/ <<x, y>> \in ByKey(S, k)
    BY KeysOrder, FirstElement
  <1>2. QED
    BY <1>1 DEF ByKey

-----------------------------------------------------------------------------
(* Types *)

Typed ==
    /\ strategy \in Strategy
    /\ keys \in [Key -> KeyView]
    /\ gated \subseteq Provider
    /\ blocked \subseteq Provider \X Name
    /\ \A d \in DOMAIN deployments : deployments[d] \in DeploymentState
    /\ counter \in [router : Nat, hub : Nat]

(* A reserved key is a view of a key, *)
LEMMA ReservedIsAView ==
    ASSUME NEW v \in KeyView
    PROVE  Reserved(v) \in KeyView
  <1> DEFINE n == v.sent + 1
             st == IF v.status = "probing" THEN "cooldown" ELSE v.status
  <1>1. n \in Nat /\ st \in Status
    BY DEF KeyView, Status
  <1>2. Reserved(v) = [v EXCEPT !.sent = n, !.status = st]
    BY DEF Reserved
  <1> HIDE DEF n, st
  <1>3. QED
    BY <1>1, <1>2 DEF KeyView

(* so is one that a result was reported for, *)
LEMMA ReportedIsAView ==
    ASSUME NEW v \in KeyView, NEW result \in Result \cup ChatResult
    PROVE  Reported(v, result) \in KeyView
  <1> DEFINE up == v.oks + 1
             fails == v.fails + 1
             errors == v.errors + 1
             none == 0
  <1>1. up \in Nat /\ fails \in Nat /\ errors \in Nat /\ none \in Nat
    BY DEF KeyView
  <1>2. CASE result = "ok"
    <2> DEFINE st == IF v.status # "cooldown" \/ v.limited THEN "available" ELSE v.status
    <2>1. st \in Status
      BY DEF KeyView, Status
    <2>2. Reported(v, result) = [v EXCEPT !.oks = up, !.fails = none, !.status = st]
      BY <1>2 DEF Reported
    <2> HIDE DEF st, up, fails, errors, none
    <2>3. QED
      BY <1>1, <2>1, <2>2 DEF KeyView
  <1>3. CASE result = "failed"
    <2> DEFINE st == IF fails >= FailThreshold THEN "cooldown" ELSE v.status
    <2>1. st \in Status
      BY DEF KeyView, Status
    <2>2. Reported(v, result) =
            [v EXCEPT !.fails = fails, !.errors = errors, !.limited = FALSE, !.status = st]
      BY <1>3 DEF Reported
    <2> HIDE DEF st, up, fails, errors, none
    <2>3. QED
      BY <1>1, <2>1, <2>2 DEF KeyView
  <1>4. CASE result = "rate_limited"
    <2>1. Reported(v, result) =
            [v EXCEPT !.fails = fails, !.errors = errors, !.limited = TRUE,
                      !.status = "rate_limited"]
      BY <1>4 DEF Reported
    <2> HIDE DEF up, fails, errors, none
    <2>2. QED
      BY <1>1, <2>1 DEF KeyView, Status
  <1>5. CASE result = "model_limited"
    <2>1. Reported(v, result) = [v EXCEPT !.fails = fails, !.errors = errors, !.limited = TRUE]
      BY <1>5 DEF Reported
    <2> HIDE DEF up, fails, errors, none
    <2>2. QED
      BY <1>1, <2>1 DEF KeyView
  <1>6. QED
    BY <1>2, <1>3, <1>4, <1>5 DEF Result, ChatResult

(* and a deployment's row stays one. *)
LEMMA RecordedIsARow ==
    ASSUME NEW s \in DeploymentState, NEW result
    PROVE  Recorded(s, result) \in DeploymentState
  <1> DEFINE up == s.success + 1
             errors == s.error + 1
             more == s.consecutive + 1
             limited == result = "model_limited"
             none == 0
  <1>1. up \in Nat /\ errors \in Nat /\ more \in Nat /\ limited \in BOOLEAN /\ none \in Nat
    BY DEF DeploymentState
  <1>2. Recorded(s, result) =
          IF result = "ok"
          THEN [s EXCEPT !.success = up, !.consecutive = none, !.cooling = FALSE]
          ELSE [s EXCEPT !.error = errors, !.consecutive = more, !.cooling = limited]
    BY Zenon DEF Recorded
  <1> HIDE DEF up, errors, more, limited, none
  <1>3. CASE result = "ok"
    BY <1>1, <1>2, <1>3 DEF DeploymentState
  <1>4. CASE result # "ok"
    BY <1>1, <1>2, <1>4 DEF DeploymentState
  <1>5. QED
    BY <1>3, <1>4

(* Each request keeps the types, when it reserves a key *)
LEMMA ReserveTyped ==
    ASSUME Typed, NEW k, Reserve(k)
    PROVE  keys' \in [Key -> KeyView]
  <1>1. keys \in [Key -> KeyView]
    BY DEF Typed
  <1>2. k \in Key => Reserved(keys[k]) \in KeyView
    BY <1>1, ReservedIsAView
  <1>3. keys' = [keys EXCEPT ![k] = Reserved(keys[k])]
    BY DEF Reserve
  <1>4. QED
    BY <1>1, <1>2, <1>3

(* and when its result is reported. *)
LEMMA HearTyped ==
    ASSUME Typed, NEW k, NEW result \in Result \cup ChatResult, Hear(k, result)
    PROVE  keys' \in [Key -> KeyView]
  <1>1. keys \in [Key -> KeyView]
    BY DEF Typed
  <1>2. k \in Key => Reported(keys[k], result) \in KeyView
    BY <1>1, ReportedIsAView
  <1>3. keys' = [keys EXCEPT ![k] = Reported(keys[k], result)]
    BY DEF Hear
  <1>4. QED
    BY <1>1, <1>2, <1>3

(* The deployment's row keeps its type as well. *)
LEMMA RecordTyped ==
    ASSUME Typed, NEW d, NEW result, Record(d, result)
    PROVE  \A e \in DOMAIN deployments' : deployments'[e] \in DeploymentState
  <1> DEFINE row == IF d \in DOMAIN deployments THEN deployments[d] ELSE NoRow
  <1>1. row \in DeploymentState
    BY DEF Typed, NoRow, DeploymentState
  <1>2. Recorded(row, result) \in DeploymentState
    BY <1>1, RecordedIsARow
  <1>3. deployments' = [e \in DOMAIN deployments \cup {d} |->
                            IF e = d THEN Recorded(row, result) ELSE deployments[e]]
    BY DEF Record
  <1> HIDE DEF row
  <1>4. QED
    BY <1>2, <1>3 DEF Typed

(* Every step keeps the types. *)
LEMMA TypedHolds ==
    ASSUME Typed, [Next]_vars
    PROVE  Typed'
  <1>1. ASSUME NEW route, ChatAsk(route) PROVE Typed'
    <2>1. PICK k : Reserve(k)
      BY <1>1 DEF ChatAsk
    <2>2. PICK turning \in BOOLEAN :
                 counter' = [counter EXCEPT !.router = IF turning THEN @ + 1 ELSE @]
      BY <1>1 DEF ChatAsk
    <2>3. keys' \in [Key -> KeyView]
      BY <2>1, ReserveTyped
    <2>4. counter' \in [router : Nat, hub : Nat]
      BY <2>2 DEF Typed
    <2>5. UNCHANGED <<strategy, gated, blocked, deployments>>
      BY <1>1 DEF ChatAsk
    <2>6. QED
      BY <2>3, <2>4, <2>5 DEF Typed
  <1>2. ASSUME NEW result \in ChatResult, ChatHear(result) PROVE Typed'
    <2>1. keys' \in [Key -> KeyView]
      BY <1>2, HearTyped DEF ChatHear
    <2>2. \A e \in DOMAIN deployments' : deployments'[e] \in DeploymentState
      BY <1>2, RecordTyped DEF ChatHear
    <2>3. UNCHANGED <<strategy, gated, blocked, counter>>
      BY <1>2 DEF ChatHear
    <2>4. QED
      BY <2>1, <2>2, <2>3 DEF Typed
  <1>3. ASSUME NEW route, NEW agent, StartForward(route, agent) PROVE Typed'
    BY <1>3 DEF StartForward, Typed
  <1>4. ASSUME NextProvider PROVE Typed'
    <2>1. PICK turning \in BOOLEAN :
                 counter' = [counter EXCEPT !.hub = IF turning THEN @ + 1 ELSE @]
      BY <1>4 DEF NextProvider
    <2>2. counter' \in [router : Nat, hub : Nat]
      BY <2>1 DEF Typed
    <2>3. UNCHANGED <<strategy, keys, gated, blocked, deployments>>
      BY <1>4 DEF NextProvider
    <2>4. QED
      BY <2>2, <2>3 DEF Typed
  <1>5. ASSUME ForwardAsk PROVE Typed'
    <2>1. UNCHANGED keys \/ Reserve(Head(pending.keys))
      BY <1>5 DEF ForwardAsk
    <2>2. keys' \in [Key -> KeyView]
      BY <2>1, ReserveTyped DEF Typed
    <2>3. UNCHANGED <<strategy, gated, blocked, deployments, counter>>
      BY <1>5 DEF ForwardAsk
    <2>4. QED
      BY <2>2, <2>3 DEF Typed
  <1>6. ASSUME NEW result \in Result, ForwardHear(result) PROVE Typed'
    <2>1. keys' \in [Key -> KeyView]
      BY <1>6, HearTyped DEF ForwardHear
    <2>2. QED
      BY <1>6, <2>1 DEF ForwardHear, Typed
  <1>7. ASSUME ForwardFails PROVE Typed'
    BY <1>7 DEF ForwardFails, Typed
  <1>8. ASSUME NEW k \in Key, Relist(k) PROVE Typed'
    <2>1. PICK listed \in SUBSET Offers[k] : keys' = [keys EXCEPT ![k].models = listed]
      BY <1>8 DEF Relist
    <2>2. listed \subseteq Name
      BY RoutingAssumption
    <2>3. keys' \in [Key -> KeyView]
      BY <2>1, <2>2 DEF Typed, KeyView
    <2>4. QED
      BY <1>8, <2>3 DEF Relist, Typed
  <1>9. ASSUME NEW k \in Key, Recover(k) PROVE Typed'
    <2>1. Recovered(keys[k]) \in KeyView
      BY DEF Typed, Recovered, KeyView, Status
    <2>2. keys' \in [Key -> KeyView]
      BY <1>9, <2>1 DEF Recover, Typed
    <2>3. QED
      BY <1>9, <2>2 DEF Recover, Typed
  <1>10. ASSUME NEW d \in DOMAIN deployments, Thaw(d) PROVE Typed'
    <2>1. deployments' = [deployments EXCEPT ![d].cooling = FALSE]
      BY <1>10 DEF Thaw
    <2>2. \A e \in DOMAIN deployments' : deployments'[e] \in DeploymentState
      BY <2>1 DEF Typed, DeploymentState
    <2>3. QED
      BY <1>10, <2>2 DEF Thaw, Typed
  <1>11. ASSUME NEW p \in Provider, Gate(p) PROVE Typed'
    BY <1>11 DEF Gate, Typed
  <1>12. ASSUME NEW p \in Provider, NEW n \in Name, Toggle(p, n) PROVE Typed'
    BY <1>12 DEF Toggle, Typed
  <1>13. ASSUME NEW scope, NEW ask, Pick(scope, ask) PROVE Typed'
    BY <1>13 DEF Pick, Typed
  <1>14. ASSUME AskPicked PROVE Typed'
    <2>1. UNCHANGED keys \/ Reserve(pending.key)
      BY <1>14 DEF AskPicked
    <2>2. keys' \in [Key -> KeyView]
      BY <2>1, ReserveTyped DEF Typed
    <2>3. QED
      BY <1>14, <2>2 DEF AskPicked, Typed
  <1>15. ASSUME NEW result \in Result, HearPicked(result) PROVE Typed'
    <2>1. keys' \in [Key -> KeyView]
      BY <1>15, HearTyped DEF HearPicked
    <2>2. QED
      BY <1>15, <2>1 DEF HearPicked, Typed
  <1>16. CASE UNCHANGED vars
    BY <1>16 DEF vars, Typed
  <1>17. QED
    BY <1>1, <1>2, <1>3, <1>4, <1>5, <1>6, <1>7, <1>8, <1>9, <1>10, <1>11, <1>12, <1>13, <1>14,
       <1>15, <1>16
       DEF Next, RoutingNext, AdaptiveNext

(* The types hold at the start. *)
LEMMA TypedAtFirst == Init => Typed
  BY RoutingAssumption DEF Init, Typed, KeyView, Status

-----------------------------------------------------------------------------
(* The adaptive choice *)

Claim(scope, ask, d) ==
    <<-Score(d, Needs(scope, ask), ask.tokens), NameOrder[d[1]], NameRank[d[3]],
      Place(d[1], d[2])>>

(* Whatever is eligible is a deployment of the provider it is asked of,    *)
(* allowed in the scope, and of a key that may be used.                    *)
LEMMA EligibleAreDeployments ==
    ASSUME Typed, NEW scope, NEW ask, NEW d \in Eligible(scope, ask)
    PROVE  /\ d[1] \in Provider /\ d[2] \in Key /\ d[3] \in Name
           /\ d = <<d[1], d[2], d[3]>>
           /\ d[2] \in ToSet(Pool[d[1]])
           /\ Allowed(scope, d[1])
           /\ AllowPaid \/ IsFree(d[2])
  <1>1. d \in Collected(scope, ask.name) /\ (AllowPaid \/ IsFree(d[2]))
    BY DEF Eligible
  <1>2. PICK x \in Pooled :
            /\ Allowed(scope, x[1])
            /\ \E n \in keys[x[2]].models : d = <<x[1], x[2], n>>
    BY <1>1 DEF Collected
  <1>3. x[1] \in Provider /\ x[2] \in Key /\ x[2] \in ToSet(Pool[x[1]])
    BY DEF Pooled
  <1>4. keys[x[2]].models \subseteq Name
    BY <1>3 DEF Typed, KeyView
  <1>5. QED
    BY <1>1, <1>2, <1>3, <1>4

(* There are finitely many. *)
LEMMA EligibleAreFinite ==
    ASSUME Typed, NEW scope, NEW ask
    PROVE  IsFiniteSet(Eligible(scope, ask))
  <1>1. IsFiniteSet(Provider) /\ IsFiniteSet(Key) /\ IsFiniteSet(Name)
    BY NamesAssumption, RoutingAssumption
  <1>2. IsFiniteSet(Provider \X (Key \X Name))
    BY <1>1, FS_Product
  <1> DEFINE f == [d \in Eligible(scope, ask) |-> <<d[1], <<d[2], d[3]>>>>]
  <1>3. f \in Injection(Eligible(scope, ask), Provider \X (Key \X Name))
    <2>1. ASSUME NEW d \in Eligible(scope, ask)
          PROVE  f[d] \in Provider \X (Key \X Name)
      BY EligibleAreDeployments
    <2>2. ASSUME NEW d \in Eligible(scope, ask), NEW e \in Eligible(scope, ask), f[d] = f[e]
          PROVE  d = e
      <3>1. d[1] = e[1] /\ d[2] = e[2] /\ d[3] = e[3]
        BY <2>2
      <3>2. d = <<d[1], d[2], d[3]>> /\ e = <<e[1], e[2], e[3]>>
        BY EligibleAreDeployments
      <3>3. QED
        BY <3>1, <3>2
    <2>3. QED
      BY <2>1, <2>2 DEF Injection, IsInjective
  <1>4. QED
    BY <1>2, <1>3, FS_Injection

(* The parts of a score are numbers: the fit, *)
LEMMA FitIsANumber ==
    ASSUME NEW n, NEW m, NEW needs, NEW tokens
    PROVE  Fit(n, m, needs, tokens) \in Int
  <1>1. ASSUME NEW needed, NEW support
        PROVE  CapabilityScore(needed, support) \in Int
    <2>1. CASE ~needed
      <3>1. CapabilityScore(needed, support) = 0
        BY <2>1, Zenon DEF CapabilityScore
      <3>2. QED
        BY <3>1
    <2>2. CASE needed /\ support = "yes"
      <3>1. CapabilityScore(needed, support) = 20
        BY <2>2, Zenon DEF CapabilityScore
      <3>2. QED
        BY <3>1
    <2>3. CASE needed /\ support = "no"
      <3>1. CapabilityScore(needed, support) = -100
        BY <2>3 DEF CapabilityScore
      <3>2. QED
        BY <3>1
    <2>4. CASE needed /\ support # "yes" /\ support # "no"
      <3>1. CapabilityScore(needed, support) = 2
        BY <2>4, Zenon DEF CapabilityScore
      <3>2. QED
        BY <3>1
    <2>5. QED
      BY <2>1, <2>2, <2>3, <2>4
  <1> DEFINE a == CapabilityScore("vision" \in needs, m.vision)
             b == CapabilityScore("tools" \in needs, m.tools)
             c == CapabilityScore("reasoning" \in needs, m.reasoning)
  <1>2. a \in Int /\ b \in Int /\ c \in Int
    BY <1>1, Zenon
  <1>3. Fit(n, m, needs, tokens) =
          20 + a + b + c
             + (IF "coding" \in needs /\ Words[n] \cap {"coder", "code", "qwen3"} # {} THEN 12 ELSE 0)
             + (IF "long_context" \in needs /\ m.window # NoWindow /\ m.window >= tokens THEN 10 ELSE 0)
    BY DEF Fit
  <1> HIDE DEF a, b, c
  <1>4. QED
    BY <1>2, <1>3

(* the record, from 0 to 15, *)
LEMMA RecordInRange ==
    ASSUME NEW oks \in Nat, NEW errors \in Nat
    PROVE  Record15(oks, errors) \in 0..15
  <1>1. CASE oks + errors > 0
    <2> DEFINE n == oks + errors
               q == (oks * 15) \div n
    <2>1. n \in Nat /\ n > 0
      BY <1>1
    <2>2. Record15(oks, errors) = q
      BY <1>1 DEF Record15
    <2>3. q \in 0..15
      BY <1>1
    <2> HIDE DEF n, q
    <2>4. QED
      BY <2>2, <2>3
  <1>2. CASE ~ (oks + errors > 0)
    BY <1>2 DEF Record15
  <1>3. QED
    BY <1>1, <1>2

(* and what the metadata and the operator say. *)
LEMMA PricesAreNumbers ==
    ASSUME NEW p \in Provider, NEW n
    PROVE  PriorityScore(p) \in Int /\ PriceScore[MetaOf(p, n).price] \in Int
  <1>1. Priority[p] \in Nat
    BY AdaptiveAssumption
  <1>2. PriorityScore(p) \in Int
    BY <1>1 DEF PriorityScore
  <1>3. MetaOf(p, n).price \in {"none", "free", "priced"}
    BY AdaptiveAssumption DEF MetaOf, Unlisted
  <1>4. PriceScore["none"] = 3 /\ PriceScore["free"] = 5 /\ PriceScore["priced"] = 1
    BY DEF PriceScore
  <1>5. PriceScore[MetaOf(p, n).price] \in Int
    BY <1>3, <1>4
  <1>6. QED
    BY <1>2, <1>5

(* So is the score of a deployment. *)
LEMMA ScoreIsANumber ==
    ASSUME Typed, NEW d, d[1] \in Provider, d[2] \in Key, NEW needs, NEW tokens
    PROVE  Score(d, needs, tokens) \in Int
  <1> DEFINE v == keys[d[2]]
             fit == Fit(d[3], MetaOf(d[1], d[3]), needs, tokens)
             rec == Record15(v.oks, v.errors)
             hist == History(v.oks, v.errors, v.limited)
             pri == PriorityScore(d[1])
             price == PriceScore[MetaOf(d[1], d[3]).price]
  <1>1. v.oks \in Nat /\ v.errors \in Nat
    BY DEF Typed, KeyView
  <1>2. rec \in 0..15
    BY <1>1, RecordInRange
  <1>3. hist = rec - (2 * v.errors + IF v.limited THEN 5 ELSE 0)
    BY DEF History
  <1>4. hist \in Int
    <2> HIDE DEF rec, hist
    <2> DEFINE e == v.errors
    <2>1. e \in Nat
      BY <1>1
    <2> HIDE DEF e
    <2>2. hist = rec - (2 * e + 5) \/ hist = rec - (2 * e + 0)
      BY <1>3 DEF e
    <2>3. QED
      BY <1>2, <2>1, <2>2
  <1>5. fit \in Int /\ pri \in Int /\ price \in Int
    BY FitIsANumber, PricesAreNumbers
  <1>6. Score(d, needs, tokens) = fit + hist + 10 + pri + price
    BY DEF Score
  <1> HIDE DEF fit, hist, pri, price
  <1>7. QED
    BY <1>4, <1>5, <1>6

(* A key has one place in its provider's pool. *)
LEMMA PlaceIsTheIndex ==
    ASSUME NEW p \in Provider, NEW k \in ToSet(Pool[p])
    PROVE  Place(p, k) \in DOMAIN Pool[p] /\ Pool[p][Place(p, k)] = k /\ Place(p, k) \in Nat
  <1>1. \E i \in DOMAIN Pool[p] : Pool[p][i] = k
    BY DEF ToSet
  <1>2. Place(p, k) \in DOMAIN Pool[p] /\ Pool[p][Place(p, k)] = k
    BY <1>1 DEF Place
  <1>3. Pool[p] \in Seq(Key)
    BY RoutingAssumption
  <1>4. QED
    BY <1>2, <1>3

(* The claims of two deployments differ. *)
LEMMA ClaimsAreKeys ==
    ASSUME Typed, NEW scope, NEW ask
    PROVE  KeysOf(Eligible(scope, ask), [d \in Eligible(scope, ask) |-> Claim(scope, ask, d)], 4)
  <1> DEFINE S == Eligible(scope, ask)
             k == [d \in S |-> Claim(scope, ask, d)]
  <1>1. ASSUME NEW d \in S PROVE k[d] \in Seq(Int) /\ Len(k[d]) = 4
    <2> DEFINE a == -Score(d, Needs(scope, ask), ask.tokens)
               b == NameOrder[d[1]]
               c == NameRank[d[3]]
               e == Place(d[1], d[2])
    <2>1. a \in Int
      <3>1. Score(d, Needs(scope, ask), ask.tokens) \in Int
        BY EligibleAreDeployments, ScoreIsANumber
      <3>2. \A n \in Int : -n \in Int
        OBVIOUS
      <3>3. QED
        BY <3>1, <3>2, Zenon
    <2>2. b \in Int /\ c \in Int /\ e \in Int
      BY EligibleAreDeployments, PlaceIsTheIndex, NamesAssumption
    <2>3. k[d] = <<a, b, c, e>>
      BY DEF Claim
    <2> HIDE DEF a, b, c, e, k
    <2>4. QED
      BY <2>1, <2>2, <2>3
  <1>2. ASSUME NEW d \in S, NEW e \in S, k[d] = k[e] PROVE d = e
    <2>1. /\ NameOrder[d[1]] = NameOrder[e[1]]
          /\ NameRank[d[3]] = NameRank[e[3]]
          /\ Place(d[1], d[2]) = Place(e[1], e[2])
      BY <1>2 DEF Claim
    <2>2. d[1] = e[1] /\ d[3] = e[3]
      BY <2>1, EligibleAreDeployments, NamesAssumption
    <2>3. d[2] = e[2]
      BY <2>1, <2>2, EligibleAreDeployments, PlaceIsTheIndex
    <2>4. QED
      BY <2>2, <2>3, EligibleAreDeployments
  <1>3. QED
    BY <1>1, <1>2 DEF KeysOf

(* The best of the eligible deployments is one of them, and its claim is   *)
(* before those of all others.                                             *)
LEMMA BestIsFirst ==
    ASSUME Typed, NEW scope, NEW ask, Eligible(scope, ask) # {}
    PROVE  /\ Best(scope, ask) \in Eligible(scope, ask)
           /\ \A d \in Eligible(scope, ask) :
                 d = Best(scope, ask) \/ Before(Claim(scope, ask, Best(scope, ask)), Claim(scope, ask, d))
  <1> DEFINE S == Eligible(scope, ask)
             k == [d \in S |-> Claim(scope, ask, d)]
  <1>1. \E x \in S : \A y \in S : y = x \/ Before(k[x], k[y])
    <2>1. KeysOf(S, k, 4) /\ IsFiniteSet(S) /\ S # {}
      BY ClaimsAreKeys, EligibleAreFinite
    <2> HIDE DEF S, k
    <2>2. QED
      BY <2>1, FirstByKey, 4 \in Nat
  <1>2. \E x \in S : \A y \in S : y = x \/ Before(Claim(scope, ask, x), Claim(scope, ask, y))
    BY <1>1
  <1>3. Best(scope, ask) =
          CHOOSE x \in S : \A y \in S : y = x \/ Before(Claim(scope, ask, x), Claim(scope, ask, y))
    BY DEF Best, Least, Claim
  <1> HIDE DEF S
  <1>4. Best(scope, ask) \in S /\ \A y \in S : y = Best(scope, ask)
                                         \/ Before(Claim(scope, ask, Best(scope, ask)), Claim(scope, ask, y))
    BY <1>2, <1>3
  <1>5. QED
    BY <1>4 DEF S

(* The record is the largest number of fifteenths that the successes reach. *)
LEMMA RecordReaches ==
    ASSUME NEW oks \in Nat, NEW errors \in Nat, oks + errors > 0, NEW q \in 0..15
    PROVE  q <= Record15(oks, errors) <=> q * errors <= (15 - q) * oks
  <1>1. Record15(oks, errors) = (oks * 15) \div (oks + errors)
    BY DEF Record15
  <1>2. q \in {0, 1, 2, 3, 4, 5, 6, 7, 8, 9, 10, 11, 12, 13, 14, 15}
    OBVIOUS
  <1>3. q <= (oks * 15) \div (oks + errors) <=> q * (oks + errors) <= oks * 15
    BY <1>2
  <1>4. QED
    BY <1>1, <1>3

(* It does not fall with more successes, nor rise with more failures. *)
LEMMA RecordIsMonotonic ==
    ASSUME NEW oks \in Nat, NEW errors \in Nat, NEW fewer \in Nat, NEW more \in Nat,
           fewer <= oks, errors < more
    PROVE  Record15(fewer, more) <= Record15(oks, errors)
  <1> DEFINE q == Record15(fewer, more)
  <1>1. q \in 0..15
    BY RecordInRange
  <1>2. q * more <= (15 - q) * fewer
    <2>1. fewer + more > 0 /\ q <= q
      BY <1>1
    <2>2. QED
      BY <1>1, <2>1, RecordReaches
  <1> HIDE DEF q
  <1>3. CASE oks + errors > 0
    <2>1. q \in {0, 1, 2, 3, 4, 5, 6, 7, 8, 9, 10, 11, 12, 13, 14, 15}
      BY <1>1
    <2>2. q * errors <= (15 - q) * oks
      BY <1>2, <2>1
    <2>3. q <= Record15(oks, errors)
      BY <1>1, <1>3, <2>2, RecordReaches
    <2>4. QED
      BY <2>3 DEF q
  <1>4. CASE ~ (oks + errors > 0)
    <2>1. Record15(oks, errors) = 8 /\ fewer = 0
      BY <1>4 DEF Record15
    <2>2. q = 0
      BY <1>1, <1>2, <2>1
    <2>3. QED
      BY <2>1, <2>2 DEF q
  <1>5. QED
    BY <1>3, <1>4

(* A better history is worth more. *)
LEMMA HistoryIsMonotonic ==
    ASSUME NEW oks \in Nat, NEW errors \in Nat, NEW limited \in BOOLEAN,
           NEW fewer \in Nat, NEW more \in Nat, NEW halted \in BOOLEAN,
           fewer <= oks, errors < more, limited => halted
    PROVE  /\ History(fewer, more, halted) < History(oks, errors, limited)
           /\ History(fewer, more, halted) \in Int /\ History(oks, errors, limited) \in Int
  <1> DEFINE a == Record15(fewer, more)
             b == Record15(oks, errors)
  <1>1. a \in 0..15 /\ b \in 0..15 /\ a <= b
    BY RecordInRange, RecordIsMonotonic
  <1>2. /\ History(fewer, more, halted) = a - (2 * more + IF halted THEN 5 ELSE 0)
        /\ History(oks, errors, limited) = b - (2 * errors + IF limited THEN 5 ELSE 0)
    BY DEF History
  <1> HIDE DEF a, b
  <1>3. QED
    BY <1>1, <1>2

-----------------------------------------------------------------------------
(* Theorems about the adaptive choice *)

(* Every answer comes from a provider shown for the route, on a key that   *)
(* is free unless paid keys are allowed (routing_routes_summary,           *)
(* constraints_for_scope and the filters of score_candidates).             *)
LEMMA TypedAnswers ==
    Typed => \A scope \in DOMAIN Shown : \A ask \in Asked : AnsweredAsShownTo(scope, ask)
  <1>1. SUFFICES ASSUME Typed, NEW scope \in DOMAIN Shown, NEW ask \in Asked,
                        Eligible(scope, ask) # {}
                 PROVE  /\ Shown[scope] # {} => Best(scope, ask)[1] \in Shown[scope]
                        /\ IsFree(Best(scope, ask)[2]) \/ AllowPaid
    BY DEF AnsweredAsShownTo
  <1> DEFINE best == Best(scope, ask)
  <1>2. best \in Eligible(scope, ask)
    BY <1>1, BestIsFirst
  <1>3. Allowed(scope, best[1]) /\ (AllowPaid \/ IsFree(best[2]))
    BY <1>1, <1>2, EligibleAreDeployments
  <1> HIDE DEF best
  <1>4. scope \in Scope /\ scope \in {s \in Scope : s.kind # "provider" \/ s.name \notin ReservedPrefixes}
    BY <1>1 DEF Shown
  <1>5. scope.kind \in {"auto", "agent", "provider", "group"}
    BY <1>4 DEF Scope
  <1>6. ASSUME Shown[scope] # {} PROVE best[1] \in Shown[scope]
    <2>1. CASE scope.kind = "auto"
      <3>1. Shown[scope] = {}
        BY <1>4, <2>1, Zenon DEF Shown
      <3>2. QED
        BY <1>6, <3>1
    <2>2. CASE scope.kind = "agent"
      <3>1. Shown[scope] = AgentProviders(scope.name)
        BY <1>4, <2>2 DEF Shown
      <3>2. Allowed(scope, best[1]) = (best[1] \in AgentProviders(scope.name))
        BY <1>6, <2>2, <3>1 DEF Allowed
      <3>3. QED
        BY <1>3, <3>1, <3>2
    <2>3. CASE scope.kind = "provider"
      <3>1. Shown[scope] = {scope.name}
        BY <1>4, <2>3 DEF Shown
      <3>2. Allowed(scope, best[1]) = (best[1] = scope.name)
        BY <2>3 DEF Allowed
      <3>3. QED
        BY <1>3, <3>1, <3>2
    <2>4. CASE scope.kind = "group"
      <3>1. Shown[scope] = Group[scope.name]
        BY <1>4, <2>4 DEF Shown
      <3>2. Allowed(scope, best[1]) = (best[1] \in Group[scope.name])
        BY <2>4 DEF Allowed
      <3>3. QED
        BY <1>3, <3>1, <3>2
    <2>5. QED
      BY <1>5, <2>1, <2>2, <2>3, <2>4
  <1>7. QED
    BY <1>3, <1>6 DEF best

(* Of two deployments that suit the request equally well, the one with     *)
(* fewer failures and no fewer successes wins, at every boundary of the    *)
(* score's integer division.                                               *)
LEMMA TypedMerit ==
    Typed => \A scope \in DOMAIN Shown : \A ask \in Asked : BestByMerit(scope, ask)
  <1> DEFINE Merit(scope, ask, d) ==
                Fit(d[3], MetaOf(d[1], d[3]), Needs(scope, ask), ask.tokens)
                    + PriorityScore(d[1]) + PriceScore[MetaOf(d[1], d[3]).price]
  <1>1. SUFFICES ASSUME Typed, NEW scope \in DOMAIN Shown, NEW ask \in Asked,
                        Eligible(scope, ask) # {},
                        NEW d \in Eligible(scope, ask),
                        Merit(scope, ask, d) >= Merit(scope, ask, Best(scope, ask)),
                        keys[d[2]].errors < keys[Best(scope, ask)[2]].errors,
                        keys[d[2]].oks >= keys[Best(scope, ask)[2]].oks,
                        keys[d[2]].limited => keys[Best(scope, ask)[2]].limited
                 PROVE  FALSE
    BY DEF BestByMerit
  <1> DEFINE best == Best(scope, ask)
             v == keys[d[2]]
             w == keys[best[2]]
             rich == Score(d, Needs(scope, ask), ask.tokens)
             poor == Score(best, Needs(scope, ask), ask.tokens)
  <1>2. best \in Eligible(scope, ask)
    BY <1>1, BestIsFirst
  <1>3. /\ d[1] \in Provider /\ d[2] \in Key /\ best[1] \in Provider /\ best[2] \in Key
    BY <1>1, <1>2, EligibleAreDeployments
  <1>4. /\ v.oks \in Nat /\ v.errors \in Nat /\ v.limited \in BOOLEAN
        /\ w.oks \in Nat /\ w.errors \in Nat /\ w.limited \in BOOLEAN
    BY <1>1, <1>3 DEF Typed, KeyView
  <1>5. poor < rich /\ poor \in Int /\ rich \in Int
    <2> DEFINE hv == History(v.oks, v.errors, v.limited)
               hw == History(w.oks, w.errors, w.limited)
               md == Merit(scope, ask, d)
               mb == Merit(scope, ask, best)
    <2>1. hw < hv /\ hw \in Int /\ hv \in Int
      <3>1. w.oks <= v.oks /\ v.errors < w.errors /\ (v.limited => w.limited)
        BY <1>1, <1>4
      <3> HIDE DEF v, w
      <3>2. QED
        BY <1>4, <3>1, HistoryIsMonotonic
    <2>2. md \in Int /\ mb \in Int
      <3>1. \A e : e[1] \in Provider => Merit(scope, ask, e) \in Int
        <4>1. \A a, b, c \in Int : a + b + c \in Int
          OBVIOUS
        <4>2. QED
          BY <4>1, FitIsANumber, PricesAreNumbers, Zenon
      <3> HIDE DEF Merit
      <3>2. QED
        BY <1>3, <3>1
    <2>3. rich = md + hv + 10 /\ poor = mb + hw + 10
      <3>1. ASSUME NEW e, e[1] \in Provider, NEW h \in Int,
                   h = History(keys[e[2]].oks, keys[e[2]].errors, keys[e[2]].limited)
            PROVE  Score(e, Needs(scope, ask), ask.tokens) = Merit(scope, ask, e) + h + 10
        <4> DEFINE a == Fit(e[3], MetaOf(e[1], e[3]), Needs(scope, ask), ask.tokens)
                   b == PriorityScore(e[1])
                   c == PriceScore[MetaOf(e[1], e[3]).price]
        <4>1. a \in Int /\ b \in Int /\ c \in Int
          BY <3>1, FitIsANumber, PricesAreNumbers
        <4>2. Score(e, Needs(scope, ask), ask.tokens) = a + h + 10 + b + c
          BY <3>1, Zenon DEF Score
        <4>3. Merit(scope, ask, e) = a + b + c
          OBVIOUS
        <4> HIDE DEF a, b, c, Merit
        <4>4. QED
          BY <4>1, <4>2, <4>3
      <3> HIDE DEF Merit
      <3>2. QED
        BY <1>3, <2>1, <3>1
    <2>4. md >= mb
      BY <1>1
    <2> HIDE DEF hv, hw, md, mb, rich, poor
    <2>5. QED
      BY <2>1, <2>2, <2>3, <2>4
  <1>6. d # best
    <2>1. v.errors < w.errors
      BY <1>1
    <2> HIDE DEF best
    <2>2. QED
      BY <1>4, <2>1
  <1>7. Before(Claim(scope, ask, best), Claim(scope, ask, d))
    BY <1>1, <1>6, BestIsFirst
  <1>8. Claim(scope, ask, best)[1] = -poor /\ Claim(scope, ask, d)[1] = -rich
    BY DEF Claim
  <1> HIDE DEF poor, rich, best
  <1>9. -poor <= -rich
    <2>1. PICK i \in 1..4 : /\ Claim(scope, ask, best)[i] < Claim(scope, ask, d)[i]
                            /\ \A j \in 1..(i - 1) : Claim(scope, ask, best)[j] = Claim(scope, ask, d)[j]
      BY <1>7 DEF Before, Claim
    <2>2. CASE i = 1
      BY <1>5, <1>8, <2>1, <2>2
    <2>3. CASE i # 1
      <3>1. 1 \in 1..(i - 1)
        BY <2>3
      <3>2. -poor = -rich
        BY <1>8, <2>1, <3>1
      <3>3. QED
        BY <1>5, <3>2
    <2>4. QED
      BY <2>2, <2>3
  <1>10. QED
    BY <1>5, <1>9

(* The types hold always. *)
LEMMA TypedAlways == Spec => []Typed
  BY TypedAtFirst, TypedHolds, PTL DEF Spec

(* A route is answered from a provider that the routes page shows for it,  *)
(* on a key that is free unless paid ones are allowed: in every state, not *)
(* only in those the runs look at.                                         *)
THEOREM AnswersAreShown ==
    Spec => []( /\ AnsweredAsShown
                /\ \A scope \in DOMAIN Shown : \A ask \in Asked : AnsweredAsShownTo(scope, ask))
  <1>1. Typed => AnsweredAsShown
    BY TypedAnswers DEF AnsweredAsShown
  <1>2. QED
    BY <1>1, TypedAlways, TypedAnswers, PTL

(* No deployment is asked in place of one that fits as well, failed less   *)
(* and succeeded at least as often: in every state, for any counts.        *)
THEOREM FailuresDoNotHelp ==
    Spec => []( /\ FailuresNeverHelp
                /\ \A scope \in DOMAIN Shown : \A ask \in Asked : BestByMerit(scope, ask))
  <1>1. Typed => FailuresNeverHelp
    BY TypedMerit DEF FailuresNeverHelp
  <1>2. QED
    BY <1>1, TypedAlways, TypedMerit, PTL

-----------------------------------------------------------------------------
(* The lists of models *)

Entry == [id : Name, owner : Provider]
EntryKey(e) == <<TierRank[e.id.tier], NameOrder[e.owner], NameRank[e.id]>>

(* A name without a suffix is its own family. *)
LEMMA BareIsFamily ==
    ASSUME NEW n \in Name, n.tier = "default"
    PROVE  Family(n) = n
  <1>1. n = [path |-> n.path, tier |-> n.tier]
    BY NamesAssumption
  <1>2. Family(n) = [n EXCEPT !.tier = "default"]
    BY DEF Family, WithTier
  <1>3. QED
    BY <1>1, <1>2

(* The entry that stands for a family is one of its variants. *)
LEMMA ChosenIsVariant ==
    ASSUME NEW V \in SUBSET Entry, V # {}
    PROVE  Least(V, LAMBDA e : <<TierRank[e.id.tier], NameOrder[e.owner], NameRank[e.id]>>) \in V
  <1> DEFINE k == [e \in V |-> EntryKey(e)]
  <1>1. IsFiniteSet(V)
    <2>1. IsFiniteSet(Name \X Provider)
      BY NamesAssumption, FS_Product
    <2> DEFINE f == [e \in V |-> <<e.id, e.owner>>]
    <2>2. f \in Injection(V, Name \X Provider)
      BY DEF Entry, Injection, IsInjective
    <2>3. QED
      BY <2>1, <2>2, FS_Injection
  <1>2. ASSUME NEW e \in V PROVE k[e] \in Seq(Int) /\ Len(k[e]) = 3
    <2> DEFINE a == TierRank[e.id.tier]
               b == NameOrder[e.owner]
               c == NameRank[e.id]
    <2>1. e.id \in Name /\ e.owner \in Provider
      BY DEF Entry
    <2>2. e.id.tier \in Tier
      BY <2>1, NamesAssumption
    <2>3. a \in Int
      BY <2>2 DEF Tier, TierRank
    <2>4. b \in Int /\ c \in Int
      BY <2>1, NamesAssumption
    <2>5. k[e] = <<a, b, c>>
      BY DEF EntryKey
    <2> HIDE DEF a, b, c, k
    <2>6. QED
      BY <2>3, <2>4, <2>5
  <1>3. ASSUME NEW e \in V, NEW g \in V, k[e] = k[g] PROVE e = g
    <2>1. NameOrder[e.owner] = NameOrder[g.owner] /\ NameRank[e.id] = NameRank[g.id]
      BY <1>3 DEF EntryKey
    <2>2. e.owner = g.owner /\ e.id = g.id
      BY <2>1, NamesAssumption DEF Entry
    <2>3. QED
      BY <2>2 DEF Entry
  <1>4. KeysOf(V, k, 3)
    BY <1>2, <1>3 DEF KeysOf
  <1>5. \E x \in V : \A y \in V : y = x \/ Before(k[x], k[y])
    <2> HIDE DEF k
    <2>1. QED
      BY <1>1, <1>4, FirstByKey, 3 \in Nat
  <1>6. \E x \in V : \A y \in V : y = x \/ Before(EntryKey(x), EntryKey(y))
    BY <1>5
  <1>7. QED
    BY <1>6 DEF Least, EntryKey

(* A merged entry speaks for an entry of its family. *)
LEMMA MergedFrom ==
    ASSUME NEW entries \in SUBSET Entry, NEW e \in MergeFamilies(entries)
    PROVE  /\ [id |-> e.variant, owner |-> e.owner] \in entries
           /\ Family(e.variant) = e.id
  <1> DEFINE Variant(f) == {x \in entries : Family(x.id) = f}
             Chosen(f) == Least(Variant(f), LAMBDA x : <<TierRank[x.id.tier], NameOrder[x.owner], NameRank[x.id]>>)
  <1>1. PICK x \in entries :
           e = [id |-> Family(x.id), owner |-> Chosen(Family(x.id)).owner,
                variant |-> Chosen(Family(x.id)).id]
    BY DEF MergeFamilies
  <1> DEFINE c == Chosen(Family(x.id))
  <1>2. c \in Variant(Family(x.id))
    <2>1. Variant(Family(x.id)) \in SUBSET Entry /\ Variant(Family(x.id)) # {}
      OBVIOUS
    <2> HIDE DEF Variant
    <2>2. QED
      BY <2>1, ChosenIsVariant
  <1>3. e.variant = c.id /\ e.owner = c.owner /\ e.id = Family(x.id)
    BY <1>1
  <1> HIDE DEF c
  <1>4. c \in Entry /\ c \in entries /\ Family(c.id) = Family(x.id)
    BY <1>2
  <1>5. c = [id |-> c.id, owner |-> c.owner]
    BY <1>4 DEF Entry
  <1>6. QED
    BY <1>3, <1>4, <1>5

(* A listed model is collected for a request that asks for it by its name. *)
LEMMA TypedLists == Typed => ScopedListIsServed
  <1>1. SUFFICES ASSUME Typed, NEW scope \in DOMAIN Shown, NEW e \in ScopedList(scope),
                        e.variant.tier = "default",
                        e.id \notin DOMAIN Alias \cup DOMAIN AutoModel
                 PROVE  \E d \in Collected(scope, e.id) : d[1] = e.owner /\ (AllowPaid \/ IsFree(d[2]))
    BY DEF ScopedListIsServed
  <1> DEFINE entries == {[id |-> x[2], owner |-> x[1]] :
                            x \in {y \in Inventory \ blocked : Allowed(scope, y[1])}}
  <1>2. ASSUME NEW x \in Inventory
        PROVE  /\ x[1] \in Provider /\ x[2] \in Name /\ x = <<x[1], x[2]>>
               /\ \E k \in ToSet(Pool[x[1]]) : /\ k \in Key /\ IsFree(k)
                                               /\ keys[k].status = "available" /\ x[2] \in keys[k].models
    <2>0. PICK p \in Provider : \E n \in FreeModels(p) : x = <<p, n>>
      BY DEF Inventory
    <2>1. PICK n \in FreeModels(p) : x = <<p, n>>
      BY <2>0
    <2>2. PICK k \in ToSet(Pool[p]) : IsFree(k) /\ keys[k].status = "available" /\ n \in keys[k].models
      BY <2>1 DEF FreeModels
    <2>3. k \in Key
      BY RoutingAssumption DEF ToSet
    <2>4. n \in Name
      BY <1>1, <2>2, <2>3 DEF Typed, KeyView
    <2>5. QED
      BY <2>1, <2>2, <2>3, <2>4
  <1>3. entries \in SUBSET Entry
    BY <1>2 DEF Entry
  <1>4. e \in MergeFamilies(entries)
    BY <1>1 DEF ScopedList
  <1>5. [id |-> e.variant, owner |-> e.owner] \in entries /\ Family(e.variant) = e.id
    <2> HIDE DEF entries
    <2>1. QED
      BY <1>3, <1>4, MergedFrom
  <1>6. PICK x \in Inventory : /\ x \notin blocked /\ Allowed(scope, x[1])
                               /\ e.variant = x[2] /\ e.owner = x[1]
    <2>1. PICK x \in Inventory \ blocked :
             /\ Allowed(scope, x[1])
             /\ [id |-> e.variant, owner |-> e.owner] = [id |-> x[2], owner |-> x[1]]
      BY <1>5
    <2>2. e.variant = x[2] /\ e.owner = x[1]
      BY <2>1
    <2>3. QED
      BY <2>1, <2>2
  <1> HIDE DEF entries
  <1>7. e.id = x[2]
    BY <1>1, <1>2, <1>5, <1>6, BareIsFamily
  <1>8. PICK k \in ToSet(Pool[x[1]]) : /\ k \in Key /\ IsFree(k)
                                       /\ keys[k].status = "available" /\ x[2] \in keys[k].models
    BY <1>2
  <1>9. Concrete(e.id) \in {{}, {x[2]}}
    <2>1. CASE e.id.path = <<"auto">>
      <3>1. e.id \notin DOMAIN Alias \ DOMAIN AutoModel
        BY <1>1
      <3>2. Concrete(e.id) = {}
        BY <2>1, <3>1, Zenon DEF Concrete
      <3>3. QED
        BY <3>2
    <2>2. CASE e.id.path # <<"auto">>
      <3>1. Concrete(e.id) = {e.id}
        BY <1>1, <2>2, Zenon DEF Concrete
      <3>2. QED
        BY <1>7, <3>1
    <2>3. QED
      BY <2>1, <2>2
  <1>10. <<x[1], k, x[2]>> \in Collected(scope, e.id)
    <2>1. <<x[1], k>> \in Pooled
      BY <1>2, <1>8 DEF Pooled
    <2>2. <<x[1], x[2]>> \notin blocked
      BY <1>2, <1>6
    <2>3. Allowed(scope, x[1]) /\ Serving(k)
      BY <1>6, <1>8 DEF Serving
    <2>4. QED
      BY <1>8, <1>9, <2>1, <2>2, <2>3 DEF Collected
  <1>11. QED
    BY <1>6, <1>8, <1>10

(* What the list of a scope shows under a bare name, and that is not an    *)
(* alias, is answered there (scoped_models against collect_candidates).    *)
THEOREM ScopedListsAreServed == Spec => []ScopedListIsServed
  BY TypedAlways, TypedLists, PTL

-----------------------------------------------------------------------------
(* Lists *)

(* A list t takes what s has at the places in P, each of them once. *)
Takes(t, s, P, at) ==
    /\ at \in [DOMAIN t -> P]
    /\ \A i, j \in DOMAIN t : at[i] = at[j] => i = j
    /\ \A p \in P : \E i \in DOMAIN t : at[i] = p
    /\ \A i \in DOMAIN t : t[i] = s[at[i]]

(* One more place is taken. *)
LEMMA TakesMore ==
    ASSUME NEW X, NEW s \in Seq(X), NEW P \in SUBSET DOMAIN s, NEW p \in DOMAIN s, p \notin P,
           NEW t \in Seq(X), NEW at, Takes(t, s, P, at)
    PROVE  \E more : Takes(Append(t, s[p]), s, P \cup {p}, more)
  <1> DEFINE k == Len(t)
             u == Append(t, s[p])
             more == [i \in DOMAIN u |-> IF i = k + 1 THEN p ELSE at[i]]
  <1>1. k \in Nat /\ DOMAIN t = 1..k /\ DOMAIN u = 1..(k + 1)
    OBVIOUS
  <1>2. u[k + 1] = s[p] /\ \A i \in 1..k : u[i] = t[i]
    OBVIOUS
  <1>3. k + 1 \in DOMAIN u /\ more[k + 1] = p
    BY <1>1
  <1>4. \A i \in DOMAIN t : i \in DOMAIN u /\ i # k + 1
    BY <1>1
  <1>5. \A i \in DOMAIN t : more[i] = at[i] /\ at[i] \in P
    BY <1>4 DEF Takes
  <1>6. \A i \in DOMAIN u : i \in DOMAIN t \/ i = k + 1
    BY <1>1
  <1>7. more = [i \in DOMAIN u |-> more[i]]
    OBVIOUS
  <1>8. \A i \in DOMAIN t : u[i] = t[i]
    BY <1>1, <1>2
  <1>9. t[k + 1] = t[k + 1]
    OBVIOUS
  <1> HIDE DEF u, more, k
  <1>10. more \in [DOMAIN u -> P \cup {p}]
    BY <1>3, <1>5, <1>6, <1>7
  <1>11. \A i, j \in DOMAIN u : more[i] = more[j] => i = j
    BY <1>3, <1>5, <1>6 DEF Takes
  <1>12. \A q \in P \cup {p} : \E i \in DOMAIN u : more[i] = q
    BY <1>3, <1>4, <1>5 DEF Takes
  <1>13. \A i \in DOMAIN u : u[i] = s[more[i]]
    BY <1>2, <1>3, <1>5, <1>6, <1>8 DEF Takes
  <1>14. Takes(u, s, P \cup {p}, more)
    BY <1>10, <1>11, <1>12, <1>13 DEF Takes
  <1>15. QED
    BY <1>14 DEF u

(* Keep takes the elements at the places named. *)
LEMMA Kept ==
    ASSUME NEW X, NEW I
    PROVE  \A s \in Seq(X) : /\ Keep(s, I) \in Seq(X)
                             /\ \E at : Takes(Keep(s, I), s, I \cap DOMAIN s, at)
  <1>1. \A start \in Seq(X) : \A n \in Nat : \A step \in [1..n -> [Seq(X) -> Seq(X)]] :
            \E g \in [0..n -> Seq(X)] : g[0] = start /\ \A m \in 1..n : g[m] = step[m][g[m - 1]]
    <2> DEFINE V == Seq(X)
    <2> HIDE DEF V
    <2>1. \A start \in V : \A n \in Nat : \A step \in [1..n -> [V -> V]] :
            \E g \in [0..n -> V] : g[0] = start /\ \A m \in 1..n : g[m] = step[m][g[m - 1]]
      BY BoundedRecursion
    <2>2. QED
      BY <2>1 DEF V
  <1> SUFFICES ASSUME NEW s \in Seq(X)
               PROVE  Keep(s, I) \in Seq(X) /\ \E at : Takes(Keep(s, I), s, I \cap DOMAIN s, at)
    OBVIOUS
  <1> DEFINE N == Len(s)
             step == [n \in 1..N |-> [t \in Seq(X) |-> IF n \in I THEN Append(t, s[n]) ELSE t]]
             none == <<>>
             IsKept(f) == f = [n \in 0..N |-> IF n = 0 THEN <<>>
                                              ELSE IF n \in I THEN Append(f[n - 1], s[n]) ELSE f[n - 1]]
  <1>2. N \in Nat /\ DOMAIN s = 1..N /\ none \in Seq(X) /\ 0 \in 0..N
    OBVIOUS
  <1>3. step \in [1..N -> [Seq(X) -> Seq(X)]]
    OBVIOUS
  <1>4. PICK g \in [0..N -> Seq(X)] : g[0] = none /\ \A m \in 1..N : g[m] = step[m][g[m - 1]]
    <2> HIDE DEF step, N, none
    <2>1. QED
      BY <1>1, <1>2, <1>3
  <1>5. \A n \in 0..N : n # 0 => n \in 1..N /\ n - 1 \in 0..N
    BY <1>2
  <1>6. IsKept(g)
    <2>1. g[0] = <<>>
      BY <1>4
    <2>2. ASSUME NEW n \in 0..N, n # 0
          PROVE  g[n] = IF n \in I THEN Append(g[n - 1], s[n]) ELSE g[n - 1]
      <3>1. n \in 1..N /\ g[n - 1] \in Seq(X)
        BY <1>4, <1>5, <2>2
      <3>2. QED
        BY <1>4, <3>1
    <2>3. g = [n \in 0..N |-> g[n]]
      BY <1>4
    <2>4. QED
      BY <2>1, <2>2, <2>3
  <1> DEFINE kept == CHOOSE f : IsKept(f)
  <1>7. IsKept(kept)
    BY <1>6, Zenon
  <1>8. Keep(s, I) = kept[N]
    BY DEF Keep
  <1> HIDE DEF kept
  <1>9. kept[0] = <<>>
    BY <1>2, <1>7
  <1>10. \A n \in 0..N : n # 0 => kept[n] = IF n \in I THEN Append(kept[n - 1], s[n]) ELSE kept[n - 1]
    BY <1>7
  <1> DEFINE Fine(m) == kept[m] \in Seq(X) /\ \E at : Takes(kept[m], s, I \cap (1..m), at)
             Good == {m \in Nat : m <= N => Fine(m)}
  <1>11. 0 \in Good
    <2>1. I \cap (1..0) = {}
      OBVIOUS
    <2>2. Takes(<<>>, s, {}, <<>>)
      BY DEF Takes
    <2>3. QED
      BY <1>2, <1>9, <2>1, <2>2
  <1>12. ASSUME NEW m \in Nat \cap Good PROVE m + 1 \in Good
    <2> HIDE DEF Fine
    <2> SUFFICES ASSUME m + 1 <= N PROVE Fine(m + 1)
      OBVIOUS
    <2>1. m + 1 \in DOMAIN s /\ m + 1 \in 0..N /\ m + 1 # 0 /\ (m + 1) - 1 = m /\ m <= N
      BY <1>2
    <2>2. PICK at : kept[m] \in Seq(X) /\ Takes(kept[m], s, I \cap (1..m), at)
      BY <2>1 DEF Fine
    <2> DEFINE p == m + 1
    <2>3. kept[p] = IF p \in I THEN Append(kept[m], s[p]) ELSE kept[m]
      BY <1>10, <2>1
    <2>4. 1..p = (1..m) \cup {p} /\ p \notin 1..m /\ I \cap (1..m) \subseteq DOMAIN s
      BY <1>2, <2>1
    <2>5. s[p] \in X
      BY <2>1
    <2> HIDE DEF p
    <2>6. CASE p \in I
      <3>1. I \cap (1..p) = (I \cap (1..m)) \cup {p}
        BY <2>4, <2>6
      <3>2. p \in DOMAIN s /\ p \notin I \cap (1..m)
        BY <2>1, <2>4 DEF p
      <3>3. \E more : Takes(Append(kept[m], s[p]), s, (I \cap (1..m)) \cup {p}, more)
        BY <2>2, <2>4, <3>2, TakesMore
      <3>4. Append(kept[m], s[p]) \in Seq(X)
        BY <2>2, <2>5
      <3>5. Fine(p)
        BY <2>3, <2>6, <3>1, <3>3, <3>4 DEF Fine
      <3>6. QED
        BY <3>5 DEF p
    <2>7. CASE p \notin I
      <3>1. I \cap (1..p) = I \cap (1..m)
        BY <2>4, <2>7
      <3>2. Fine(p)
        BY <2>2, <2>3, <2>7, <3>1 DEF Fine
      <3>3. QED
        BY <3>2 DEF p
    <2>8. QED
      BY <2>6, <2>7
  <1> HIDE DEF Good
  <1>13. N \in Good
    BY <1>2, <1>11, <1>12, AllNaturals
  <1>14. Fine(N)
    <2> HIDE DEF Fine
    <2>1. QED
      BY <1>2, <1>13 DEF Good
  <1>15. QED
    BY <1>2, <1>8, <1>14

(* A list in the order of keys of one length: an entry's key is followed   *)
(* by its place, and what is sorted is the set of those.                   *)
SortedBy(s, k, K, at, t) ==
    /\ K = {k[i] \o <<i>> : i \in DOMAIN s}
    /\ at = [n \in 1..Cardinality(K) |-> CHOOSE x \in K : Cardinality({y \in K : Before(y, x)}) = n - 1]
    /\ t = [n \in DOMAIN s |-> s[Last(at[n])]]

(* The entry added to a list is its last. *)
LEMMA LastOfConcat ==
    \A c, d \in Seq(Int) : Len(d) = 1 => (c \o d)[Len(c) + 1] = d[1]
  <1> SUFFICES ASSUME NEW c \in Seq(Int), NEW d \in Seq(Int), Len(d) = 1
               PROVE  (c \o d)[Len(c) + 1] = d[1]
    OBVIOUS
  <1>1. \A i \in 1..(Len(c) + Len(d)) : (c \o d)[i] = IF i <= Len(c) THEN c[i] ELSE d[i - Len(c)]
    BY ConcatProperties
  <1>2. Len(c) \in Nat
    OBVIOUS
  <1> DEFINE l == Len(c)
  <1>3. l + 1 \in 1..(l + Len(d)) /\ ~ (l + 1 <= l) /\ (l + 1) - l = 1
    BY <1>2
  <1>4. (c \o d)[l + 1] = d[(l + 1) - l]
    BY <1>1, <1>3, Zenon
  <1>5. QED
    BY <1>3, <1>4, Zenon

KeysAscend(k, place, t) ==
    \A i, j \in DOMAIN t : i < j => Before(k[place[i]] \o <<place[i]>>, k[place[j]] \o <<place[j]>>)

(* A stable sort has every entry once, and none before one of a lesser key.*)
LEMMA KeysSort ==
    ASSUME NEW X, NEW s \in Seq(X), NEW m \in Nat,
           NEW k, \A i \in DOMAIN s : k[i] \in Seq(Int) /\ Len(k[i]) = m,
           NEW K, NEW at, NEW t, SortedBy(s, k, K, at, t)
    PROVE  /\ t \in Seq(X) /\ Len(t) = Len(s)
           /\ \E place : Takes(t, s, DOMAIN s, place) /\ KeysAscend(k, place, t)
  <1> DEFINE N == Len(s)
             full == [i \in DOMAIN s |-> k[i] \o <<i>>]
             id == [x \in K |-> x]
             R == ByKey(K, id)
  <1>1. N \in Nat /\ DOMAIN s = 1..N /\ \A i \in DOMAIN s : i \in Int /\ s[i] \in X
    OBVIOUS
  <1>2. ASSUME NEW i \in DOMAIN s
        PROVE  full[i] \in Seq(Int) /\ Len(full[i]) = m + 1 /\ Last(full[i]) = i
    <2> DEFINE a == k[i]
               e == <<i>>
    <2>1. a \in Seq(Int) /\ Len(a) = m /\ e \in Seq(Int) /\ Len(e) = 1 /\ e[1] = i
      BY <1>1
    <2>2. full[i] = a \o e
      OBVIOUS
    <2> HIDE DEF a, e, full
    <2>3. a \o e \in Seq(Int) /\ Len(a \o e) = m + 1 /\ (a \o e)[m + 1] = i
      <3>1. \A c, d \in Seq(Int) : c \o d \in Seq(Int) /\ Len(c \o d) = Len(c) + Len(d)
        OBVIOUS
      <3>2. \A c, d \in Seq(Int) : Len(d) = 1 => (c \o d)[Len(c) + 1] = d[1]
        BY LastOfConcat
      <3>3. QED
        BY <2>1, <3>1, <3>2, Zenon
    <2>4. QED
      BY <2>2, <2>3 DEF Last
  <1>3. K = {full[i] : i \in DOMAIN s}
    BY DEF SortedBy
  <1>4. full \in Bijection(DOMAIN s, K)
    <2>1. full \in [DOMAIN s -> K]
      BY <1>3
    <2>2. \A i, j \in DOMAIN s : full[i] = full[j] => i = j
      BY <1>2
    <2>3. \A x \in K : \E i \in DOMAIN s : full[i] = x
      BY <1>3
    <2> HIDE DEF full
    <2>4. QED
      BY <2>1, <2>2, <2>3 DEF Bijection, Injection, Surjection, IsInjective
  <1>5. IsFiniteSet(K) /\ Cardinality(K) = N
    <2>1. IsFiniteSet(1..N) /\ Cardinality(1..N) = N
      <3>1. IsFiniteSet(1..N) /\ Cardinality(1..N) = IF 1 > N THEN 0 ELSE N - 1 + 1
        BY <1>1, FS_Interval, 1 \in Int, N \in Int
      <3>2. QED
        BY <1>1, <3>1
    <2>2. ExistsBijection(DOMAIN s, K)
      BY <1>4 DEF ExistsBijection
    <2>3. QED
      BY <1>1, <2>1, <2>2, FS_Bijection
  <1>6. TotalOrder(K, R)
    <2>1. \A x \in K : x \in Seq(Int) /\ Len(x) = m + 1
      BY <1>2, <1>3
    <2>2. KeysOf(K, id, m + 1)
      BY <2>1 DEF KeysOf
    <2>3. m + 1 \in Nat
      OBVIOUS
    <2> HIDE DEF id
    <2>4. QED
      BY <2>2, <2>3, KeysOrder
  <1>7. \A x \in K : {y \in K : Before(y, x)} = Below(K, R, x)
    BY DEF Below, ByKey
  <1>8. \A x \in K : Cardinality({y \in K : Before(y, x)}) = Rank(K, R, x)
    BY <1>7, Zenon DEF Rank
  <1> HIDE DEF R
  <1>9. ASSUME NEW n \in 1..N PROVE at[n] \in K /\ Rank(K, R, at[n]) = n - 1
    <2>1. \E x \in K : Cardinality({y \in K : Before(y, x)}) = n - 1
      <3>1. PICK x \in K : Rank(K, R, x) = n - 1
        BY <1>5, <1>6, RanksTaken
      <3>2. QED
        BY <1>8, <3>1
    <2>2. at[n] = CHOOSE x \in K : Cardinality({y \in K : Before(y, x)}) = n - 1
      BY <1>5 DEF SortedBy
    <2>3. at[n] \in K /\ Cardinality({y \in K : Before(y, at[n])}) = n - 1
      BY <2>1, <2>2, Zenon
    <2>4. QED
      BY <1>8, <2>3
  <1>10. at = [n \in 1..Cardinality(K) |-> at[n]]
    <2> DEFINE nth(n) == CHOOSE x \in K : Cardinality({y \in K : Before(y, x)}) = n - 1
    <2>1. at = [n \in 1..Cardinality(K) |-> nth(n)]
      BY DEF SortedBy
    <2> HIDE DEF nth
    <2>2. QED
      BY <2>1
  <1>11. /\ \A i, j \in 1..N : i < j => <<at[i], at[j]>> \in R
         /\ \A x \in K : \E i \in 1..N : at[i] = x
    <2>1. \A n \in 1..Cardinality(K) : at[n] \in K /\ Rank(K, R, at[n]) = n - 1
      BY <1>5, <1>9
    <2>2. ByRank(K, R, at)
      BY <1>10, <2>1 DEF ByRank
    <2>3. /\ \A i, j \in 1..Cardinality(K) : i < j => <<at[i], at[j]>> \in R
          /\ \A x \in K : \E i \in 1..Cardinality(K) : at[i] = x
      BY <1>5, <1>6, <2>2, ListedByRank
    <2>4. QED
      BY <1>5, <2>3
  <1> DEFINE place == [n \in 1..N |-> Last(at[n])]
  <1>12. ASSUME NEW n \in 1..N PROVE place[n] \in DOMAIN s /\ full[place[n]] = at[n]
    <2>1. PICK i \in DOMAIN s : at[n] = full[i]
      BY <1>3, <1>9
    <2>2. QED
      BY <1>2, <2>1
  <1>13. t = [n \in 1..N |-> s[place[n]]]
    BY <1>1 DEF SortedBy
  <1>14. \A n \in 1..N : Last(at[n]) = place[n]
    OBVIOUS
  <1> HIDE DEF place, full
  <1>15. t \in Seq(X) /\ Len(t) = N /\ DOMAIN t = 1..N /\ \A n \in 1..N : t[n] = s[place[n]]
    <2>1. \A n \in 1..N : s[place[n]] \in X
      BY <1>12
    <2>2. QED
      BY <1>1, <1>13, <2>1
  <1>16. ASSUME NEW i \in 1..N, NEW j \in 1..N, place[i] = place[j] PROVE i = j
    <2>1. at[i] = at[j]
      BY <1>12, <1>16
    <2>2. i \in Int /\ j \in Int /\ i = (i - 1) + 1 /\ j = (j - 1) + 1
      OBVIOUS
    <2>3. i - 1 = j - 1
      BY <1>9, <2>1
    <2>4. QED
      BY <2>2, <2>3
  <1>17. ASSUME NEW p \in DOMAIN s PROVE \E i \in 1..N : place[i] = p
    <2>1. full[p] \in K
      BY <1>3
    <2>2. PICK i \in 1..N : at[i] = full[p]
      BY <1>11, <2>1
    <2>3. Last(full[p]) = p
      BY <1>2
    <2>4. place[i] = p
      BY <1>14, <2>2, <2>3
    <2>5. QED
      BY <2>4
  <1>18. place = [n \in 1..N |-> place[n]]
    BY DEF place
  <1>19. Takes(t, s, DOMAIN s, place)
    BY <1>12, <1>15, <1>16, <1>17, <1>18 DEF Takes
  <1>20. ASSUME NEW i \in 1..N, NEW j \in 1..N, i < j
         PROVE  Before(k[place[i]] \o <<place[i]>>, k[place[j]] \o <<place[j]>>)
    <2>1. Before(at[i], at[j])
      BY <1>9, <1>11, <1>20 DEF R, ByKey
    <2>2. full[place[i]] = k[place[i]] \o <<place[i]>> /\ full[place[j]] = k[place[j]] \o <<place[j]>>
      BY <1>12 DEF full
    <2>3. QED
      BY <1>12, <2>1, <2>2
  <1>21. KeysAscend(k, place, t)
    BY <1>15, <1>20 DEF KeysAscend
  <1>22. QED
    BY <1>15, <1>19, <1>21

(* What takes all of a list that takes places of another takes those. *)
LEMMA TakesTwice ==
    ASSUME NEW s, NEW t, NEW u, NEW P, NEW a, NEW b, Takes(t, s, P, a), Takes(u, t, DOMAIN t, b)
    PROVE  \E c : Takes(u, s, P, c)
  <1> DEFINE c == [i \in DOMAIN u |-> a[b[i]]]
  <1>1. \A i \in DOMAIN u : b[i] \in DOMAIN t /\ c[i] = a[b[i]]
    BY DEF Takes
  <1>2. c \in [DOMAIN u -> P]
    BY DEF Takes
  <1> HIDE DEF c
  <1>3. \A i, j \in DOMAIN u : c[i] = c[j] => i = j
    BY <1>1 DEF Takes
  <1>4. \A p \in P : \E i \in DOMAIN u : c[i] = p
    BY <1>1 DEF Takes
  <1>5. \A i \in DOMAIN u : u[i] = s[c[i]]
    BY <1>1 DEF Takes
  <1>6. QED
    BY <1>2, <1>3, <1>4, <1>5 DEF Takes

(* What takes places of a list has no elements but those there, and tells  *)
(* them apart as the list does.                                            *)
LEMMA TakesSome ==
    ASSUME NEW s, NEW t, NEW P, NEW at, Takes(t, s, P, at)
    PROVE  ToSet(t) = {s[p] : p \in P}
  <1>1. \A i \in DOMAIN t : t[i] = s[at[i]] /\ at[i] \in P
    BY DEF Takes
  <1>2. \A p \in P : \E i \in DOMAIN t : t[i] = s[p]
    BY DEF Takes
  <1>3. QED
    BY <1>1, <1>2 DEF ToSet

(* The place from which a rotation of the first h entries by r takes what  *)
(* it has at i.                                                            *)
Shift(i, h, r) == IF i > h THEN i ELSE IF i + r <= h THEN i + r ELSE i + r - h

Shuffle(N, at) ==
    /\ at \in [1..N -> 1..N]
    /\ \A i, j \in 1..N : at[i] = at[j] => i = j
    /\ \A j \in 1..N : \E i \in 1..N : at[i] = j

(* Those places are all the places. *)
LEMMA ShiftShuffles ==
    ASSUME NEW N \in Nat, NEW h \in 0..N, NEW r \in Nat, r < h \/ r = 0
    PROVE  Shuffle(N, [i \in 1..N |-> Shift(i, h, r)])
  <1>1. \A i \in 1..N : Shift(i, h, r) \in 1..N
    BY DEF Shift
  <1>2. \A i, j \in 1..N : Shift(i, h, r) = Shift(j, h, r) => i = j
    BY DEF Shift
  <1>3. ASSUME NEW j \in 1..N PROVE \E i \in 1..N : Shift(i, h, r) = j
    <2>1. CASE j > h
      BY <2>1 DEF Shift
    <2>2. CASE j <= h /\ j > r
      <3>1. j - r \in 1..N /\ Shift(j - r, h, r) = j
        BY <2>2 DEF Shift
      <3>2. QED
        BY <3>1
    <2>3. CASE j <= h /\ j <= r
      <3>1. (j - r) + h \in 1..N /\ Shift((j - r) + h, h, r) = j
        BY <2>3 DEF Shift
      <3>2. QED
        BY <3>1
    <2>4. QED
      BY <2>1, <2>2, <2>3
  <1> DEFINE at == [i \in 1..N |-> Shift(i, h, r)]
  <1>4. \A i \in 1..N : at[i] = Shift(i, h, r)
    OBVIOUS
  <1>5. at \in [1..N -> 1..N]
    BY <1>1
  <1> HIDE DEF at
  <1>6. Shuffle(N, at)
    BY <1>2, <1>3, <1>4, <1>5 DEF Shuffle
  <1>7. QED
    BY <1>6 DEF at

(* A list that has at i what another has at the shifted place takes all. *)
LEMMA ShiftedTakes ==
    ASSUME NEW N \in Nat, NEW h \in 0..N, NEW r \in Nat, r < h \/ r = 0,
           NEW s, NEW t, DOMAIN s = 1..N, DOMAIN t = 1..N,
           \A i \in 1..N : t[i] = s[Shift(i, h, r)]
    PROVE  \E at : Takes(t, s, DOMAIN s, at)
  <1> DEFINE at == [i \in 1..N |-> Shift(i, h, r)]
  <1>1. Shuffle(N, at)
    BY ShiftShuffles
  <1>2. \A i \in 1..N : at[i] = Shift(i, h, r)
    OBVIOUS
  <1> HIDE DEF at
  <1>3. Takes(t, s, DOMAIN s, at)
    BY <1>1, <1>2 DEF Takes, Shuffle
  <1>4. QED
    BY <1>3

(* t has the entries of a and then those of b. *)
Joined(t, a, b) ==
    /\ Len(t) = Len(a) + Len(b)
    /\ \A i \in 1..(Len(a) + Len(b)) : t[i] = IF i <= Len(a) THEN a[i] ELSE b[i - Len(a)]

(* A concatenation has the entries of both lists, each at its place. *)
LEMMA ConcatJoins ==
    ASSUME NEW X, NEW a \in Seq(X), NEW b \in Seq(X)
    PROVE  a \o b \in Seq(X) /\ Joined(a \o b, a, b)
  BY ConcatProperties DEF Joined

(* t is s with its first h entries rotated by r. *)
Shifted(t, s, h, r) ==
    /\ Len(t) = Len(s)
    /\ \A i \in 1..Len(s) : t[i] = s[Shift(i, h, r)]

(* Rotating the first h entries of a list shifts their places. *)
LEMMA RotateShifts ==
    ASSUME NEW X, NEW s \in Seq(X), NEW h \in 0..Len(s), NEW r \in Nat, r < h \/ r = 0,
           NEW t, t = Rotate(SubSeq(s, 1, h), r) \o SubSeq(s, h + 1, Len(s))
    PROVE  t \in Seq(X) /\ Shifted(t, s, h, r)
  <1> DEFINE N == Len(s)
             head == SubSeq(s, 1, h)
             a == SubSeq(head, r + 1, Len(head))
             b == SubSeq(head, 1, r)
             c == SubSeq(s, h + 1, N)
  <1>1. N \in Nat /\ h \in Nat /\ h <= N
    OBVIOUS
  <1>2. head \in Seq(X) /\ Len(head) = h /\ \A i \in 1..h : head[i] = s[i]
    BY <1>1
  <1>3. c \in Seq(X) /\ Len(c) = N - h /\ \A i \in 1..(N - h) : c[i] = s[h + i]
    BY <1>1
  <1> HIDE DEF N, head, c
  <1>4. a \in Seq(X) /\ Len(a) = h - r /\ \A i \in 1..(h - r) : a[i] = head[r + i]
    BY <1>1, <1>2
  <1>5. b \in Seq(X) /\ Len(b) = r /\ \A i \in 1..r : b[i] = head[i]
    BY <1>1, <1>2
  <1>6. t = (a \o b) \o c
    BY DEF Rotate, N, head, c
  <1> HIDE DEF a, b
  <1> DEFINE d == a \o b
  <1>7. d \in Seq(X) /\ Len(d) = h /\ \A i \in 1..h : d[i] = IF i <= h - r THEN a[i] ELSE b[i - (h - r)]
    <2>1. d \in Seq(X) /\ Joined(d, a, b)
      BY <1>4, <1>5, ConcatJoins
    <2>2. Len(a) + Len(b) = h /\ Len(a) = h - r
      BY <1>1, <1>4, <1>5
    <2> HIDE DEF d
    <2>3. QED
      BY <2>1, <2>2 DEF Joined
  <1> HIDE DEF d
  <1>8. t \in Seq(X) /\ Len(t) = N /\ \A i \in 1..N : t[i] = IF i <= h THEN d[i] ELSE c[i - h]
    <2>1. t = d \o c
      BY <1>6 DEF d
    <2>2. t \in Seq(X) /\ Joined(t, d, c)
      BY <1>3, <1>7, <2>1, ConcatJoins
    <2>3. Len(d) + Len(c) = N /\ Len(d) = h
      BY <1>1, <1>3, <1>7
    <2>4. QED
      BY <2>2, <2>3 DEF Joined
  <1>9. ASSUME NEW i \in 1..N PROVE t[i] = s[Shift(i, h, r)]
    <2>1. CASE i > h
      <3>1. i - h \in 1..(N - h) /\ h + (i - h) = i /\ ~ (i <= h)
        BY <1>1, <2>1
      <3>2. t[i] = c[i - h] /\ c[i - h] = s[i]
        BY <1>3, <1>8, <3>1
      <3>3. QED
        BY <2>1, <3>2 DEF Shift
    <2>2. CASE i <= h /\ i <= h - r
      <3>1. i \in 1..h /\ i \in 1..(h - r) /\ r + i \in 1..h /\ r + i = i + r /\ i + r <= h /\ ~ (i > h)
        BY <1>1, <2>2
      <3>2. t[i] = d[i] /\ d[i] = a[i] /\ a[i] = head[r + i] /\ head[r + i] = s[r + i]
        BY <1>2, <1>4, <1>7, <1>8, <2>2, <3>1
      <3>3. QED
        BY <3>1, <3>2 DEF Shift
    <2>3. CASE i <= h /\ ~ (i <= h - r)
      <3>1. /\ i \in 1..h /\ i - (h - r) \in 1..r /\ i - (h - r) \in 1..h
            /\ i - (h - r) = i + r - h /\ ~ (i + r <= h) /\ ~ (i > h)
        BY <1>1, <2>3
      <3>2. t[i] = d[i] /\ d[i] = b[i - (h - r)] /\ b[i - (h - r)] = s[i - (h - r)]
        BY <1>2, <1>5, <1>7, <1>8, <2>3, <3>1
      <3>3. QED
        BY <3>1, <3>2 DEF Shift
    <2>4. i > h \/ (i <= h /\ i <= h - r) \/ (i <= h /\ ~ (i <= h - r))
      BY <1>1
    <2>5. QED
      BY <2>1, <2>2, <2>3, <2>4, Zenon
  <1>10. QED
    BY <1>8, <1>9 DEF N, Shifted

(* A remainder is less than the divisor. *)
LEMMA Remainder ==
    \A a \in Nat : \A b \in Nat \ {0} : a % b \in 0..(b - 1)
  OBVIOUS

(* The next number leaves the next remainder. *)
LEMMA NextRemainder ==
    ASSUME NEW n \in Nat, NEW h \in Nat \ {0}
    PROVE  (n + 1) % h = ((n % h) + 1) % h
  <1> DEFINE q == n \div h
             m == n % h
  <1>1. q \in Nat /\ m \in 0..(h - 1) /\ n = h * q + m
    OBVIOUS
  <1>2. \A x \in Nat, y \in 0..(h - 1) : (h * x + y) % h = y
    OBVIOUS
  <1>3. \A y \in 0..(h - 1) : y % h = y
    OBVIOUS
  <1> HIDE DEF q, m
  <1>4. CASE m + 1 < h
    <2>1. m + 1 \in 0..(h - 1) /\ n + 1 = h * q + (m + 1)
      BY <1>1, <1>4
    <2>2. QED
      BY <1>1, <1>2, <1>3, <2>1 DEF m
  <1>5. CASE m + 1 = h
    <2>1. h * q + h = h * (q + 1) /\ q + 1 \in Nat
      BY <1>1
    <2>2. n + 1 = h * (q + 1) + 0
      BY <1>1, <1>5, <2>1
    <2>3. (n + 1) % h = 0
      BY <1>2, <2>1, <2>2
    <2>4. (m + 1) % h = 0
      BY <1>5
    <2>5. QED
      BY <2>3, <2>4 DEF m
  <1>6. QED
    BY <1>1, <1>4, <1>5

(* A rotation by nothing. *)
LEMMA NoRotation ==
    ASSUME NEW X, NEW s \in Seq(X)
    PROVE  Rotate(s, 0) = s
  BY DEF Rotate

(* By how much a turn by n shifts h entries. *)
By(h, n) == IF h > 1 THEN n % h ELSE 0

(* A shift is a place among the entries that are turned, or none. *)
LEMMA ByLess ==
    ASSUME NEW h \in Nat, NEW n \in Nat
    PROVE  By(h, n) \in Nat /\ (By(h, n) < h \/ By(h, n) = 0)
  <1>1. CASE h > 1
    <2>1. h \in Nat \ {0}
      BY <1>1
    <2>2. n % h \in 0..(h - 1)
      BY <2>1, Remainder
    <2>3. By(h, n) = n % h
      BY <1>1 DEF By
    <2>4. QED
      BY <2>2, <2>3
  <1>2. CASE ~ (h > 1)
    BY <1>2 DEF By
  <1>3. QED
    BY <1>1, <1>2

(* Turning the first h entries of a list shifts their places by the        *)
(* remainder.                                                              *)
LEMMA TurnShifts ==
    ASSUME NEW X, NEW s \in Seq(X), NEW h \in 0..Len(s), NEW n \in Nat,
           NEW t, t = Turn(SubSeq(s, 1, h), n) \o SubSeq(s, h + 1, Len(s))
    PROVE  t \in Seq(X) /\ Shifted(t, s, h, By(h, n))
  <1> DEFINE head == SubSeq(s, 1, h)
             r == By(h, n)
  <1>1. h \in Nat /\ h <= Len(s) /\ Len(s) \in Nat
    OBVIOUS
  <1>2. head \in Seq(X) /\ Len(head) = h
    BY <1>1
  <1>3. r \in Nat /\ (r < h \/ r = 0)
    BY <1>1, ByLess
  <1> HIDE DEF head
  <1>4. Turn(head, n) = Rotate(head, r)
    <2>1. CASE h > 1
      BY <1>2, <2>1 DEF Turn, By
    <2>2. CASE ~ (h > 1)
      <3>1. Rotate(head, 0) = head
        BY <1>2, NoRotation
      <3>2. Turn(head, n) = head /\ r = 0
        BY <1>2, <2>2 DEF Turn, By
      <3>3. QED
        BY <3>1, <3>2
    <2>3. QED
      BY <2>1, <2>2
  <1> HIDE DEF r
  <1>5. t = Rotate(SubSeq(s, 1, h), r) \o SubSeq(s, h + 1, Len(s))
    BY <1>4 DEF head
  <1>6. t \in Seq(X) /\ Shifted(t, s, h, r)
    BY <1>3, <1>5, RotateShifts
  <1>7. QED
    BY <1>6 DEF r

(* A turned list has all the list has. *)
LEMMA TurnTakes ==
    ASSUME NEW X, NEW s \in Seq(X), NEW h \in 0..Len(s), NEW n \in Nat,
           NEW t, t = Turn(SubSeq(s, 1, h), n) \o SubSeq(s, h + 1, Len(s))
    PROVE  t \in Seq(X) /\ \E at : Takes(t, s, DOMAIN s, at)
  <1> DEFINE r == By(h, n)
             N == Len(s)
  <1>1. t \in Seq(X) /\ Shifted(t, s, h, r)
    BY TurnShifts
  <1>2. h \in Nat /\ N \in Nat /\ DOMAIN s = 1..N
    OBVIOUS
  <1>3. r \in Nat /\ (r < h \/ r = 0)
    BY <1>2, ByLess
  <1> HIDE DEF r
  <1>4. DOMAIN t = 1..N /\ \A i \in 1..N : t[i] = s[Shift(i, h, r)]
    <2>1. Len(t) = N /\ \A i \in 1..N : t[i] = s[Shift(i, h, r)]
      BY <1>1 DEF Shifted
    <2>2. \A u \in Seq(X) : DOMAIN u = 1..Len(u)
      OBVIOUS
    <2>3. DOMAIN t = 1..N
      BY <1>1, <2>1, <2>2, Zenon
    <2>4. QED
      BY <2>1, <2>3
  <1>5. \E at : Takes(t, s, DOMAIN s, at)
    BY <1>2, <1>3, <1>4, ShiftedTakes
  <1>6. QED
    BY <1>1, <1>5

(* A turn of the whole list takes each of its entries once. *)
LEMMA TurnTakesAll ==
    ASSUME NEW X, NEW s \in Seq(X), NEW n \in Nat
    PROVE  Turn(s, n) \in Seq(X) /\ \E at : Takes(Turn(s, n), s, DOMAIN s, at)
  <1> DEFINE h == Len(s)
             t == Turn(s, n)
  <1>1. h \in 0..Len(s) /\ SubSeq(s, 1, h) = s /\ SubSeq(s, h + 1, Len(s)) = <<>>
    OBVIOUS
  <1>2. t \in Seq(X)
    <2>1. \A m \in 0..h : Rotate(s, m) \in Seq(X)
      BY DEF Rotate
    <2>2. CASE h > 1
      <3>1. h \in Nat \ {0} /\ t = Rotate(s, n % h)
        BY <2>2 DEF Turn
      <3>2. n % h \in 0..h
        BY <3>1, Remainder
      <3>3. QED
        BY <2>1, <3>1, <3>2
    <2>3. CASE ~ (h > 1)
      BY <2>3 DEF Turn
    <2>4. QED
      BY <2>2, <2>3
  <1>3. \A u \in Seq(X) : u \o <<>> = u
    OBVIOUS
  <1> HIDE DEF h
  <1>4. t = Turn(SubSeq(s, 1, h), n) \o SubSeq(s, h + 1, Len(s))
    BY <1>1, <1>2, <1>3
  <1> HIDE DEF t
  <1>5. t \in Seq(X) /\ \E at : Takes(t, s, DOMAIN s, at)
    BY <1>1, <1>4, TurnTakes
  <1>6. QED
    BY <1>5 DEF t


-----------------------------------------------------------------------------
(* What a request may be sent to *)

(* What is kept of a list. *)
LEMMA KeptOf ==
    ASSUME NEW X, NEW s \in Seq(X), NEW I
    PROVE  /\ Keep(s, I) \in Seq(X)
           /\ ToSet(Keep(s, I)) = {s[i] : i \in I \cap DOMAIN s}
           /\ IsInjective(s) => IsInjective(Keep(s, I))
  <1>1. Keep(s, I) \in Seq(X)
    BY Kept
  <1>2. PICK at : Takes(Keep(s, I), s, I \cap DOMAIN s, at)
    BY Kept
  <1>3. ToSet(Keep(s, I)) = {s[i] : i \in I \cap DOMAIN s}
    BY <1>2, TakesSome
  <1>4. IsInjective(s) => IsInjective(Keep(s, I))
    BY <1>2 DEF Takes, IsInjective
  <1>5. QED
    BY <1>1, <1>3, <1>4

(* A provider offers keys of its pool, each once. *)
LEMMA FreeKeysOnce ==
    ASSUME NEW p \in Provider, NEW n
    PROVE  /\ FreeKeys(p, n) \in Seq(Key) /\ IsInjective(FreeKeys(p, n))
           /\ ToSet(FreeKeys(p, n)) \subseteq ToSet(Pool[p])
  <1>1. Pool[p] \in Seq(Key) /\ IsInjective(Pool[p])
    BY RoutingAssumption DEF IsInjective
  <1>2. CASE p \in gated
    BY <1>2 DEF FreeKeys, IsInjective, ToSet
  <1>3. CASE p \notin gated
    <2> DEFINE I == {i \in DOMAIN Pool[p] : /\ IsFree(Pool[p][i]) /\ Selectable(Pool[p][i])
                                            /\ p = "cloudflare" \/ n \in keys[Pool[p][i]].models}
    <2>1. FreeKeys(p, n) = Keep(Pool[p], I)
      BY <1>3 DEF FreeKeys, Where
    <2> HIDE DEF I
    <2>2. ToSet(Keep(Pool[p], I)) \subseteq ToSet(Pool[p])
      <3>1. ToSet(Keep(Pool[p], I)) = {Pool[p][i] : i \in I \cap DOMAIN Pool[p]}
        BY <1>1, KeptOf
      <3>2. QED
        BY <3>1 DEF ToSet
    <2>3. QED
      BY <1>1, <2>1, <2>2, KeptOf
  <1>4. QED
    BY <1>2, <1>3

(* No name occurs twice in s. *)
NamesApart(s) == \A i, j \in DOMAIN s : s[i].name = s[j].name => i = j

(* No two of the names that were pushed are the same. *)
LEMMA PushedOnce ==
    ASSUME NEW X, NEW s \in Seq(X)
    PROVE  Pushed(s) \in Seq(X) /\ NamesApart(Pushed(s))
  <1> DEFINE I == {i \in DOMAIN s : \A j \in 1..(i - 1) : s[j].name # s[i].name}
  <1>1. Pushed(s) = Keep(s, I)
    BY DEF Pushed, FirstOfEach
  <1>2. \A i, j \in I : s[i].name = s[j].name => i = j
    <2>1. \A i, j \in I : i < j => s[i].name # s[j].name
      <3>1. \A i, j \in DOMAIN s : i < j => i \in 1..(j - 1)
        OBVIOUS
      <3>2. QED
        BY <3>1
    <2>2. \A i, j \in I : i < j \/ j < i \/ i = j
      OBVIOUS
    <2> HIDE DEF I
    <2>3. QED
      BY <2>1, <2>2
  <1> HIDE DEF I
  <1>3. PICK at : Takes(Keep(s, I), s, I \cap DOMAIN s, at)
    BY Kept
  <1>4. NamesApart(Keep(s, I))
    BY <1>2, <1>3 DEF Takes, NamesApart
  <1>5. QED
    BY <1>1, <1>4, Kept

(* The names tried when n is asked for. *)
ModelName == [path : Seq(STRING), tier : Tier]
TriedName(n) == [name : ModelName \cup {n, WithTier(n, "free")}, index : Nat]

(* Another suffix makes a name of a name. *)
LEMMA TierTyped ==
    ASSUME NEW n \in ModelName, NEW t \in Tier
    PROVE  WithTier(n, t) \in ModelName
  BY DEF ModelName, WithTier

(* What is tried of some names. *)
LEMMA TriedTyped ==
    ASSUME NEW n, NEW names \in Seq(ModelName \cup {n}), NEW i \in Nat
    PROVE  Tried(names, i) \in Seq(TriedName(n))
  <1> DEFINE Y == ModelName \cup {n, WithTier(n, "free")}
  <1>1. ASSUME NEW m \in ModelName \cup {n} PROVE Variants(m) \in Seq(Y)
    <2>1. m \in Y /\ WithTier(m, "free") \in Y
      BY TierTyped DEF Tier
    <2> HIDE DEF Y
    <2>2. <<m>> \in Seq(Y) /\ <<m, WithTier(m, "free")>> \in Seq(Y)
      BY <2>1
    <2>3. QED
      BY <2>2 DEF Variants
  <1>2. ASSUME NEW v \in Seq(Y) PROVE Indexed(v, i) \in Seq(TriedName(n))
    <2>1. \A j \in 1..Len(v) : [name |-> v[j], index |-> i] \in TriedName(n)
      <3>1. \A j \in 1..Len(v) : v[j] \in Y
        OBVIOUS
      <3>2. QED
        BY <3>1 DEF TriedName
    <2> HIDE DEF Y
    <2>2. QED
      BY <2>1 DEF Indexed
  <1> DEFINE ss == [j \in 1..Len(names) |-> Indexed(Variants(names[j]), i)]
  <1>3. ss \in Seq(Seq(TriedName(n)))
    <2>1. \A j \in 1..Len(names) : names[j] \in ModelName \cup {n}
      OBVIOUS
    <2> HIDE DEF Y
    <2>2. \A j \in 1..Len(names) : Indexed(Variants(names[j]), i) \in Seq(TriedName(n))
      BY <1>1, <1>2, <2>1
    <2>3. QED
      BY <2>2
  <1> HIDE DEF ss
  <1>4. FlattenSeq(ss) \in Seq(TriedName(n))
    BY <1>3, FlattenCovers
  <1>5. QED
    BY <1>4 DEF Tried, ss

(* The configured fallbacks of a name. *)
LEMMA FallbacksTyped ==
    ASSUME NEW n
    PROVE  FallbacksFor(n) \in Seq([provider : STRING, model : ModelName])
  <1> DEFINE F == [provider : STRING, model : ModelName]
             Of(x) == IF x \in DOMAIN ModelFallbacks THEN ModelFallbacks[x] ELSE <<>>
             s == Of(n) \o Of(Strip(n))
             I == {i \in DOMAIN s : \A j \in 1..(i - 1) : s[j] # s[i]}
  <1>1. \A x \in DOMAIN ModelFallbacks : ModelFallbacks[x] \in Seq(F)
    BY NamesAssumption DEF ModelName
  <1> HIDE DEF F
  <1>2. s \in Seq(F)
    <2>1. \A x : Of(x) \in Seq(F)
      BY <1>1
    <2> HIDE DEF Of
    <2>2. QED
      BY <2>1
  <1>3. FallbacksFor(n) = Keep(s, I)
    BY DEF FallbacksFor, Distinct, FirstOfEach
  <1> HIDE DEF s, I, Of
  <1>4. Keep(s, I) \in Seq(F)
    BY <1>2, Kept
  <1>5. QED
    BY <1>3, <1>4 DEF F

(* The requested name and the configured fallbacks at a provider. *)
LEMMA NamedTyped ==
    ASSUME NEW p \in Provider, NEW route \in Routes
    PROVE  /\ NamedAt[p][route.model] \in Seq(TriedName(route.model))
           /\ NamesApart(NamedAt[p][route.model])
           /\ \E rest \in Seq(TriedName(route.model)) :
                 NamedAt[p][route.model] = Pushed(Tried(<<route.model>>, 0) \o rest)
  <1> DEFINE n == route.model
             F == [provider : STRING, model : ModelName]
             all == FallbacksFor(n)
             I == {i \in DOMAIN all : all[i].provider = p}
             here == Keep(all, I)
             names == [j \in 1..Len(here) |-> NameFor(p, here[j].model)]
             s == Tried(<<n>>, 0) \o Tried(names, 1)
  <1>1. NamedAt[p][n] = Pushed(s)
    BY DEF NamedAt, Where
  <1>3. here \in Seq(F)
    <2>1. all \in Seq(F)
      BY FallbacksTyped
    <2> HIDE DEF all, I, F
    <2>2. QED
      BY <2>1, Kept
  <1> HIDE DEF here, n
  <1>4. names \in Seq(ModelName \cup {n})
    <2>1. ASSUME NEW j \in 1..Len(here) PROVE NameFor(p, here[j].model) \in ModelName \cup {n}
      <3>1. here[j] \in F
        <4> HIDE DEF F
        <4>1. QED
          BY <1>3
      <3>2. here[j].model \in ModelName
        BY <3>1
      <3>3. QED
        BY <3>2, TierTyped DEF NameFor, Strip, Tier
    <2>2. QED
      BY <1>3, <2>1
  <1>5. <<n>> \in Seq(ModelName \cup {n})
    OBVIOUS
  <1> HIDE DEF names
  <1>6. Tried(<<n>>, 0) \in Seq(TriedName(n)) /\ Tried(names, 1) \in Seq(TriedName(n))
    BY <1>4, <1>5, TriedTyped
  <1>7. s \in Seq(TriedName(n))
    BY <1>6
  <1>8. \E rest \in Seq(TriedName(n)) : NamedAt[p][n] = Pushed(Tried(<<n>>, 0) \o rest)
    BY <1>1, <1>6
  <1> HIDE DEF s
  <1>9. Pushed(s) \in Seq(TriedName(n)) /\ NamesApart(Pushed(s))
    BY <1>7, PushedOnce
  <1>10. QED
    BY <1>1, <1>8, <1>9 DEF n

(* The bonuses and penalties are numbers. *)
LEMMA ScoresAreNumbers ==
    ASSUME NEW p \in Provider, NEW n \in Name
    PROVE  AutoScore[p][n] \in Int
  <1>1. /\ \A w \in DOMAIN ProviderBonus : ProviderBonus[w] \in Nat
        /\ \A w \in DOMAIN WordBonus : WordBonus[w] \in Nat
        /\ \A w \in DOMAIN WordPenalty : WordPenalty[w] \in Nat
    BY DEF ProviderBonus, WordBonus, WordPenalty
  <1>2. IsFiniteSet({p}) /\ IsFiniteSet(Words[n])
    BY FS_Singleton, NamesAssumption
  <1>3. ASSUME NEW weights, NEW words, IsFiniteSet(words), \A w \in DOMAIN weights : weights[w] \in Nat
        PROVE  SumOf(weights, words) \in Nat
    <2>1. IsFiniteSet(words \cap DOMAIN weights)
      BY <1>3, FS_Subset
    <2>2. QED
      BY <1>3, <2>1, SumInNat DEF SumOf
  <1> DEFINE a == SumOf(ProviderBonus, {p})
             b == SumOf(WordBonus, Words[n])
             c == SumOf(WordPenalty, Words[n])
  <1>4. a \in Nat /\ b \in Nat /\ c \in Nat
    BY <1>1, <1>2, <1>3
  <1>5. AutoScore[p][n] = (IF a + b > 100 THEN 0 ELSE 100 - (a + b)) + c
    BY DEF AutoScore
  <1> HIDE DEF a, b, c
  <1>6. QED
    BY <1>4, <1>5

(* The automatic fallbacks of a provider are names. *)
LEMMA AutoOrderTyped ==
    ASSUME NEW p \in Provider
    PROVE  AutoOrder[p] \in Seq(Name)
  <1> DEFINE S == {n \in Name : ~Unsafe(p, n)}
             score == [n \in Name |-> AutoScore[p][n]]
             R == {e \in S \X S : \/ score[e[1]] < score[e[2]]
                                  \/ score[e[1]] = score[e[2]] /\ NameRank[e[1]] < NameRank[e[2]]}
             nth(i) == CHOOSE x \in S : Cardinality({y \in S : \/ AutoScore[p][y] < AutoScore[p][x]
                                                               \/ AutoScore[p][y] = AutoScore[p][x] /\ NameRank[y] < NameRank[x]}) = i - 1
  <1>1. AutoOrder[p] = [i \in 1..Cardinality(S) |-> nth(i)]
    BY DEF AutoOrder, Sorted
  <1>2. IsFiniteSet(S) /\ S \subseteq Name
    BY NamesAssumption, FS_Subset
  <1>3. \A n \in Name : score[n] \in Int /\ score[n] = AutoScore[p][n] /\ NameRank[n] \in Int
    BY ScoresAreNumbers, NamesAssumption
  <1>4. \A m, n \in Name : NameRank[m] = NameRank[n] => m = n
    BY NamesAssumption
  <1> HIDE DEF score, S
  <1>5. TotalOrder(S, R)
    <2>1. \A x, y \in S : <<x, y>> \in R <=> \/ score[x] < score[y]
                                             \/ score[x] = score[y] /\ NameRank[x] < NameRank[y]
      OBVIOUS
    <2> HIDE DEF R
    <2>2. \A x \in S : <<x, x>> \notin R
      BY <1>2, <1>3, <2>1
    <2>3. \A x, y, z \in S : <<x, y>> \in R /\ <<y, z>> \in R => <<x, z>> \in R
      BY <1>2, <1>3, <2>1
    <2>4. ASSUME NEW x \in S, NEW y \in S, x # y PROVE <<x, y>> \in R \/ <<y, x>> \in R
      <3>1. NameRank[x] # NameRank[y]
        BY <1>2, <1>4, <2>4
      <3>2. score[x] \in Int /\ score[y] \in Int /\ NameRank[x] \in Int /\ NameRank[y] \in Int
        BY <1>2, <1>3
      <3>3. QED
        BY <2>1, <3>1, <3>2
    <2>5. QED
      BY <2>2, <2>3, <2>4 DEF TotalOrder
  <1>6. \A x \in S : {y \in S : \/ AutoScore[p][y] < AutoScore[p][x]
                                \/ AutoScore[p][y] = AutoScore[p][x] /\ NameRank[y] < NameRank[x]} = Below(S, R, x)
    BY <1>2, <1>3 DEF Below
  <1> HIDE DEF R
  <1>7. ASSUME NEW i \in 1..Cardinality(S) PROVE nth(i) \in S
    <2>1. PICK x \in S : Rank(S, R, x) = i - 1
      BY <1>2, <1>5, RanksTaken
    <2>2. \E z \in S : Cardinality({y \in S : \/ AutoScore[p][y] < AutoScore[p][z]
                                              \/ AutoScore[p][y] = AutoScore[p][z] /\ NameRank[y] < NameRank[z]}) = i - 1
      BY <1>6, <2>1, Zenon DEF Rank
    <2>3. QED
      BY <2>2, Zenon
  <1> HIDE DEF nth
  <1>8. Cardinality(S) \in Nat
    BY <1>2, FS_CardinalityType
  <1>9. QED
    BY <1>1, <1>2, <1>7, <1>8

(* The names tried at a provider differ. *)
LEMMA ModelsApart ==
    ASSUME NEW p \in Provider, NEW route \in Routes
    PROVE  /\ ModelsAt(p, route.model) \in Seq(TriedName(route.model))
           /\ NamesApart(ModelsAt(p, route.model))
           /\ \E rest \in Seq(TriedName(route.model)) :
                 ModelsAt(p, route.model) = Pushed(NamedAt[p][route.model] \o rest)
  <1> DEFINE n == route.model
             named == NamedAt[p][n]
             seen == {named[j].name : j \in DOMAIN named}
             served == FreeModels(p)
             I == {i \in DOMAIN AutoOrder[p] : AutoOrder[p][i] \in served /\ AutoOrder[p][i] \notin seen}
             all == Keep(AutoOrder[p], I)
             auto == SubSeq(all, 1, IF Len(all) < 4 THEN Len(all) ELSE 4)
  <1>1. ModelsAt(p, n) = Pushed(named \o Tried(auto, 2))
    BY DEF ModelsAt, AutoFallbacks, Where
  <1>2. named \in Seq(TriedName(n))
    BY NamedTyped
  <1>3. all \in Seq(Name)
    <2> HIDE DEF I
    <2>1. QED
      BY AutoOrderTyped, Kept
  <1>4. Name \subseteq ModelName
    <2>1. \A m \in Name : m = [path |-> m.path, tier |-> m.tier] /\ m.path \in Seq(STRING) /\ m.tier \in Tier
      BY NamesAssumption
    <2>2. QED
      BY <2>1 DEF ModelName
  <1> HIDE DEF all, n
  <1>5. auto \in Seq(ModelName \cup {n})
    <2>1. auto \in Seq(Name)
      <3>1. Len(all) \in Nat /\ \A i \in 1..Len(all) : all[i] \in Name
        BY <1>3
      <3>2. QED
        BY <3>1
    <2> HIDE DEF auto
    <2>2. Len(auto) \in Nat /\ \A i \in 1..Len(auto) : auto[i] \in ModelName \cup {n}
      BY <1>4, <2>1
    <2>3. auto = [i \in 1..Len(auto) |-> auto[i]]
      BY <2>1
    <2>4. QED
      BY <2>2, <2>3
  <1> HIDE DEF auto, named
  <1>6. Tried(auto, 2) \in Seq(TriedName(n))
    BY <1>5, TriedTyped
  <1>7. named \o Tried(auto, 2) \in Seq(TriedName(n))
    BY <1>2, <1>6
  <1>8. Pushed(named \o Tried(auto, 2)) \in Seq(TriedName(n)) /\ NamesApart(Pushed(named \o Tried(auto, 2)))
    BY <1>7, PushedOnce
  <1>9. QED
    BY <1>1, <1>6, <1>8 DEF n, named

(* What a candidate is. *)
CandidateOf(n) ==
    [provider : Provider, key : Key, model : ModelName \cup {n, WithTier(n, "free")}, index : Nat,
     position : Nat, penalty : Nat]

(* The penalty of a deployment is a number. *)
LEMMA PenaltyIsANumber ==
    ASSUME Typed, NEW d
    PROVE  Penalty(d) \in Nat
  <1>1. CASE d \notin DOMAIN deployments
    BY <1>1 DEF Penalty
  <1>2. CASE d \in DOMAIN deployments
    <2> DEFINE s == deployments[d]
               x == s.consecutive
               e == Excess(s)
    <2>1. s \in DeploymentState
      BY <1>2 DEF Typed
    <2>2. x \in Nat /\ e \in Nat
      BY <2>1 DEF DeploymentState, Excess
    <2>3. Penalty(d) = x * 100 + (IF e > 100 THEN 100 ELSE e)
      BY <1>2 DEF Penalty
    <2> HIDE DEF x, e
    <2>4. QED
      BY <2>2, <2>3
  <1>3. QED
    BY <1>1, <1>2

(* Lists whose entries f tells apart, within each and between them, make   *)
(* one list whose entries f tells apart.                                   *)
ApartBy(f, s) == \A i, j \in DOMAIN s : f[s[i]] = f[s[j]] => i = j

ComesFrom(t, ss) == \A k \in DOMAIN t : \E i \in DOMAIN ss : \E j \in DOMAIN ss[i] : t[k] = ss[i][j]

(* What f tells apart in lists of lists it tells apart in the list made    *)
(* of them.                                                                *)
LEMMA FlattenApart ==
    ASSUME NEW X, NEW ss \in Seq(Seq(X)), NEW f,
           \A i \in DOMAIN ss : ApartBy(f, ss[i]),
           \A i, j \in DOMAIN ss : \A k \in DOMAIN ss[i], l \in DOMAIN ss[j] : f[ss[i][k]] = f[ss[j][l]] => i = j
    PROVE  /\ FlattenSeq(ss) \in Seq(X)
           /\ ApartBy(f, FlattenSeq(ss))
           /\ ComesFrom(FlattenSeq(ss), ss)
  <1> DEFINE t == FlattenSeq(ss)
  <1>1. t \in Seq(X)
    BY FlattenCovers
  <1>2. PICK at : Covers(t, ss, Len(ss), at)
    BY FlattenCovers
  <1>3. Len(ss) \in Nat /\ DOMAIN ss = 1..Len(ss)
    OBVIOUS
  <1> HIDE DEF t
  <1>4. ASSUME NEW k \in DOMAIN t
        PROVE  /\ at[k][1] \in DOMAIN ss /\ at[k][2] \in DOMAIN ss[at[k][1]]
               /\ at[k] = <<at[k][1], at[k][2]>> /\ t[k] = ss[at[k][1]][at[k][2]]
    <2>1. at[k] \in Places(ss, Len(ss)) /\ t[k] = ss[at[k][1]][at[k][2]]
      BY <1>2 DEF Covers
    <2>2. QED
      BY <1>3, <2>1 DEF Places
  <1>5. ASSUME NEW a \in DOMAIN t, NEW b \in DOMAIN t, f[t[a]] = f[t[b]] PROVE a = b
    <2>1. at[a][1] = at[b][1]
      BY <1>4, <1>5
    <2>2. at[a][2] = at[b][2]
      BY <1>4, <1>5, <2>1 DEF ApartBy
    <2>3. at[a] = at[b]
      <3>1. at[a] = <<at[a][1], at[a][2]>> /\ at[b] = <<at[b][1], at[b][2]>>
        BY <1>4
      <3>2. QED
        BY <2>1, <2>2, <3>1, Zenon
    <2>4. QED
      BY <1>2, <2>3 DEF Covers
  <1>6. ApartBy(f, t)
    BY <1>5 DEF ApartBy
  <1>7. ComesFrom(t, ss)
    BY <1>4 DEF ComesFrom
  <1>8. QED
    BY <1>1, <1>6, <1>7 DEF t

(* The keys a provider offers for a name, and the candidates they become. *)
KeysFor(p, x) ==
    IF <<p, x>> \in blocked THEN <<>>
    ELSE Keep(FreeKeys(p, x), {i \in DOMAIN FreeKeys(p, x) : ~Cooling(<<p, FreeKeys(p, x)[i], x>>)})

OfModel(p, m, position) ==
    [i \in 1..Len(KeysFor(p, m.name)) |->
        [provider |-> p, key |-> KeysFor(p, m.name)[i], model |-> m.name, index |-> m.index,
         position |-> position, penalty |-> Penalty(<<p, KeysFor(p, m.name)[i], m.name>>)]]

(* A provider offers a key once for a name, and no key but its own. *)
LEMMA KeysForOnce ==
    ASSUME NEW p \in Provider, NEW x
    PROVE  /\ KeysFor(p, x) \in Seq(Key) /\ IsInjective(KeysFor(p, x))
           /\ ToSet(KeysFor(p, x)) \subseteq ToSet(Pool[p])
  <1> DEFINE s == FreeKeys(p, x)
             I == {i \in DOMAIN s : ~Cooling(<<p, s[i], x>>)}
  <1>1. s \in Seq(Key) /\ IsInjective(s) /\ ToSet(s) \subseteq ToSet(Pool[p])
    BY FreeKeysOnce
  <1>2. KeysFor(p, x) = IF <<p, x>> \in blocked THEN <<>> ELSE Keep(s, I)
    BY DEF KeysFor
  <1> HIDE DEF s, I
  <1>3. /\ Keep(s, I) \in Seq(Key) /\ IsInjective(Keep(s, I))
        /\ ToSet(Keep(s, I)) = {s[i] : i \in I \cap DOMAIN s}
    BY <1>1, KeptOf
  <1>4. ToSet(Keep(s, I)) \subseteq ToSet(Pool[p])
    BY <1>1, <1>3 DEF ToSet
  <1>5. <<>> \in Seq(Key) /\ IsInjective(<<>>) /\ ToSet(<<>>) = {}
    BY DEF IsInjective, ToSet
  <1>6. QED
    BY <1>2, <1>3, <1>4, <1>5

DeploymentOf(n) == [c \in CandidateOf(n) |-> <<c.provider, c.key, c.model>>]

(* One name gives candidates with different keys. *)
LEMMA OneModelApart ==
    ASSUME Typed, NEW n, NEW p \in Provider, NEW m \in TriedName(n), NEW position \in Nat
    PROVE  /\ OfModel(p, m, position) \in Seq(CandidateOf(n))
           /\ ApartBy(DeploymentOf(n), OfModel(p, m, position))
           /\ \A i \in DOMAIN OfModel(p, m, position) :
                 LET c == OfModel(p, m, position)[i]
                 IN  c.provider = p /\ c.model = m.name /\ c.position = position
  <1> DEFINE ks == KeysFor(p, m.name)
             C(i) == [provider |-> p, key |-> ks[i], model |-> m.name, index |-> m.index,
                      position |-> position, penalty |-> Penalty(<<p, ks[i], m.name>>)]
             t == OfModel(p, m, position)
  <1>1. ks \in Seq(Key) /\ IsInjective(ks)
    BY KeysForOnce
  <1>2. t = [i \in 1..Len(ks) |-> C(i)]
    BY DEF OfModel
  <1>3. m.name \in ModelName \cup {n, WithTier(n, "free")} /\ m.index \in Nat
    BY DEF TriedName
  <1> HIDE DEF ks, t
  <1>4. ASSUME NEW i \in 1..Len(ks)
        PROVE  /\ C(i) \in CandidateOf(n) /\ C(i).key = ks[i]
               /\ C(i).provider = p /\ C(i).model = m.name /\ C(i).position = position
    <2>1. ks[i] \in Key
      BY <1>1
    <2>2. Penalty(<<p, ks[i], m.name>>) \in Nat
      BY PenaltyIsANumber
    <2>3. QED
      BY <1>3, <2>1, <2>2 DEF CandidateOf
  <1> HIDE DEF C
  <1>5. Len(ks) \in Nat /\ DOMAIN ks = 1..Len(ks)
    BY <1>1
  <1>6. t \in Seq(CandidateOf(n)) /\ DOMAIN t = 1..Len(ks) /\ \A i \in 1..Len(ks) : t[i] = C(i)
    BY <1>2, <1>4, <1>5
  <1>7. \A i \in 1..Len(ks) : DeploymentOf(n)[t[i]] = <<p, ks[i], m.name>>
    BY <1>4, <1>6 DEF DeploymentOf
  <1>8. ApartBy(DeploymentOf(n), t)
    BY <1>1, <1>5, <1>6, <1>7 DEF ApartBy, IsInjective
  <1>9. QED
    BY <1>4, <1>6, <1>8 DEF t

(* A list over a set is one over a larger set. *)
LEMMA SeqOfMore ==
    ASSUME NEW A, NEW B, A \subseteq B, NEW s \in Seq(A)
    PROVE  s \in Seq(B)
  <1>1. Len(s) \in Nat /\ \A i \in 1..Len(s) : s[i] \in B
    OBVIOUS
  <1>2. s = [i \in 1..Len(s) |-> s[i]]
    OBVIOUS
  <1>3. QED
    BY <1>1, <1>2

(* Lists without repetitions and without a common entry make one such. *)
LEMMA ConcatApart ==
    ASSUME NEW X, NEW a \in Seq(X), NEW b \in Seq(X), IsInjective(a), IsInjective(b),
           NEW S, ToSet(a) \subseteq S, ToSet(b) \cap S = {}
    PROVE  IsInjective(a \o b)
  <1> DEFINE t == a \o b
             m == Len(a)
             n == Len(b)
  <1>1. m \in Nat /\ n \in Nat /\ DOMAIN a = 1..m /\ DOMAIN b = 1..n
    OBVIOUS
  <1>2. t \in Seq(X) /\ Joined(t, a, b)
    BY ConcatJoins
  <1>3. DOMAIN t = 1..(m + n)
    BY <1>2 DEF Joined
  <1> HIDE DEF t
  <1>4. ASSUME NEW i \in DOMAIN t
        PROVE  \/ i \in DOMAIN a /\ t[i] = a[i] /\ t[i] \in S
               \/ i > m /\ i - m \in DOMAIN b /\ t[i] = b[i - m] /\ t[i] \notin S
    <2>1. CASE i <= m
      <3>1. i \in DOMAIN a /\ t[i] = a[i]
        BY <1>1, <1>2, <1>3, <2>1 DEF Joined
      <3>2. QED
        BY <3>1 DEF ToSet
    <2>2. CASE ~ (i <= m)
      <3>1. i - m \in DOMAIN b /\ t[i] = b[i - m] /\ i > m
        BY <1>1, <1>2, <1>3, <2>2 DEF Joined
      <3>2. b[i - m] \notin S
        BY <3>1 DEF ToSet
      <3>3. QED
        BY <3>1, <3>2
    <2>3. QED
      BY <2>1, <2>2
  <1>5. ASSUME NEW i \in DOMAIN t, NEW j \in DOMAIN t, t[i] = t[j] PROVE i = j
    <2>1. CASE t[i] \in S
      <3>1. i \in DOMAIN a /\ j \in DOMAIN a /\ a[i] = a[j]
        BY <1>4, <1>5, <2>1
      <3>2. QED
        BY <3>1 DEF IsInjective
    <2>2. CASE t[i] \notin S
      <3>1. i - m \in DOMAIN b /\ j - m \in DOMAIN b /\ b[i - m] = b[j - m]
        BY <1>4, <1>5, <2>2
      <3>2. i - m = j - m
        BY <3>1 DEF IsInjective
      <3>3. QED
        BY <1>1, <1>3, <3>2
    <2>3. QED
      BY <2>1, <2>2
  <1>6. QED
    BY <1>5 DEF IsInjective, t

(* A provider's candidates for a name: no key twice with the same model. *)
LEMMA CandidatesAtApart ==
    ASSUME Typed, NEW route \in Routes, NEW p \in Provider, NEW position \in Nat
    PROVE  LET s == CandidatesAt(p, route.model, position)
           IN  /\ s \in Seq(CandidateOf(route.model))
               /\ ApartBy(DeploymentOf(route.model), s)
               /\ \A i \in DOMAIN s : s[i].provider = p
  <1> DEFINE n == route.model
             models == ModelsAt(p, n)
             f == DeploymentOf(n)
             s == CandidatesAt(p, n, position)
             ss == [i \in 1..Len(models) |-> OfModel(p, models[i], position)]
  <1>1. models \in Seq(TriedName(n)) /\ NamesApart(models)
    BY ModelsApart
  <1>2. s = FlattenSeq(ss)
    BY DEF CandidatesAt, OfModel, KeysFor, Where
  <1>3. ASSUME NEW i \in 1..Len(models) PROVE models[i] \in TriedName(n)
    BY <1>1
  <1> HIDE DEF models, n, s, f
  <1>4. ASSUME NEW i \in 1..Len(models)
        PROVE  /\ OfModel(p, models[i], position) \in Seq(CandidateOf(n))
               /\ ApartBy(f, OfModel(p, models[i], position))
               /\ \A k \in DOMAIN OfModel(p, models[i], position) :
                     LET c == OfModel(p, models[i], position)[k]
                     IN  c.provider = p /\ c.model = models[i].name
    BY <1>3, OneModelApart DEF f
  <1>5. ss \in Seq(Seq(CandidateOf(n)))
    <2>1. \A i \in 1..Len(models) : OfModel(p, models[i], position) \in Seq(CandidateOf(n))
      BY <1>4
    <2>2. Len(models) \in Nat
      BY <1>1
    <2>3. QED
      BY <2>1, <2>2
  <1>6. DOMAIN ss = 1..Len(models) /\ DOMAIN models = 1..Len(models)
    BY <1>1
  <1>7. \A i \in 1..Len(models) : ss[i] = OfModel(p, models[i], position)
    OBVIOUS
  <1> HIDE DEF ss
  <1>8. \A i \in DOMAIN ss : ApartBy(f, ss[i]) /\ \A k \in DOMAIN ss[i] : ss[i][k].provider = p /\ ss[i][k].model = models[i].name
    BY <1>4, <1>6, <1>7
  <1>9. ASSUME NEW i \in DOMAIN ss, NEW j \in DOMAIN ss, NEW k \in DOMAIN ss[i], NEW l \in DOMAIN ss[j],
               f[ss[i][k]] = f[ss[j][l]]
        PROVE  i = j
    <2>1. ss[i][k] \in CandidateOf(n) /\ ss[j][l] \in CandidateOf(n)
      <3> HIDE DEF f
      <3>1. ss[i] \in Seq(CandidateOf(n)) /\ ss[j] \in Seq(CandidateOf(n))
        BY <1>5
      <3>2. QED
        BY <3>1
    <2>2. ss[i][k].model = ss[j][l].model
      BY <1>9, <2>1 DEF f, DeploymentOf
    <2>3. models[i].name = models[j].name
      BY <1>8, <2>2
    <2>4. QED
      BY <1>1, <1>6, <2>3 DEF NamesApart
  <1>10. FlattenSeq(ss) \in Seq(CandidateOf(n)) /\ ApartBy(f, FlattenSeq(ss))
    BY <1>5, <1>8, <1>9, FlattenApart
  <1>11. ComesFrom(FlattenSeq(ss), ss)
    BY <1>5, <1>8, <1>9, FlattenApart
  <1>12. \A i \in DOMAIN s : s[i].provider = p
    BY <1>2, <1>8, <1>11 DEF ComesFrom
  <1>13. s \in Seq(CandidateOf(n)) /\ ApartBy(f, s)
    BY <1>2, <1>10
  <1>14. QED
    BY <1>12, <1>13 DEF s, f, n

(* A concatenation has the elements of both lists. *)
LEMMA ConcatSet ==
    ASSUME NEW X, NEW a \in Seq(X), NEW b \in Seq(X)
    PROVE  ToSet(a) \subseteq ToSet(a \o b) /\ ToSet(b) \subseteq ToSet(a \o b)
  <1> DEFINE t == a \o b
             m == Len(a)
             n == Len(b)
  <1>1. m \in Nat /\ n \in Nat /\ DOMAIN a = 1..m /\ DOMAIN b = 1..n
    OBVIOUS
  <1>2. t \in Seq(X) /\ Joined(t, a, b)
    BY ConcatJoins
  <1> HIDE DEF t
  <1>3. DOMAIN t = 1..(m + n) /\ \A i \in 1..(m + n) : t[i] = IF i <= m THEN a[i] ELSE b[i - m]
    BY <1>2 DEF Joined
  <1> HIDE DEF m, n
  <1>4. \A i \in DOMAIN a : i \in DOMAIN t /\ t[i] = a[i]
    BY <1>1, <1>3
  <1>5. \A i \in DOMAIN b : i + m \in DOMAIN t /\ t[i + m] = b[i]
    BY <1>1, <1>3
  <1>6. QED
    BY <1>4, <1>5 DEF ToSet, t

(* All the providers are tried, each once. *)
LEMMA ProvidersOnce ==
    ASSUME NEW route \in Routes
    PROVE  /\ ProviderOrder[route.provider] \in Seq(Provider)
           /\ IsInjective(ProviderOrder[route.provider])
           /\ Provider \subseteq ToSet(ProviderOrder[route.provider])
  <1> DEFINE first == route.provider
             chain == <<first>> \o Fallback
             I == {i \in DOMAIN chain : chain[i] \in Provider}
             named == Keep(chain, I)
             J == {i \in DOMAIN named : \A j \in 1..(i - 1) : named[j] # named[i]}
             once == Keep(named, J)
             rest == Provider \ ToSet(named)
             nth(i) == CHOOSE x \in rest : Cardinality({y \in rest : NameOrder[y] < NameOrder[x]}) = i - 1
             others == [i \in 1..Cardinality(rest) |-> nth(i)]
  <1>1. ProviderOrder[first] = once \o others
    BY DEF ProviderOrder, Where, Distinct, FirstOfEach, ByName, Sorted
  <1>2. chain \in Seq(STRING \cup {first})
    BY NamesAssumption
  <1>3. named \in Seq(Provider)
    <2>1. named \in Seq(STRING \cup {first}) /\ ToSet(named) = {chain[i] : i \in I \cap DOMAIN chain}
      <3> HIDE DEF chain, I
      <3>1. QED
        BY <1>2, KeptOf
    <2>2. ToSet(named) \subseteq Provider
      BY <2>1
    <2> HIDE DEF named
    <2>3. \A i \in 1..Len(named) : named[i] \in Provider
      <3>1. DOMAIN named = 1..Len(named)
        BY <2>1
      <3>2. QED
        BY <2>2, <3>1 DEF ToSet
    <2>4. named = [i \in 1..Len(named) |-> named[i]] /\ Len(named) \in Nat
      BY <2>1
    <2>5. QED
      BY <2>3, <2>4
  <1> HIDE DEF named
  <1>4. once \in Seq(Provider) /\ IsInjective(once) /\ ToSet(once) = ToSet(named)
    <2>1. \A i, j \in J : named[i] = named[j] => i = j
      <3>1. \A i, j \in J : i < j => named[i] # named[j]
        <4>1. \A i, j \in DOMAIN named : i < j => i \in 1..(j - 1)
          BY <1>3
        <4>2. QED
          BY <4>1
      <3>2. \A i, j \in J : i < j \/ j < i \/ i = j
        BY <1>3
      <3> HIDE DEF J
      <3>3. QED
        BY <3>1, <3>2
    <2> HIDE DEF J
    <2>0. ASSUME NEW i \in DOMAIN named PROVE \E j \in J : named[j] = named[i]
      <3> DEFINE T == {j \in DOMAIN named : named[j] = named[i]}
      <3>1. T \subseteq Nat /\ T # {}
        BY <1>3
      <3>2. PICK j \in T : \A l \in T : j <= l
        BY <3>1, LeastNatural
      <3>3. \A l \in 1..(j - 1) : l \in DOMAIN named /\ ~ (j <= l)
        BY <1>3, <3>2
      <3>4. \A l \in 1..(j - 1) : named[l] # named[j]
        BY <3>2, <3>3
      <3>5. j \in J
        BY <3>4 DEF J
      <3>6. QED
        BY <3>5
    <2>00. J \subseteq DOMAIN named
      BY DEF J
    <2>2. PICK at : Takes(Keep(named, J), named, J \cap DOMAIN named, at)
      BY <1>3, Kept
    <2>3. IsInjective(once)
      BY <2>1, <2>2 DEF Takes, IsInjective
    <2>4. ToSet(once) = ToSet(named)
      <3>1. ToSet(once) = {named[j] : j \in J \cap DOMAIN named}
        BY <2>2, TakesSome
      <3>2. QED
        BY <2>0, <2>00, <3>1 DEF ToSet
    <2>5. once \in Seq(Provider)
      BY <1>3, Kept
    <2>6. QED
      BY <2>3, <2>4, <2>5
  <1> HIDE DEF once
  <1>5. others \in Seq(Provider) /\ IsInjective(others) /\ ToSet(others) = rest
    <2> DEFINE R == {e \in rest \X rest : NameOrder[e[1]] < NameOrder[e[2]]}
    <2>1. IsFiniteSet(rest) /\ rest \subseteq Provider
      BY NamesAssumption, FS_Subset
    <2>2. \A p \in Provider : NameOrder[p] \in Int
      BY NamesAssumption
    <2>3. \A p, q \in Provider : NameOrder[p] = NameOrder[q] => p = q
      BY NamesAssumption
    <2> HIDE DEF rest
    <2>4. TotalOrder(rest, R)
      <3>1. \A x, y \in rest : <<x, y>> \in R <=> NameOrder[x] < NameOrder[y]
        OBVIOUS
      <3> HIDE DEF R
      <3>2. \A x \in rest : <<x, x>> \notin R
        BY <2>1, <2>2, <3>1
      <3>3. \A x, y, z \in rest : <<x, y>> \in R /\ <<y, z>> \in R => <<x, z>> \in R
        BY <2>1, <2>2, <3>1
      <3>4. ASSUME NEW x \in rest, NEW y \in rest, x # y PROVE <<x, y>> \in R \/ <<y, x>> \in R
        <4>1. NameOrder[x] # NameOrder[y]
          BY <2>1, <2>3, <3>4
        <4>2. NameOrder[x] \in Int /\ NameOrder[y] \in Int
          BY <2>1, <2>2
        <4>3. QED
          BY <3>1, <4>1, <4>2
      <3>5. QED
        BY <3>2, <3>3, <3>4 DEF TotalOrder
    <2>5. \A x \in rest : {y \in rest : NameOrder[y] < NameOrder[x]} = Below(rest, R, x)
      BY DEF Below
    <2> HIDE DEF R
    <2>6. \A x \in rest : Cardinality({y \in rest : NameOrder[y] < NameOrder[x]}) = Rank(rest, R, x)
      BY <2>5, Zenon DEF Rank
    <2>7. ASSUME NEW i \in 1..Cardinality(rest) PROVE nth(i) \in rest /\ Rank(rest, R, nth(i)) = i - 1
      <3>1. PICK x \in rest : Rank(rest, R, x) = i - 1
        BY <2>1, <2>4, RanksTaken
      <3>2. \E z \in rest : Cardinality({y \in rest : NameOrder[y] < NameOrder[z]}) = i - 1
        BY <2>6, <3>1
      <3>3. nth(i) \in rest /\ Cardinality({y \in rest : NameOrder[y] < NameOrder[nth(i)]}) = i - 1
        BY <3>2, Zenon
      <3>4. QED
        BY <2>6, <3>3
    <2> HIDE DEF nth
    <2>8. Cardinality(rest) \in Nat
      BY <2>1, FS_CardinalityType
    <2>9. others \in Seq(rest) /\ DOMAIN others = 1..Cardinality(rest) /\ \A i \in 1..Cardinality(rest) : others[i] = nth(i)
      BY <2>7, <2>8
    <2> HIDE DEF others
    <2>10. ASSUME NEW i \in DOMAIN others, NEW j \in DOMAIN others, others[i] = others[j] PROVE i = j
      <3>1. i - 1 = j - 1
        BY <2>7, <2>9, <2>10
      <3>2. i \in Int /\ j \in Int
        BY <2>9
      <3>3. QED
        BY <3>1, <3>2
    <2>11. ToSet(others) = rest
      <3>1. ASSUME NEW x \in rest PROVE \E i \in DOMAIN others : others[i] = x
        <4> DEFINE i == Rank(rest, R, x) + 1
        <4>1. Rank(rest, R, x) \in 0..(Cardinality(rest) - 1)
          BY <2>1, <2>4, RanksGrow
        <4>2. i \in 1..Cardinality(rest) /\ i - 1 = Rank(rest, R, x)
          BY <2>8, <4>1
        <4> HIDE DEF i
        <4>3. nth(i) \in rest /\ Rank(rest, R, nth(i)) = Rank(rest, R, x)
          BY <2>7, <4>2
        <4>4. ~ (<<x, nth(i)>> \in R) /\ ~ (<<nth(i), x>> \in R)
          <5>1. Rank(rest, R, x) \in Int
            BY <4>1
          <5>2. QED
            BY <2>1, <2>4, <4>3, <5>1, RanksGrow
        <4>5. nth(i) = x
          BY <2>4, <4>3, <4>4 DEF TotalOrder
        <4>6. QED
          BY <2>9, <4>2, <4>5
      <3>2. QED
        BY <2>7, <2>9, <3>1 DEF ToSet
    <2>12. others \in Seq(Provider)
      BY <2>1, <2>9, SeqOfMore
    <2>13. QED
      BY <2>10, <2>11, <2>12 DEF IsInjective
  <1> HIDE DEF others
  <1>6. once \o others \in Seq(Provider)
    BY <1>4, <1>5
  <1>7. IsInjective(once \o others)
    BY <1>4, <1>5, ConcatApart
  <1>8. Provider \subseteq ToSet(once \o others)
    <2>1. ToSet(once) \subseteq ToSet(once \o others) /\ ToSet(others) \subseteq ToSet(once \o others)
      BY <1>4, <1>5, ConcatSet
    <2>2. Provider \subseteq ToSet(once) \cup rest
      BY <1>4
    <2>3. QED
      BY <1>5, <2>1, <2>2
  <1>9. QED
    BY <1>1, <1>6, <1>7, <1>8

(* A concatenation begins with what its first part begins with. *)
LEMMA FirstOfConcat ==
    \A s, t \in Seq(Int) : Len(s) > 0 => (s \o t)[1] = s[1]
  <1> SUFFICES ASSUME NEW s \in Seq(Int), NEW t \in Seq(Int), Len(s) > 0
               PROVE  (s \o t)[1] = s[1]
    OBVIOUS
  <1>1. \A i \in 1..(Len(s) + Len(t)) : (s \o t)[i] = IF i <= Len(s) THEN s[i] ELSE t[i - Len(s)]
    BY ConcatProperties
  <1>2. 1 \in 1..(Len(s) + Len(t)) /\ 1 <= Len(s)
    OBVIOUS
  <1>3. QED
    BY <1>1, <1>2, Zenon

(* The candidates of a request are different deployments. *)
LEMMA CandidatesApart ==
    ASSUME Typed, NEW route \in Routes
    PROVE  /\ Candidates(route) \in Seq(CandidateOf(route.model))
           /\ ApartBy(DeploymentOf(route.model), Candidates(route))
  <1> DEFINE n == route.model
             order == ProviderOrder[route.provider]
             f == DeploymentOf(n)
             ss == [i \in 1..Len(order) |-> CandidatesAt(order[i], n, i)]
  <1>1. order \in Seq(Provider) /\ IsInjective(order)
    BY ProvidersOnce
  <1>2. Candidates(route) = FlattenSeq(ss)
    BY DEF Candidates
  <1>3. Len(order) \in Nat /\ DOMAIN order = 1..Len(order) /\ \A i \in 1..Len(order) : order[i] \in Provider /\ i \in Nat
    BY <1>1
  <1> HIDE DEF order
  <1>4. ASSUME NEW i \in 1..Len(order)
        PROVE  LET s == CandidatesAt(order[i], n, i)
               IN  s \in Seq(CandidateOf(n)) /\ ApartBy(f, s) /\ \A k \in DOMAIN s : s[k].provider = order[i]
    BY <1>3, CandidatesAtApart
  <1> HIDE DEF n, f
  <1>5. ss \in Seq(Seq(CandidateOf(n)))
    <2>1. \A i \in 1..Len(order) : CandidatesAt(order[i], n, i) \in Seq(CandidateOf(n))
      BY <1>4
    <2>2. QED
      BY <1>3, <2>1
  <1>6. DOMAIN ss = 1..Len(order) /\ \A i \in 1..Len(order) : ss[i] = CandidatesAt(order[i], n, i)
    BY <1>3
  <1> HIDE DEF ss
  <1>7. \A i \in DOMAIN ss : ApartBy(f, ss[i]) /\ \A k \in DOMAIN ss[i] : ss[i][k].provider = order[i]
    BY <1>4, <1>6
  <1>8. ASSUME NEW i \in DOMAIN ss, NEW j \in DOMAIN ss, NEW k \in DOMAIN ss[i], NEW l \in DOMAIN ss[j],
               f[ss[i][k]] = f[ss[j][l]]
        PROVE  i = j
    <2>1. ss[i][k] \in CandidateOf(n) /\ ss[j][l] \in CandidateOf(n)
      <3>1. ss[i] \in Seq(CandidateOf(n)) /\ ss[j] \in Seq(CandidateOf(n))
        BY <1>5
      <3>2. QED
        BY <3>1
    <2>2. ss[i][k].provider = ss[j][l].provider
      BY <1>8, <2>1 DEF f, DeploymentOf
    <2>3. order[i] = order[j]
      BY <1>7, <2>2
    <2>4. QED
      BY <1>1, <1>3, <1>6, <2>3 DEF IsInjective
  <1>9. FlattenSeq(ss) \in Seq(CandidateOf(n)) /\ ApartBy(f, FlattenSeq(ss))
    <2>1. \A i \in DOMAIN ss : ApartBy(f, ss[i])
      BY <1>7
    <2>2. \A i, j \in DOMAIN ss : \A k \in DOMAIN ss[i], l \in DOMAIN ss[j] : f[ss[i][k]] = f[ss[j][l]] => i = j
      BY <1>8
    <2>3. QED
      BY <1>5, <2>1, <2>2, FlattenApart
  <1>10. QED
    BY <1>2, <1>9 DEF n, f

(* The length of the keys of each strategy. *)
KeyLen ==
    CASE strategy = "least_rate" -> 7
      [] strategy = "least_failed" -> 9
      [] strategy = "priority" -> 3
      [] OTHER -> 2

(* So the keys can be compared, the penalty first. *)
LEMMA SortKeyTyped ==
    ASSUME Typed, NEW n, NEW c \in CandidateOf(n)
    PROVE  SortKey(c) \in Seq(Int) /\ Len(SortKey(c)) = KeyLen /\ SortKey(c)[1] = c.penalty
  <1> DEFINE a == c.penalty
             b == c.index
             e == c.position
             u == <<IF keys[c.key].status = "probing" THEN 1000 ELSE 0,
                    keys[c.key].sent, keys[c.key].fails, keys[c.key].errors>>
             x == keys[c.key].fails
             y == keys[c.key].errors
  <1>1. a \in Int /\ b \in Int /\ e \in Int /\ c.key \in Key
    BY DEF CandidateOf
  <1>2. keys[c.key] \in KeyView
    BY <1>1 DEF Typed
  <1>3. u \in Seq(Int) /\ Len(u) = 4 /\ x \in Int /\ y \in Int
    <2>1. keys[c.key].sent \in Int /\ keys[c.key].fails \in Int /\ keys[c.key].errors \in Int
      BY <1>2 DEF KeyView
    <2>2. (IF keys[c.key].status = "probing" THEN 1000 ELSE 0) \in Int
      OBVIOUS
    <2>3. QED
      BY <2>1, <2>2
  <1>4. Usage(c.key) = u
    BY DEF Usage
  <1>5. \A s, t \in Seq(Int) : s \o t \in Seq(Int) /\ Len(s \o t) = Len(s) + Len(t)
    OBVIOUS
  <1>6. \A s, t \in Seq(Int) : Len(s) > 0 => (s \o t)[1] = s[1]
    BY FirstOfConcat
  <1>7. SortKey(c) = CASE strategy = "least_rate" -> <<a, b>> \o u \o <<e>>
                       [] strategy = "least_failed" -> <<a, b, x, y>> \o u \o <<e>>
                       [] strategy = "priority" -> <<a, b, e>>
                       [] OTHER -> <<a, b>>
    BY <1>4 DEF SortKey
  <1> HIDE DEF a, b, e, u, x, y
  <1>8. <<a, b>> \in Seq(Int) /\ Len(<<a, b>>) = 2 /\ <<a, b>>[1] = a
    BY <1>1
  <1>9. <<a, b, x, y>> \in Seq(Int) /\ Len(<<a, b, x, y>>) = 4 /\ <<a, b, x, y>>[1] = a
    BY <1>1, <1>3
  <1>10. <<a, b, e>> \in Seq(Int) /\ Len(<<a, b, e>>) = 3 /\ <<a, b, e>>[1] = a
    BY <1>1
  <1>11. <<e>> \in Seq(Int) /\ Len(<<e>>) = 1
    BY <1>1
  <1> DEFINE Fine(s, l) == s \in Seq(Int) /\ Len(s) = l /\ s[1] = a
  <1>12. ASSUME NEW s \in Seq(Int), NEW l \in Nat \ {0}, Len(s) = l, s[1] = a PROVE Fine(s \o u \o <<e>>, l + 5)
    <2> DEFINE v == s \o u
               w == v \o <<e>>
    <2>1. v \in Seq(Int) /\ Len(v) = Len(s) + Len(u)
      BY <1>3, <1>5
    <2>2. v[1] = a
      BY <1>3, <1>6, <1>12
    <2>3. Len(v) = l + 4 /\ Len(v) > 0
      BY <1>3, <1>12, <2>1
    <2> HIDE DEF v
    <2>4. w \in Seq(Int) /\ Len(w) = Len(v) + Len(<<e>>)
      BY <1>5, <1>11, <2>1
    <2>5. w[1] = a
      BY <1>6, <1>11, <2>1, <2>2, <2>3
    <2>6. Len(w) = l + 5
      BY <1>11, <2>3, <2>4
    <2> HIDE DEF w
    <2>7. Fine(w, l + 5)
      BY <2>4, <2>5, <2>6
    <2>8. QED
      BY <2>7 DEF w, v
  <1>13. Fine(<<a, b>>, 2) /\ Fine(<<a, b, x, y>>, 4) /\ Fine(<<a, b, e>>, 3)
    BY <1>8, <1>9, <1>10
  <1>14. Fine(<<a, b>> \o u \o <<e>>, 7) /\ Fine(<<a, b, x, y>> \o u \o <<e>>, 9)
    <2>1. ASSUME NEW s \in Seq(Int), NEW l \in Nat \ {0}, Fine(s, l) PROVE Fine(s \o u \o <<e>>, l + 5)
      <3>1. Len(s) = l /\ s[1] = a
        BY <2>1
      <3> HIDE DEF Fine
      <3>2. QED
        BY <1>12, <3>1
    <2>2. <<a, b>> \in Seq(Int) /\ <<a, b, x, y>> \in Seq(Int) /\ 2 \in Nat \ {0} /\ 4 \in Nat \ {0} /\ 2 + 5 = 7 /\ 4 + 5 = 9
      BY <1>8, <1>9
    <2> HIDE DEF Fine
    <2>3. Fine(<<a, b>> \o u \o <<e>>, 2 + 5)
      BY <1>13, <2>1, <2>2
    <2>4. Fine(<<a, b, x, y>> \o u \o <<e>>, 4 + 5)
      BY <1>13, <2>1, <2>2
    <2>5. QED
      BY <2>2, <2>3, <2>4
  <1> HIDE DEF Fine
  <1>15. Fine(SortKey(c), KeyLen)
    <2>1. CASE strategy = "least_rate"
      BY <1>7, <1>14, <2>1 DEF KeyLen
    <2>2. CASE strategy = "least_failed"
      BY <1>7, <1>14, <2>2 DEF KeyLen
    <2>3. CASE strategy = "priority"
      BY <1>7, <1>13, <2>3 DEF KeyLen
    <2>4. CASE strategy \notin {"least_rate", "least_failed", "priority"}
      BY <1>7, <1>13, <2>4 DEF KeyLen
    <2>5. QED
      BY <2>1, <2>2, <2>3, <2>4
  <1>16. QED
    BY <1>15 DEF Fine, a

(* The penalties of s never go down. *)
Ascending(s) == \A i, j \in DOMAIN s : i < j => s[i].penalty <= s[j].penalty

(* Sorting takes each candidate once and puts the lower penalties first. *)
LEMMA RankedTakes ==
    ASSUME Typed, NEW route \in Routes
    PROVE  /\ Ranked(route) \in Seq(CandidateOf(route.model))
           /\ \E at : Takes(Ranked(route), Candidates(route), DOMAIN Candidates(route), at)
           /\ Ascending(Ranked(route))
  <1> DEFINE s == Candidates(route)
             X == CandidateOf(route.model)
             k == [i \in DOMAIN s |-> SortKey(s[i])]
             K == {k[i] \o <<i>> : i \in DOMAIN s}
             at == [n \in 1..Cardinality(K) |-> CHOOSE x \in K : Cardinality({y \in K : Before(y, x)}) = n - 1]
             t == [n \in DOMAIN s |-> s[Last(at[n])]]
             m == KeyLen
  <1>1. s \in Seq(X)
    BY CandidatesApart
  <1>2. Ranked(route) = t
    <2>1. K = {SortKey(s[i]) \o <<i>> : i \in DOMAIN s}
      OBVIOUS
    <2>2. Ranked(route) = [n \in DOMAIN s |-> s[Last(Sorted({SortKey(s[i]) \o <<i>> : i \in DOMAIN s}, Before)[n])]]
      BY DEF Ranked, StableSort
    <2>3. Sorted(K, Before) = at
      BY DEF Sorted
    <2> HIDE DEF K, at
    <2>4. QED
      BY <2>1, <2>2, <2>3
  <1>3. m \in Nat /\ m > 0
    BY DEF KeyLen
  <1> HIDE DEF s, m, X
  <1>4. \A i \in DOMAIN s : k[i] \in Seq(Int) /\ Len(k[i]) = m /\ k[i][1] = s[i].penalty /\ s[i].penalty \in Int
    <2>1. ASSUME NEW i \in DOMAIN s
          PROVE SortKey(s[i]) \in Seq(Int) /\ Len(SortKey(s[i])) = m /\ SortKey(s[i])[1] = s[i].penalty /\ s[i].penalty \in Int
      <3>1. s[i] \in X
        BY <1>1
      <3>2. s[i].penalty \in Int
        BY <3>1 DEF X, CandidateOf
      <3>3. QED
        BY <3>1, <3>2, SortKeyTyped DEF X, m
    <2>2. QED
      BY <2>1
  <1>5. SortedBy(s, k, K, at, t)
    BY DEF SortedBy
  <1> HIDE DEF k, K, at, t
  <1>6. t \in Seq(X)
    BY <1>1, <1>3, <1>4, <1>5, KeysSort
  <1>7. PICK place : Takes(t, s, DOMAIN s, place) /\ KeysAscend(k, place, t)
    BY <1>1, <1>3, <1>4, <1>5, KeysSort
  <1>8. ASSUME NEW i \in DOMAIN t, NEW j \in DOMAIN t, i < j PROVE t[i].penalty <= t[j].penalty
    <2> DEFINE a == k[place[i]] \o <<place[i]>>
               b == k[place[j]] \o <<place[j]>>
    <2>1. place[i] \in DOMAIN s /\ place[j] \in DOMAIN s /\ t[i] = s[place[i]] /\ t[j] = s[place[j]]
      BY <1>7 DEF Takes
    <2>2. ASSUME NEW p \in DOMAIN s
          PROVE  Len(k[p] \o <<p>>) = m + 1 /\ (k[p] \o <<p>>)[1] = s[p].penalty
      <3>1. <<p>> \in Seq(Int) /\ Len(<<p>>) = 1
        <4>1. p \in Int
          BY <1>1
        <4>2. QED
          BY <4>1
      <3>2. k[p] \in Seq(Int) /\ Len(k[p]) = m /\ k[p][1] = s[p].penalty
        BY <1>4
      <3>3. \A u, v \in Seq(Int) : Len(u \o v) = Len(u) + Len(v)
        OBVIOUS
      <3>4. \A u, v \in Seq(Int) : Len(u) > 0 => (u \o v)[1] = u[1]
        BY FirstOfConcat
      <3>5. QED
        BY <1>3, <3>1, <3>2, <3>3, <3>4
    <2>3. Before(a, b)
      BY <1>7, <1>8 DEF KeysAscend
    <2>4. Len(a) = m + 1 /\ a[1] = t[i].penalty /\ b[1] = t[j].penalty
      BY <2>1, <2>2
    <2>5. t[i].penalty \in Int /\ t[j].penalty \in Int
      BY <1>4, <2>1
    <2> HIDE DEF a, b
    <2>6. PICK l \in 1..(m + 1) : a[l] < b[l] /\ \A n \in 1..(l - 1) : a[n] = b[n]
      BY <2>3, <2>4 DEF Before
    <2>7. CASE l = 1
      BY <2>4, <2>5, <2>6, <2>7
    <2>8. CASE l # 1
      <3>1. 1 \in 1..(l - 1)
        BY <1>3, <2>8
      <3>2. a[1] = b[1]
        BY <2>6, <3>1
      <3>3. QED
        BY <2>4, <2>5, <3>2
    <2>9. QED
      BY <2>7, <2>8
  <1>9. Ascending(t)
    BY <1>8 DEF Ascending
  <1>10. QED
    BY <1>2, <1>6, <1>7, <1>9 DEF s, X

-----------------------------------------------------------------------------
(* The order in which they are asked *)

(* A set of places with every place before one of its own is a prefix. *)
LEMMA PrefixLength ==
    ASSUME NEW N \in Nat, NEW P \in SUBSET (1..N), \A i \in P : \A j \in 1..i : j \in P
    PROVE  P = 1..Cardinality(P) /\ Cardinality(P) \in 0..N
  <1> DEFINE T == {n \in Nat : n + 1 \notin P}
  <1>1. N \in T /\ T \subseteq Nat
    OBVIOUS
  <1>2. PICK x \in T : \A y \in T : x <= y
    BY <1>1, LeastNatural
  <1>3. x \in Nat /\ x + 1 \notin P /\ x <= N
    BY <1>1, <1>2
  <1>4. ASSUME NEW j \in 1..x PROVE j \in P
    <2>1. j - 1 \in Nat /\ (j - 1) + 1 = j /\ ~ (x <= j - 1)
      BY <1>3
    <2>2. j - 1 \notin T
      BY <1>2, <2>1
    <2>3. QED
      BY <2>1, <2>2
  <1>5. ASSUME NEW i \in P PROVE i \in 1..x
    <2>1. i \in 1..N
      OBVIOUS
    <2>2. i > x => x + 1 \in 1..i
      BY <1>3, <2>1
    <2>3. ~ (i > x)
      BY <1>3, <2>2
    <2>4. QED
      BY <1>3, <2>1, <2>3
  <1>6. P = 1..x
    BY <1>4, <1>5
  <1>7. Cardinality(1..x) = x
    <2>1. Cardinality(1..x) = IF 1 > x THEN 0 ELSE x - 1 + 1
      BY <1>3, FS_Interval
    <2>2. QED
      BY <1>3, <2>1
  <1>8. QED
    BY <1>3, <1>6, <1>7

(* The healthy ones are the first of a list in ascending order. *)
LEMMA HealthyPrefix ==
    ASSUME NEW X, NEW s \in Seq(X), \A i \in DOMAIN s : s[i].penalty \in Int, Ascending(s)
    PROVE  /\ HealthyLen(s) \in 0..Len(s)
           /\ \A i \in DOMAIN s : i <= HealthyLen(s) <=> s[i].penalty = s[1].penalty
           /\ s # <<>> => HealthyLen(s) > 0
  <1> DEFINE N == Len(s)
             P == {i \in DOMAIN s : s[i].penalty = s[1].penalty}
  <1>1. N \in Nat /\ DOMAIN s = 1..N /\ (s # <<>> => N > 0)
    OBVIOUS
  <1>2. HealthyLen(s) = Cardinality(P)
    BY DEF HealthyLen
  <1> HIDE DEF N
  <1>3. ASSUME NEW i \in P, NEW j \in 1..i PROVE j \in P
    <2>1. 1 \in DOMAIN s /\ j \in DOMAIN s /\ i \in DOMAIN s /\ 1 <= j /\ j <= i
      BY <1>1
    <2>2. s[1].penalty <= s[j].penalty /\ s[j].penalty <= s[i].penalty
      BY <1>1, <2>1 DEF Ascending
    <2>3. s[i].penalty = s[1].penalty
      OBVIOUS
    <2>4. s[j].penalty = s[1].penalty
      BY <2>1, <2>2, <2>3
    <2>5. QED
      BY <2>1, <2>4
  <1>4. P \in SUBSET (1..N)
    BY <1>1
  <1>5. \A i \in DOMAIN s : i \in P <=> s[i].penalty = s[1].penalty
    OBVIOUS
  <1> HIDE DEF P
  <1>6. P = 1..Cardinality(P) /\ Cardinality(P) \in 0..N
    BY <1>1, <1>3, <1>4, PrefixLength
  <1>7. ASSUME s # <<>> PROVE Cardinality(P) > 0
    <2>1. 1 \in P
      BY <1>1, <1>5, <1>7
    <2>2. QED
      BY <1>6, <2>1
  <1>8. \A i \in DOMAIN s : i \in P <=> i <= Cardinality(P)
    BY <1>1, <1>6
  <1>9. QED
    BY <1>2, <1>5, <1>6, <1>7, <1>8 DEF N

(* The candidates in order and how many of them are healthy. *)
LEMMA RankedHealth ==
    ASSUME Typed, NEW route \in Routes
    PROVE  LET s == Ranked(route)
           IN  /\ s \in Seq(CandidateOf(route.model))
               /\ \A i \in DOMAIN s : s[i] \in CandidateOf(route.model) /\ s[i].penalty \in Int
               /\ HealthyLen(s) \in 0..Len(s)
               /\ \A i \in DOMAIN s : i <= HealthyLen(s) <=> s[i].penalty = s[1].penalty
               /\ s # <<>> => HealthyLen(s) > 0
  <1> DEFINE s == Ranked(route)
             X == CandidateOf(route.model)
  <1>1. s \in Seq(X) /\ Ascending(s)
    BY RankedTakes
  <1> HIDE DEF s
  <1>2. \A i \in DOMAIN s : s[i] \in X
    <2> HIDE DEF X
    <2>1. QED
      BY <1>1
  <1>3. \A i \in DOMAIN s : s[i].penalty \in Int
    BY <1>2 DEF CandidateOf
  <1> HIDE DEF X
  <1>4. QED
    BY <1>1, <1>2, <1>3, HealthyPrefix DEF s, X

(* Whatever the strategy, the counter and the agent, all the candidates    *)
(* are offered, each once.                                                 *)
LEMMA OrderTakes ==
    ASSUME Typed, NEW route \in Routes, NEW n \in Nat, NEW agent
    PROVE  /\ Order(Ranked(route), n, agent) \in Seq(CandidateOf(route.model))
           /\ \E at : Takes(Order(Ranked(route), n, agent), Candidates(route), DOMAIN Candidates(route), at)
  <1> DEFINE X == CandidateOf(route.model)
             s == Candidates(route)
             r == Ranked(route)
             u == IF Rotating THEN TurnHealthy(r, n) ELSE r
             o == Order(r, n, agent)
  <1>1. r \in Seq(X) /\ \E at : Takes(r, s, DOMAIN s, at)
    BY RankedTakes
  <1>2. HealthyLen(r) \in 0..Len(r)
    BY RankedHealth
  <1> HIDE DEF r, s, X
  <1>3. u \in Seq(X) /\ \E at : Takes(u, s, DOMAIN s, at)
    <2>1. CASE Rotating
      <3>1. u = Turn(SubSeq(r, 1, HealthyLen(r)), n) \o SubSeq(r, HealthyLen(r) + 1, Len(r))
        BY <2>1 DEF TurnHealthy
      <3> HIDE DEF u
      <3>2. u \in Seq(X) /\ \E at : Takes(u, r, DOMAIN r, at)
        BY <1>1, <1>2, <3>1, TurnTakes
      <3>3. QED
        BY <1>1, <3>2, TakesTwice
    <2>2. CASE ~Rotating
      BY <1>1, <2>2
    <2>3. QED
      BY <2>1, <2>2
  <1>4. o = ForAgent(u, agent)
    BY DEF Order
  <1> HIDE DEF u, o
  <1>5. o \in Seq(X) /\ \E at : Takes(o, s, DOMAIN s, at)
    <2>1. CASE agent \in Agent
      <3>1. AgentHash[agent] \in Nat
        BY <2>1, NamesAssumption DEF Agent
      <3>2. o = Turn(u, AgentHash[agent])
        BY <1>4, <2>1 DEF ForAgent
      <3>3. o \in Seq(X) /\ \E at : Takes(o, u, DOMAIN u, at)
        BY <1>3, <3>1, <3>2, TurnTakesAll
      <3>4. QED
        BY <1>3, <3>3, TakesTwice
    <2>2. CASE agent \notin Agent
      BY <1>3, <1>4, <2>2 DEF ForAgent
    <2>3. QED
      BY <2>1, <2>2
  <1>6. QED
    BY <1>5 DEF o, r, s, X

(* What takes each place once tells apart what the list tells apart. *)
LEMMA TakesApart ==
    ASSUME NEW f, NEW s, NEW t, NEW at, Takes(t, s, DOMAIN s, at), ApartBy(f, s)
    PROVE  ApartBy(f, t)
  BY DEF Takes, ApartBy

(* In a typed state no deployment is offered twice, and none is lost. *)
LEMMA TypedOnce == Typed => NoDeploymentTwice
  <1> SUFFICES ASSUME Typed, NEW route \in Routes
               PROVE  LET o == Order(Ranked(route), counter.router, Nobody)
                          all == ToSet(Candidates(route))
                      IN  /\ \A agent \in Agent \cup {Nobody} :
                                ToSet(Order(Ranked(route), counter.router, agent)) = all
                          /\ \A j \in DOMAIN o : \A i \in 1..(j - 1) :
                                <<o[i].provider, o[i].key, o[i].model>> # <<o[j].provider, o[j].key, o[j].model>>
    BY DEF NoDeploymentTwice, EachOnce, NoneLost, NoneTwice
  <1> DEFINE X == CandidateOf(route.model)
             s == Candidates(route)
             n == counter.router
             f == DeploymentOf(route.model)
             o == Order(Ranked(route), n, Nobody)
  <1>1. n \in Nat
    BY DEF Typed
  <1> HIDE DEF n
  <1>2. ASSUME NEW agent \in Agent \cup {Nobody}
        PROVE  ToSet(Order(Ranked(route), n, agent)) = ToSet(s)
    <2> DEFINE t == Order(Ranked(route), n, agent)
    <2>1. PICK at : Takes(t, s, DOMAIN s, at)
      BY <1>1, OrderTakes
    <2> HIDE DEF t, s
    <2>2. ToSet(t) = {s[p] : p \in DOMAIN s}
      BY <2>1, TakesSome
    <2>3. QED
      BY <2>2 DEF ToSet, t
  <1>3. o \in Seq(X) /\ \E at : Takes(o, s, DOMAIN s, at)
    BY <1>1, OrderTakes
  <1>4. ApartBy(f, s)
    BY CandidatesApart
  <1> HIDE DEF X, f, o
  <1>5. ApartBy(f, o)
    <2> HIDE DEF s
    <2>1. QED
      BY <1>3, <1>4, TakesApart
  <1>6. ASSUME NEW j \in DOMAIN o, NEW i \in 1..(j - 1)
        PROVE  <<o[i].provider, o[i].key, o[i].model>> # <<o[j].provider, o[j].key, o[j].model>>
    <2>1. i \in DOMAIN o /\ i # j
      BY <1>3
    <2>2. o[i] \in X /\ o[j] \in X
      BY <1>3, <2>1
    <2>3. f[o[i]] = <<o[i].provider, o[i].key, o[i].model>> /\ f[o[j]] = <<o[j].provider, o[j].key, o[j].model>>
      BY <2>2 DEF f, X, DeploymentOf
    <2>4. f[o[i]] # f[o[j]]
      BY <1>5, <2>1 DEF ApartBy
    <2>5. QED
      BY <2>3, <2>4
  <1>7. QED
    BY <1>2, <1>6 DEF o, n, s

(* For any pools, names, aliases and fallbacks, whatever the results so    *)
(* far: no request is offered the same key with the same model twice, and  *)
(* neither the sorting nor a rotation loses a candidate                    *)
(* (candidate_models_for_provider, order_candidates).                      *)
THEOREM NoneOfferedTwice == Spec => []NoDeploymentTwice
  <1>1. Spec => []Typed
    BY TypedAlways
  <1>2. Typed => NoDeploymentTwice
    BY TypedOnce
  <1>3. QED
    BY <1>1, <1>2, PTL

(* Without an agent the order is the ranking, its healthy part shifted. *)
LEMMA OrderShifts ==
    ASSUME Typed, NEW route \in Routes, NEW n \in Nat
    PROVE  \E r \in Nat : /\ r < HealthyLen(Ranked(route)) \/ r = 0
                          /\ strategy = "round_robin" => r = By(HealthyLen(Ranked(route)), n)
                          /\ Shifted(Order(Ranked(route), n, Nobody), Ranked(route), HealthyLen(Ranked(route)), r)
  <1> DEFINE X == CandidateOf(route.model)
             s == Ranked(route)
             h == HealthyLen(s)
             o == Order(s, n, Nobody)
  <1>1. s \in Seq(X) /\ h \in 0..Len(s)
    BY RankedHealth
  <1>2. o = IF Rotating THEN TurnHealthy(s, n) ELSE s
    BY NamesAssumption DEF Order, ForAgent, Agent
  <1> HIDE DEF s, X, o
  <1>3. CASE Rotating
    <2>1. o = Turn(SubSeq(s, 1, h), n) \o SubSeq(s, h + 1, Len(s))
      BY <1>2, <1>3 DEF TurnHealthy
    <2> HIDE DEF h
    <2>2. Shifted(o, s, h, By(h, n))
      BY <1>1, <2>1, TurnShifts
    <2>3. By(h, n) \in Nat /\ (By(h, n) < h \/ By(h, n) = 0)
      <3>1. h \in Nat
        BY <1>1
      <3>2. QED
        BY <3>1, ByLess
    <2>4. QED
      BY <2>2, <2>3 DEF h, s, o
  <1>4. CASE ~Rotating
    <2>1. o = s /\ strategy # "round_robin"
      BY <1>2, <1>4 DEF Rotating
    <2>2. Shifted(o, s, h, 0)
      <3> HIDE DEF h
      <3>1. Len(s) \in Nat /\ h \in Nat
        BY <1>1
      <3>2. \A i \in 1..Len(s) : Shift(i, h, 0) = i
        BY <3>1 DEF Shift
      <3>3. QED
        BY <2>1, <3>2 DEF Shifted
    <2>3. QED
      BY <2>1, <2>2 DEF h, s, o
  <1>5. QED
    BY <1>3, <1>4

(* In a typed state the penalties of the offered ones ascend. *)
LEMMA HealthyAscend ==
    ASSUME Typed, NEW route \in Routes, NEW n \in Nat
    PROVE  PenaltiesAscend(Order(Ranked(route), n, Nobody))
  <1> DEFINE s == Ranked(route)
             h == HealthyLen(s)
             o == Order(s, n, Nobody)
             N == Len(s)
  <1>1. /\ s \in Seq(CandidateOf(route.model))
        /\ \A i \in DOMAIN s : s[i].penalty \in Int
        /\ h \in 0..Len(s)
        /\ \A i \in DOMAIN s : i <= h <=> s[i].penalty = s[1].penalty
    BY RankedHealth
  <1>2. Ascending(s)
    BY RankedTakes
  <1>3. PICK r \in Nat : (r < h \/ r = 0) /\ Shifted(o, s, h, r)
    BY OrderShifts
  <1>4. N \in Nat /\ DOMAIN s = 1..N
    BY <1>1
  <1> HIDE DEF o, h, s
  <1>5. Len(o) = N /\ \A i \in 1..N : o[i] = s[Shift(i, h, r)]
    BY <1>3 DEF Shifted
  <1> HIDE DEF N
  <1>6. ASSUME NEW i \in 1..(Len(o) - 1) PROVE o[i].penalty <= o[i + 1].penalty
    <2>1. i \in 1..N /\ i + 1 \in 1..N /\ h \in Nat /\ h <= N
      BY <1>1, <1>4, <1>5 DEF N
    <2>2. o[i] = s[Shift(i, h, r)] /\ o[i + 1] = s[Shift(i + 1, h, r)]
      BY <1>5, <2>1
    <2>3. \A j \in 1..N : j <= h => Shift(j, h, r) \in 1..h
      BY <1>3, <2>1 DEF Shift
    <2>4. \A j \in 1..N : j > h => Shift(j, h, r) = j
      BY <2>1 DEF Shift
    <2>5. CASE i + 1 <= h
      <3>1. Shift(i, h, r) \in 1..h /\ Shift(i + 1, h, r) \in 1..h
        BY <2>1, <2>3, <2>5
      <3>2. \A j \in 1..h : j \in DOMAIN s /\ s[j].penalty = s[1].penalty /\ s[j].penalty \in Int
        <4>1. \A j \in 1..h : j \in DOMAIN s /\ j <= h
          BY <1>4, <2>1
        <4>2. QED
          BY <1>1, <4>1
      <3>3. QED
        BY <2>2, <3>1, <3>2
    <2>6. CASE ~ (i + 1 <= h)
      <3>1. Shift(i + 1, h, r) = i + 1
        BY <2>1, <2>4, <2>6
      <3>2. Shift(i, h, r) \in 1..N /\ Shift(i, h, r) < i + 1
        <4>1. CASE i <= h
          <5>1. Shift(i, h, r) \in 1..h
            BY <2>1, <2>3, <4>1
          <5>2. i = h
            BY <2>1, <2>6, <4>1
          <5>3. QED
            BY <1>4, <2>1, <5>1, <5>2
        <4>2. CASE ~ (i <= h)
          BY <2>1, <2>4, <4>2
        <4>3. QED
          BY <4>1, <4>2
      <3>3. QED
        BY <1>2, <1>4, <2>1, <2>2, <3>1, <3>2 DEF Ascending
    <2>7. QED
      BY <2>5, <2>6
  <1>7. QED
    BY <1>6 DEF PenaltiesAscend, o, s

(* A list whose penalties ascend, turned as a whole, falls back at one     *)
(* place, where the turned list begins again.                              *)
LEMMA TurnFallsOnce ==
    ASSUME NEW X, NEW u \in Seq(X), \A i \in DOMAIN u : u[i].penalty \in Int, PenaltiesAscend(u),
           NEW n \in Nat
    PROVE  FallsOnce(Turn(u, n))
  <1> DEFINE o == Turn(u, n)
             N == Len(u)
             r == By(N, n)
             Next1(i) == IF i = N THEN 1 ELSE i + 1
  <1>1. N \in Nat /\ DOMAIN u = 1..N
    OBVIOUS
  <1>2. r \in Nat /\ (r < N \/ r = 0)
    BY <1>1, ByLess
  <1>3. DOMAIN o = 1..N /\ Len(o) = N /\ \A i \in 1..N : o[i] = u[Shift(i, N, r)]
    <2>1. o \in Seq(X)
      BY TurnTakesAll
    <2>2. SubSeq(u, 1, N) = u /\ SubSeq(u, N + 1, Len(u)) = <<>> /\ N \in 0..Len(u)
      OBVIOUS
    <2>3. \A v \in Seq(X) : v \o <<>> = v /\ DOMAIN v = 1..Len(v)
      OBVIOUS
    <2> HIDE DEF N, r
    <2>4. o = Turn(SubSeq(u, 1, N), n) \o SubSeq(u, N + 1, Len(u))
      BY <2>1, <2>2, <2>3
    <2> HIDE DEF o
    <2>5. Shifted(o, u, N, By(N, n))
      BY <2>2, <2>4, TurnShifts
    <2>6. Len(o) = N /\ \A i \in 1..N : o[i] = u[Shift(i, N, r)]
      BY <2>5 DEF Shifted, N, r
    <2>7. DOMAIN o = 1..Len(o)
      BY <2>1, <2>3
    <2>8. QED
      BY <2>6, <2>7
  <1>4. \A i \in 1..(N - 1) : u[i].penalty <= u[i + 1].penalty
    BY DEF PenaltiesAscend
  <1> HIDE DEF o, N, r
  <1>5. \A i \in 1..N : Shift(i, N, r) \in 1..N
    BY <1>1, <1>2 DEF Shift
  <1>6. \A i, j \in 1..N : Shift(i, N, r) = N /\ Shift(j, N, r) = N => i = j
    BY <1>1, <1>2 DEF Shift
  <1>7. \A i \in 1..N : Shift(i, N, r) # N => Shift(Next1(i), N, r) = Shift(i, N, r) + 1
    BY <1>1, <1>2 DEF Shift
  <1>8. ASSUME NEW i \in 1..N, FallsAt(o, i) PROVE Shift(i, N, r) = N
    <2>1. Next1(i) \in 1..N
      BY <1>1
    <2>2. FallsAt(o, i) <=> o[i].penalty > o[Next1(i)].penalty
      BY <1>3 DEF FallsAt
    <2> HIDE DEF Next1
    <2>3. SUFFICES ASSUME Shift(i, N, r) # N PROVE FALSE
      OBVIOUS
    <2> DEFINE a == Shift(i, N, r)
    <2>4. a \in 1..(N - 1) /\ Shift(Next1(i), N, r) = a + 1
      BY <1>1, <1>5, <1>7, <2>3
    <2>5. o[i] = u[a] /\ o[Next1(i)] = u[a + 1]
      BY <1>3, <2>1, <2>4
    <2> HIDE DEF a
    <2>6. u[a].penalty \in Int /\ u[a + 1].penalty \in Int /\ u[a].penalty <= u[a + 1].penalty
      <3>1. a \in DOMAIN u /\ a + 1 \in DOMAIN u
        BY <1>1, <2>4
      <3>2. QED
        BY <1>4, <2>4, <3>1
    <2>7. QED
      BY <1>8, <2>2, <2>5, <2>6
  <1>9. QED
    BY <1>3, <1>6, <1>8 DEF FallsOnce, o

(* In a typed state the list is in order for every agent. *)
LEMMA TypedBehind == Typed => DegradedStayBehind
  <1> SUFFICES ASSUME Typed, NEW route \in Routes PROVE InOrder(Ranked(route))
    BY DEF DegradedStayBehind
  <1> DEFINE s == Ranked(route)
             n == counter.router
             u == Order(s, n, Nobody)
             X == CandidateOf(route.model)
  <1>1. n \in Nat
    BY DEF Typed
  <1> HIDE DEF n
  <1>2. PenaltiesAscend(u)
    BY <1>1, HealthyAscend
  <1>3. u \in Seq(X)
    BY <1>1, OrderTakes
  <1>4. \A i \in DOMAIN u : u[i].penalty \in Int
    <2>1. \A c \in X : c.penalty \in Int
      BY DEF CandidateOf
    <2> HIDE DEF X, u
    <2>2. \A i \in DOMAIN u : u[i] \in X
      BY <1>3
    <2>3. QED
      BY <2>1, <2>2
  <1>5. ASSUME NEW agent \in Agent PROVE FallsOnce(Order(s, n, agent))
    <2>1. AgentHash[agent] \in Nat
      BY NamesAssumption DEF Agent
    <2>2. Nobody \notin Agent
      BY NamesAssumption DEF Agent
    <2>3. Order(s, n, agent) = Turn(u, AgentHash[agent])
      BY <2>2 DEF Order, ForAgent
    <2> HIDE DEF u, X
    <2>4. QED
      BY <1>2, <1>3, <1>4, <2>1, <2>3, TurnFallsOnce
  <1>6. QED
    BY <1>2, <1>5 DEF InOrder, n

(* For any pools, names and results so far: under no strategy is a         *)
(* deployment that is doing worse offered before one that is doing better  *)
(* to a request without an agent; the rotations stop at the degraded ones  *)
(* (order_candidates, lowest_penalty_prefix_len).  A named agent, whose    *)
(* hash turns the whole list, is offered the same circle from another      *)
(* start: the records get worse all the way round, but for one place.      *)
THEOREM TheDegradedAreLast == Spec => []DegradedStayBehind
  <1>1. Spec => []Typed
    BY TypedAlways
  <1>2. Typed => DegradedStayBehind
    BY TypedBehind
  <1>3. QED
    BY <1>1, <1>2, PTL

(* A counter value puts the healthy candidate at its remainder first. *)
LEMMA FirstOfTurn ==
    ASSUME Typed, NEW route \in Routes, NEW n \in Nat, strategy = "round_robin",
           HealthyLen(Ranked(route)) > 0
    PROVE  LET h == HealthyLen(Ranked(route))
           IN  /\ By(h, n) + 1 \in 1..h
               /\ Head(Order(Ranked(route), n, Nobody)) = Ranked(route)[By(h, n) + 1]
  <1> DEFINE s == Ranked(route)
             h == HealthyLen(s)
             o == Order(s, n, Nobody)
             b == By(h, n)
  <1>1. h \in 0..Len(s) /\ s \in Seq(CandidateOf(route.model)) /\ h > 0
    BY RankedHealth
  <1>2. o \in Seq(CandidateOf(route.model))
    BY OrderTakes
  <1>3. (b < h \/ b = 0) /\ Shifted(o, s, h, b)
    BY OrderShifts
  <1> HIDE DEF s, h, o
  <1>4. h \in Nat /\ Len(s) \in Nat /\ h <= Len(s)
    BY <1>1
  <1>5. b \in Nat
    BY <1>4, ByLess
  <1> HIDE DEF b
  <1>6. Shift(1, h, b) = b + 1 /\ b + 1 \in 1..h
    BY <1>1, <1>3, <1>4, <1>5 DEF Shift
  <1>7. Len(o) = Len(s) /\ o[1] = s[b + 1]
    BY <1>1, <1>3, <1>4, <1>6 DEF Shifted
  <1>8. Head(o) = o[1]
    BY <1>1, <1>2, <1>4, <1>7
  <1>9. QED
    BY <1>6, <1>7, <1>8 DEF s, h, o, b

(* From one value of the counter to the next the turn passes on. *)
LEMMA NextTurn ==
    ASSUME Typed, NEW route \in Routes, NEW n \in Nat, strategy = "round_robin"
    PROVE  PassedOn(Ranked(route), n, n + 1)
  <1> DEFINE s == Ranked(route)
             h == HealthyLen(s)
             i == By(h, n) + 1
  <1> SUFFICES ASSUME s # <<>> PROVE PassedOn(s, n, n + 1)
    BY DEF PassedOn
  <1>1. h \in 0..Len(s) /\ h > 0 /\ s \in Seq(CandidateOf(route.model))
    BY RankedHealth
  <1>2. i \in 1..h /\ Head(Order(s, n, Nobody)) = s[i]
    BY <1>1, FirstOfTurn
  <1>3. Head(Order(s, n + 1, Nobody)) = s[By(h, n + 1) + 1]
    BY <1>1, FirstOfTurn
  <1> HIDE DEF s, h
  <1>4. h \in Nat \ {0} /\ i \in DOMAIN s
    BY <1>1, <1>2
  <1>5. By(h, n + 1) = i % h
    <2>1. CASE h > 1
      BY <1>4, <2>1, NextRemainder DEF By
    <2>2. CASE h = 1
      BY <1>2, <2>2 DEF By
    <2>3. QED
      BY <1>4, <2>1, <2>2
  <1> HIDE DEF i
  <1>6. Head(Order(s, n + 1, Nobody)) = s[(i % h) + 1]
    BY <1>3, <1>5
  <1>7. QED
    BY <1>2, <1>4, <1>6 DEF PassedOn, s, h

(* What TurnsMoveOn says of a step. *)
TurnsPass ==
    counter'.router # counter.router =>
        \A route \in Routes : PassedOn(Ranked(route), counter.router, counter'.router)

(* Only a chat that rotates moves the counter. *)
LEMMA TypedTurns ==
    ASSUME Typed, [Next]_vars
    PROVE  TurnsPass
  <1>1. counter \in [router : Nat, hub : Nat]
    BY DEF Typed
  <1>2. SUFFICES ASSUME counter'.router # counter.router
                 PROVE  strategy = "round_robin" /\ counter'.router = counter.router + 1
    BY <1>1, NextTurn DEF TurnsPass
  <1>3. ASSUME NEW route, ChatAsk(route)
        PROVE  strategy = "round_robin" /\ counter'.router = counter.router + 1
    <2>1. PICK turning : /\ turning => strategy = "round_robin"
                         /\ counter' = [counter EXCEPT !.router = IF turning THEN @ + 1 ELSE @]
      BY <1>3 DEF ChatAsk
    <2>2. CASE turning
      BY <1>1, <2>1, <2>2
    <2>3. CASE ~turning
      BY <1>1, <1>2, <2>1, <2>3
    <2>4. QED
      BY <2>2, <2>3
  <1>4. ASSUME NextProvider PROVE FALSE
    <2>1. PICK turning : counter' = [counter EXCEPT !.hub = IF turning THEN @ + 1 ELSE @]
      BY <1>4 DEF NextProvider
    <2>2. counter'.router = counter.router
      BY <1>1, <2>1
    <2>3. QED
      BY <1>2, <2>2
  <1>5. counter' # counter
    BY <1>2
  <1>6. ASSUME NEW result, ChatHear(result) \/ ForwardHear(result) \/ HearPicked(result) PROVE FALSE
    BY <1>5, <1>6 DEF ChatHear, ForwardHear, HearPicked
  <1>7. ASSUME NEW route, NEW agent, StartForward(route, agent) PROVE FALSE
    BY <1>5, <1>7 DEF StartForward
  <1>8. ASSUME ForwardAsk \/ ForwardFails \/ AskPicked PROVE FALSE
    BY <1>5, <1>8 DEF ForwardAsk, ForwardFails, AskPicked
  <1>9. ASSUME NEW k, Relist(k) \/ Recover(k) PROVE FALSE
    BY <1>5, <1>9 DEF Relist, Recover
  <1>10. ASSUME NEW d, Thaw(d) PROVE FALSE
    BY <1>5, <1>10 DEF Thaw
  <1>11. ASSUME NEW p, Gate(p) PROVE FALSE
    BY <1>5, <1>11 DEF Gate
  <1>12. ASSUME NEW p, NEW n, Toggle(p, n) PROVE FALSE
    BY <1>5, <1>12 DEF Toggle
  <1>13. ASSUME NEW scope, NEW ask, Pick(scope, ask) PROVE FALSE
    BY <1>5, <1>13 DEF Pick
  <1>14. CASE UNCHANGED vars
    BY <1>5, <1>14 DEF vars
  <1>15. QED
    BY <1>3, <1>4, <1>6, <1>7, <1>8, <1>9, <1>10, <1>11, <1>12, <1>13, <1>14
       DEF Next, RoutingNext, AdaptiveNext

(* For any pools and results so far: under round_robin every chat that     *)
(* rotates passes the turn of each name on to the next of its deployments  *)
(* with the best record, from the last of them to the first, whatever the  *)
(* value of the shared counter (ROUTER_CANDIDATE_COUNTER).                 *)
THEOREM EachHasItsTurn == Spec => TurnsMoveOn
  <1>1. Spec => []Typed
    BY TypedAlways
  <1>2. Typed /\ [Next]_vars => [TurnsPass]_vars
    BY TypedTurns
  <1>3. [][TurnsPass]_vars <=> TurnsMoveOn
    BY DEF TurnsPass, TurnsMoveOn
  <1>4. QED
    BY <1>1, <1>2, <1>3, PTL DEF Spec

-----------------------------------------------------------------------------
(* The keys other requests are sent to *)

(* What has all of a list has its elements, each once if the list does. *)
LEMMA TakenOnce ==
    ASSUME NEW s, NEW t, NEW at, Takes(t, s, DOMAIN s, at)
    PROVE  ToSet(t) = ToSet(s) /\ (IsInjective(s) => IsInjective(t))
  <1>1. ToSet(t) = {s[p] : p \in DOMAIN s}
    BY TakesSome
  <1>2. IsInjective(s) => IsInjective(t)
    BY DEF Takes, IsInjective
  <1>3. QED
    BY <1>1, <1>2 DEF ToSet

(* The counts a key is sorted by are numbers. *)
LEMMA UsageTyped ==
    ASSUME Typed, NEW k \in Key
    PROVE  /\ Usage(k) \in Seq(Int) /\ Len(Usage(k)) = 4
           /\ LET l == <<keys[k].fails, keys[k].errors>> \o Usage(k)
              IN  l \in Seq(Int) /\ Len(l) = 6
  <1> DEFINE w == IF keys[k].status = "probing" THEN 1000 ELSE 0
             a == keys[k].sent
             b == keys[k].fails
             c == keys[k].errors
             u == <<w, a, b, c>>
             v == <<b, c>>
  <1>1. w \in Int /\ a \in Int /\ b \in Int /\ c \in Int
    <2>1. keys[k] \in KeyView
      BY DEF Typed
    <2>2. QED
      BY <2>1 DEF KeyView
  <1>2. Usage(k) = u
    BY DEF Usage
  <1> HIDE DEF w, a, b, c
  <1>3. u \in Seq(Int) /\ Len(u) = 4 /\ v \in Seq(Int) /\ Len(v) = 2
    BY <1>1
  <1> HIDE DEF u, v
  <1>4. v \o u \in Seq(Int) /\ Len(v \o u) = 6
    <2>1. \A x, y \in Seq(Int) : x \o y \in Seq(Int) /\ Len(x \o y) = Len(x) + Len(y)
      OBVIOUS
    <2>2. v \o u \in Seq(Int) /\ Len(v \o u) = Len(v) + Len(u)
      BY <1>3, <2>1
    <2>3. QED
      BY <1>3, <2>2
  <1>5. <<keys[k].fails, keys[k].errors>> \o Usage(k) = v \o u
    BY <1>2 DEF v, b, c
  <1>6. QED
    BY <1>2, <1>3, <1>4, <1>5

(* The keys a provider is asked with are keys of its pool, each once. *)
LEMMA ForwardKeysOnce ==
    ASSUME Typed, NEW p \in Provider, NEW n, NEW turn \in Nat, NEW agent
    PROVE  /\ ForwardKeys(p, n, turn, agent) \in Seq(Key) /\ IsInjective(ForwardKeys(p, n, turn, agent))
           /\ ToSet(ForwardKeys(p, n, turn, agent)) \subseteq ToSet(Pool[p])
  <1> DEFINE s == FreeKeys(p, n)
             k1 == [i \in DOMAIN s |-> Usage(s[i])]
             K1 == {k1[i] \o <<i>> : i \in DOMAIN s}
             at1 == [l \in 1..Cardinality(K1) |-> CHOOSE x \in K1 : Cardinality({y \in K1 : Before(y, x)}) = l - 1]
             t1 == [l \in DOMAIN s |-> s[Last(at1[l])]]
             k2 == [i \in DOMAIN s |-> <<keys[s[i]].fails, keys[s[i]].errors>> \o Usage(s[i])]
             K2 == {k2[i] \o <<i>> : i \in DOMAIN s}
             at2 == [l \in 1..Cardinality(K2) |-> CHOOSE x \in K2 : Cardinality({y \in K2 : Before(y, x)}) = l - 1]
             t2 == [l \in DOMAIN s |-> s[Last(at2[l])]]
             t3 == Turn(s, turn)
             u == CASE strategy = "least_rate"   -> t1
                    [] strategy = "least_failed" -> t2
                    [] Rotating                  -> t3
                    [] OTHER                     -> s
             o == ForwardKeys(p, n, turn, agent)
  <1>1. s \in Seq(Key) /\ IsInjective(s) /\ ToSet(s) \subseteq ToSet(Pool[p])
    BY FreeKeysOnce
  <1>2. o = ForAgent(u, agent)
    <2>1. K1 = {Usage(s[i]) \o <<i>> : i \in DOMAIN s}
      OBVIOUS
    <2>2. K2 = {(<<keys[s[i]].fails, keys[s[i]].errors>> \o Usage(s[i])) \o <<i>> : i \in DOMAIN s}
      OBVIOUS
    <2>3. Sorted(K1, Before) = at1 /\ Sorted(K2, Before) = at2
      BY DEF Sorted
    <2>4. o = ForAgent(CASE strategy = "least_rate" ->
                                [l \in DOMAIN s |-> s[Last(Sorted({Usage(s[i]) \o <<i>> : i \in DOMAIN s}, Before)[l])]]
                         [] strategy = "least_failed" ->
                                [l \in DOMAIN s |-> s[Last(Sorted({(<<keys[s[i]].fails, keys[s[i]].errors>> \o Usage(s[i])) \o <<i>> : i \in DOMAIN s}, Before)[l])]]
                         [] Rotating -> Turn(s, turn)
                         [] OTHER -> s, agent)
      BY DEF ForwardKeys, StableSort
    <2> HIDE DEF K1, K2, at1, at2, s, o
    <2>5. QED
      BY <2>1, <2>2, <2>3, <2>4
  <1>3. \A i \in DOMAIN s : s[i] \in Key
    BY <1>1
  <1> HIDE DEF s, o
  <1>4. t1 \in Seq(Key) /\ \E at : Takes(t1, s, DOMAIN s, at)
    <2>1. \A i \in DOMAIN s : k1[i] \in Seq(Int) /\ Len(k1[i]) = 4
      BY <1>3, UsageTyped
    <2>2. SortedBy(s, k1, K1, at1, t1)
      BY DEF SortedBy
    <2> HIDE DEF k1, K1, at1, t1
    <2>3. t1 \in Seq(Key) /\ \E place : Takes(t1, s, DOMAIN s, place) /\ KeysAscend(k1, place, t1)
      <3>1. 4 \in Nat
        OBVIOUS
      <3>2. QED
        BY <1>1, <2>1, <2>2, <3>1, KeysSort
    <2>4. QED
      BY <2>3
  <1>5. t2 \in Seq(Key) /\ \E at : Takes(t2, s, DOMAIN s, at)
    <2>1. \A i \in DOMAIN s : k2[i] \in Seq(Int) /\ Len(k2[i]) = 6
      BY <1>3, UsageTyped
    <2>2. SortedBy(s, k2, K2, at2, t2)
      BY DEF SortedBy
    <2> HIDE DEF k2, K2, at2, t2
    <2>3. t2 \in Seq(Key) /\ \E place : Takes(t2, s, DOMAIN s, place) /\ KeysAscend(k2, place, t2)
      <3>1. 6 \in Nat
        OBVIOUS
      <3>2. QED
        BY <1>1, <2>1, <2>2, <3>1, KeysSort
    <2>4. QED
      BY <2>3
  <1>6. t3 \in Seq(Key) /\ \E at : Takes(t3, s, DOMAIN s, at)
    BY <1>1, TurnTakesAll
  <1> HIDE DEF t1, t2, t3
  <1> DEFINE Whole(t) == t \in Seq(Key) /\ IsInjective(t) /\ ToSet(t) \subseteq ToSet(Pool[p])
  <1>7. Whole(s) /\ Whole(t1) /\ Whole(t2) /\ Whole(t3)
    BY <1>1, <1>4, <1>5, <1>6, TakenOnce
  <1>8. Whole(u)
    <2> HIDE DEF Whole
    <2>1. CASE strategy = "least_rate"
      BY <1>7, <2>1
    <2>2. CASE strategy = "least_failed"
      BY <1>7, <2>2
    <2>3. CASE Rotating
      BY <1>7, <2>3 DEF Rotating
    <2>4. CASE strategy \notin {"least_rate", "least_failed"} /\ ~Rotating
      BY <1>7, <2>4
    <2>5. QED
      BY <2>1, <2>2, <2>3, <2>4
  <1> HIDE DEF u
  <1>9. Whole(o)
    <2>1. CASE agent \in Agent
      <3>1. AgentHash[agent] \in Nat
        BY <2>1, NamesAssumption DEF Agent
      <3>2. o = Turn(u, AgentHash[agent])
        BY <1>2, <2>1 DEF ForAgent
      <3>3. o \in Seq(Key) /\ \E at : Takes(o, u, DOMAIN u, at)
        BY <1>8, <3>1, <3>2, TurnTakesAll
      <3>4. QED
        BY <1>8, <3>3, TakenOnce
    <2>2. CASE agent \notin Agent
      BY <1>2, <1>8, <2>2 DEF ForAgent
    <2>3. QED
      BY <2>1, <2>2
  <1>10. QED
    BY <1>9 DEF o

(* A key that is lent is one of the pool. *)
LEMMA LentOnce ==
    ASSUME NEW p \in Provider
    PROVE  /\ AnyFreeKey(p) \in Seq(Key) /\ IsInjective(AnyFreeKey(p))
           /\ ToSet(AnyFreeKey(p)) \subseteq ToSet(Pool[p])
  <1>1. Pool[p] \in Seq(Key)
    BY RoutingAssumption
  <1>2. CASE p \in gated
    BY <1>2 DEF AnyFreeKey, IsInjective, ToSet
  <1>3. CASE p \notin gated
    <2> DEFINE I == {i \in DOMAIN Pool[p] : IsFree(Pool[p][i]) /\ keys[Pool[p][i]].status = "available"}
               s == Keep(Pool[p], I)
               a == AnyFreeKey(p)
    <2>1. a = SubSeq(s, 1, IF s = <<>> THEN 0 ELSE 1)
      BY <1>3 DEF AnyFreeKey, FirstOf, Where
    <2> HIDE DEF I
    <2>2. s \in Seq(Key) /\ ToSet(s) = {Pool[p][i] : i \in I \cap DOMAIN Pool[p]}
      BY <1>1, KeptOf
    <2> HIDE DEF s, a
    <2>3. a \in Seq(Key) /\ Len(a) <= 1 /\ \A i \in 1..Len(a) : i \in DOMAIN s /\ a[i] = s[i]
      BY <2>1, <2>2
    <2>4. DOMAIN a = 1..Len(a) /\ Len(a) \in Nat
      BY <2>3
    <2>5. IsInjective(a)
      BY <2>3, <2>4 DEF IsInjective
    <2>6. ToSet(a) \subseteq ToSet(s)
      BY <2>3, <2>4 DEF ToSet
    <2>7. ToSet(s) \subseteq ToSet(Pool[p])
      BY <2>2 DEF ToSet
    <2>8. QED
      BY <2>3, <2>5, <2>6, <2>7 DEF a
  <1>4. QED
    BY <1>2, <1>3

(* A list is its head and its tail. *)
LEMMA HeadAndTail ==
    ASSUME NEW X, NEW s \in Seq(X), s # <<>>
    PROVE  /\ Head(s) \in X /\ Head(s) \in ToSet(s)
           /\ Tail(s) \in Seq(X) /\ ToSet(Tail(s)) \subseteq ToSet(s)
           /\ IsInjective(s) => IsInjective(Tail(s)) /\ Head(s) \notin ToSet(Tail(s))
  <1> DEFINE t == Tail(s)
             n == Len(s)
  <1>1. n \in Nat /\ n > 0 /\ DOMAIN s = 1..n /\ Head(s) = s[1] /\ s[1] \in X
    OBVIOUS
  <1>2. t \in Seq(X) /\ DOMAIN t = 1..(n - 1) /\ \A i \in 1..(n - 1) : t[i] = s[i + 1]
    OBVIOUS
  <1> HIDE DEF t, n
  <1>3. \A i \in DOMAIN t : i + 1 \in DOMAIN s /\ i + 1 # 1 /\ t[i] = s[i + 1]
    BY <1>1, <1>2
  <1>4. 1 \in DOMAIN s
    BY <1>1
  <1>5. Head(s) \in ToSet(s) /\ ToSet(t) \subseteq ToSet(s)
    BY <1>1, <1>3, <1>4 DEF ToSet
  <1>6. ASSUME IsInjective(s) PROVE IsInjective(t) /\ Head(s) \notin ToSet(t)
    <2>1. ASSUME NEW i \in DOMAIN t, NEW j \in DOMAIN t, t[i] = t[j] PROVE i = j
      <3>1. i + 1 = j + 1
        BY <1>3, <1>6, <2>1 DEF IsInjective
      <3>2. QED
        BY <1>1, <1>2, <3>1
    <2>2. \A i \in DOMAIN t : t[i] # s[1]
      BY <1>3, <1>4, <1>6 DEF IsInjective
    <2>3. QED
      BY <1>1, <2>1, <2>2 DEF IsInjective, ToSet
  <1>7. QED
    BY <1>1, <1>2, <1>5, <1>6 DEF t

(* One more element. *)
LEMMA AppendOnce ==
    ASSUME NEW X, NEW s \in Seq(X), NEW x \in X
    PROVE  /\ ToSet(Append(s, x)) = ToSet(s) \cup {x}
           /\ IsInjective(s) /\ x \notin ToSet(s) => IsInjective(Append(s, x))
  <1> DEFINE t == Append(s, x)
             n == Len(s)
  <1>1. n \in Nat /\ DOMAIN s = 1..n /\ DOMAIN t = 1..(n + 1) /\ t[n + 1] = x /\ \A i \in 1..n : t[i] = s[i]
    OBVIOUS
  <1> HIDE DEF t, n
  <1>2. n + 1 \in DOMAIN t /\ \A i \in DOMAIN t : i = n + 1 \/ i \in DOMAIN s
    BY <1>1
  <1>3. \A i \in DOMAIN s : i \in DOMAIN t /\ t[i] = s[i]
    BY <1>1
  <1>4. ToSet(t) = ToSet(s) \cup {x}
    BY <1>1, <1>2, <1>3 DEF ToSet
  <1>5. ASSUME IsInjective(s), x \notin ToSet(s) PROVE IsInjective(t)
    <2>1. \A i \in DOMAIN s : t[i] # x
      BY <1>3, <1>5 DEF ToSet
    <2>2. \A i, j \in DOMAIN s : t[i] = t[j] => i = j
      BY <1>3, <1>5 DEF IsInjective
    <2>3. QED
      BY <1>1, <1>2, <2>1, <2>2 DEF IsInjective
  <1>6. QED
    BY <1>4, <1>5 DEF t

(* The strengthening: what was asked, what is to be asked, and the pools   *)
(* of the providers that follow have no key in common.                     *)
Fresh(asked, ks, ps) ==
    /\ IsInjective(asked) /\ IsInjective(ks) /\ IsInjective(ps)
    /\ ToSet(asked) \cap ToSet(ks) = {}
    /\ \A p \in ToSet(ps) : ToSet(Pool[p]) \cap (ToSet(asked) \cup ToSet(ks)) = {}

Forward == [
    phase : {"forwarding"}, route : Routes, agent : Agent \cup {Nobody},
    providers : Seq(Provider), keys : Seq(Key), at : Provider \cup {r.provider : r \in Routes},
    asked : Seq(Key), out : Seq(Key)]

Asking ==
    pending.phase = "forwarding" =>
        pending \in Forward /\ Fresh(pending.asked, pending.keys, pending.providers)

(* A key has one place, in one pool. *)
LEMMA PoolsApart ==
    \A p, q \in Provider : p # q => ToSet(Pool[p]) \cap ToSet(Pool[q]) = {}
  BY RoutingAssumption DEF ToSet

(* At first nothing is asked. *)
LEMMA FreshAtFirst ==
    ASSUME NEW ps, IsInjective(ps)
    PROVE  Fresh(<<>>, <<>>, ps)
  <1>1. IsInjective(<<>>) /\ ToSet(<<>>) = {}
    BY DEF IsInjective, ToSet
  <1>2. QED
    BY <1>1 DEF Fresh

(* The keys of the next provider are new. *)
LEMMA FreshProvider ==
    ASSUME NEW asked, NEW ps \in Seq(Provider), ps # <<>>, Fresh(asked, <<>>, ps),
           NEW ks, IsInjective(ks), ToSet(ks) \subseteq ToSet(Pool[Head(ps)])
    PROVE  Fresh(asked, ks, Tail(ps))
  <1> DEFINE p == Head(ps)
             t == Tail(ps)
  <1>1. /\ p \in Provider /\ p \in ToSet(ps) /\ t \in Seq(Provider)
        /\ ToSet(t) \subseteq ToSet(ps) /\ IsInjective(t) /\ p \notin ToSet(t)
    BY HeadAndTail DEF Fresh
  <1>2. ToSet(t) \subseteq Provider
    <2> HIDE DEF t
    <2>1. \A i \in DOMAIN t : t[i] \in Provider
      BY <1>1
    <2>2. QED
      BY <2>1 DEF ToSet
  <1>3. ToSet(<<>>) = {}
    BY DEF ToSet
  <1> HIDE DEF p, t
  <1>4. ToSet(Pool[p]) \cap ToSet(asked) = {} /\ IsInjective(asked)
    BY <1>1, <1>3 DEF Fresh
  <1>5. ToSet(ks) \subseteq ToSet(Pool[p])
    BY DEF p
  <1>6. ASSUME NEW q \in ToSet(t) PROVE ToSet(Pool[q]) \cap (ToSet(asked) \cup ToSet(ks)) = {}
    <2>1. ToSet(Pool[q]) \cap ToSet(asked) = {}
      BY <1>1, <1>3 DEF Fresh
    <2>2. ToSet(Pool[p]) \cap ToSet(Pool[q]) = {}
      BY <1>1, <1>2, PoolsApart
    <2>3. QED
      BY <1>5, <2>1, <2>2
  <1>7. Fresh(asked, ks, t)
    BY <1>1, <1>4, <1>5, <1>6 DEF Fresh
  <1>8. QED
    BY <1>7 DEF t

(* A key is asked, or passed over. *)
LEMMA FreshKey ==
    ASSUME NEW asked \in Seq(Key), NEW ks \in Seq(Key), ks # <<>>, NEW ps, Fresh(asked, ks, ps)
    PROVE  Fresh(asked, Tail(ks), ps) /\ Fresh(Append(asked, Head(ks)), Tail(ks), ps)
  <1> DEFINE k == Head(ks)
             t == Tail(ks)
             more == Append(asked, k)
  <1>1. /\ k \in Key /\ k \in ToSet(ks)
        /\ ToSet(t) \subseteq ToSet(ks) /\ IsInjective(t) /\ k \notin ToSet(t)
    BY HeadAndTail DEF Fresh
  <1> HIDE DEF k, t
  <1>2. ToSet(more) = ToSet(asked) \cup {k} /\ IsInjective(more)
    BY <1>1, AppendOnce DEF Fresh
  <1> HIDE DEF more
  <1>3. Fresh(asked, t, ps)
    BY <1>1 DEF Fresh
  <1>4. Fresh(more, t, ps)
    BY <1>1, <1>2 DEF Fresh
  <1>5. QED
    BY <1>3, <1>4 DEF k, t, more

(* No other request is under way at the start. *)
LEMMA AskingAtFirst == Init => Asking
  BY DEF Init, Asking, Idle

(* Each step of a forwarded request asks a key that was not asked. *)
LEMMA AskingHolds ==
    ASSUME Typed, Asking, [Next]_vars
    PROVE  Asking'
  <1>1. ASSUME NEW route \in Routes, NEW agent \in Agent \cup {Nobody}, StartForward(route, agent) PROVE Asking'
    <2> DEFINE ps == ProviderOrder[route.provider]
    <2>1. ps \in Seq(Provider) /\ IsInjective(ps)
      BY ProvidersOnce
    <2> HIDE DEF ps
    <2>2. pending' = [phase |-> "forwarding", route |-> route, agent |-> agent, providers |-> ps,
                      keys |-> <<>>, at |-> route.provider, asked |-> <<>>, out |-> <<>>]
      BY <1>1 DEF StartForward, ps
    <2>3. pending' \in Forward
      BY <2>1, <2>2 DEF Forward
    <2>4. Fresh(<<>>, <<>>, ps)
      BY <2>1, FreshAtFirst
    <2>5. QED
      BY <2>2, <2>3, <2>4 DEF Asking, Fresh
  <1>2. ASSUME NextProvider PROVE Asking'
    <2>1. /\ pending \in Forward /\ Fresh(pending.asked, <<>>, pending.providers)
          /\ pending.providers # <<>> /\ pending.providers \in Seq(Provider)
      BY <1>2 DEF NextProvider, Asking, Forward
    <2> DEFINE p == Head(pending.providers)
               n == NameFor(p, pending.route.model)
               turns == IF strategy = "random" THEN 0..MaxTurns ELSE {counter.hub}
    <2>2. PICK turn \in turns :
            pending' = [pending EXCEPT !.providers = Tail(@), !.at = p,
                          !.keys = Lent(p, ForwardKeys(p, n, turn, pending.agent))]
      BY <1>2 DEF NextProvider
    <2>3. turn \in Nat
      BY RoutingAssumption DEF Typed
    <2> DEFINE ks == Lent(p, ForwardKeys(p, n, turn, pending.agent))
               t == Tail(pending.providers)
    <2>4. p \in Provider /\ t \in Seq(Provider)
      BY <2>1, HeadAndTail
    <2>5. pending' = [pending EXCEPT !.providers = t, !.at = p, !.keys = ks]
      BY <2>2
    <2> HIDE DEF n
    <2>6. ks \in Seq(Key) /\ IsInjective(ks) /\ ToSet(ks) \subseteq ToSet(Pool[p])
      BY <2>3, <2>4, ForwardKeysOnce, LentOnce DEF Lent
    <2>7. Fresh(pending.asked, ks, t)
      BY <2>1, <2>6, FreshProvider
    <2> HIDE DEF p, ks, t
    <2>8. pending' \in Forward
      BY <2>1, <2>4, <2>5, <2>6 DEF Forward
    <2>9. pending'.asked = pending.asked /\ pending'.keys = ks /\ pending'.providers = t
      BY <2>1, <2>5 DEF Forward
    <2>10. QED
      BY <2>7, <2>8, <2>9 DEF Asking, Fresh
  <1>3. ASSUME ForwardAsk PROVE Asking'
    <2> DEFINE k == Head(pending.keys)
               t == Tail(pending.keys)
               more == Append(pending.asked, k)
               out == <<k>>
    <2>1. /\ pending \in Forward /\ Fresh(pending.asked, pending.keys, pending.providers)
          /\ pending.keys # <<>> /\ pending.keys \in Seq(Key) /\ pending.asked \in Seq(Key)
      BY <1>3 DEF ForwardAsk, Asking, Forward
    <2>2. k \in Key /\ t \in Seq(Key)
      BY <2>1, HeadAndTail
    <2>3. more \in Seq(Key) /\ out \in Seq(Key)
      BY <2>1, <2>2
    <2>4. Fresh(pending.asked, t, pending.providers) /\ Fresh(more, t, pending.providers)
      BY <2>1, FreshKey
    <2>5. \/ pending' = [pending EXCEPT !.keys = t, !.asked = more, !.out = out]
          \/ pending' = [pending EXCEPT !.keys = t]
      BY <1>3 DEF ForwardAsk
    <2> HIDE DEF k, t, more, out
    <2>6. CASE pending' = [pending EXCEPT !.keys = t, !.asked = more, !.out = out]
      <3>1. pending' \in Forward
        BY <2>1, <2>2, <2>3, <2>6 DEF Forward
      <3>2. pending'.asked = more /\ pending'.keys = t /\ pending'.providers = pending.providers
        BY <2>1, <2>6 DEF Forward
      <3>3. QED
        BY <2>4, <3>1, <3>2 DEF Asking, Fresh
    <2>7. CASE pending' = [pending EXCEPT !.keys = t]
      <3>1. pending' \in Forward
        BY <2>1, <2>2, <2>7 DEF Forward
      <3>2. pending'.asked = pending.asked /\ pending'.keys = t /\ pending'.providers = pending.providers
        BY <2>1, <2>7 DEF Forward
      <3>3. QED
        BY <2>4, <3>1, <3>2 DEF Asking, Fresh
    <2>8. QED
      BY <2>5, <2>6, <2>7
  <1>4. ASSUME NEW result \in Result, ForwardHear(result) PROVE Asking'
    <2>1. pending \in Forward /\ Fresh(pending.asked, pending.keys, pending.providers)
      BY <1>4 DEF ForwardHear, Asking
    <2> DEFINE none == <<>>
    <2>2. pending' = Idle \/ pending' = [pending EXCEPT !.out = none]
      BY <1>4 DEF ForwardHear
    <2>3. none \in Seq(Key)
      OBVIOUS
    <2> HIDE DEF none
    <2>4. CASE pending' = Idle
      BY <2>4 DEF Idle, Asking
    <2>5. CASE pending' = [pending EXCEPT !.out = none]
      <3>1. pending' \in Forward
        BY <2>1, <2>3, <2>5 DEF Forward
      <3>2. /\ pending'.asked = pending.asked /\ pending'.keys = pending.keys
            /\ pending'.providers = pending.providers
        BY <2>1, <2>5 DEF Forward
      <3>3. QED
        BY <2>1, <3>1, <3>2 DEF Asking, Fresh
    <2>6. QED
      BY <2>2, <2>4, <2>5
  <1>5. ASSUME ForwardFails PROVE Asking'
    BY <1>5 DEF ForwardFails, Asking, Idle
  <1>6. ASSUME NEW scope, NEW ask, Pick(scope, ask) PROVE Asking'
    BY <1>6 DEF Pick, Asking
  <1>7. ASSUME AskPicked PROVE Asking'
    <2>1. CASE pending' = Idle
      BY <2>1 DEF Asking, Idle
    <2>2. CASE pending' = [pending EXCEPT !.phase = "asked"]
      <3>1. pending'.phase # "forwarding"
        BY <2>2
      <3>2. QED
        BY <3>1 DEF Asking
    <2>3. QED
      BY <1>7, <2>1, <2>2 DEF AskPicked
  <1>8. ASSUME NEW result \in Result, HearPicked(result) PROVE Asking'
    BY <1>8 DEF HearPicked, Asking, Idle
  <1>9. ASSUME UNCHANGED pending PROVE Asking'
    BY <1>9 DEF Asking, Fresh
  <1>10. ASSUME NEW route, ChatAsk(route) PROVE UNCHANGED pending
    BY <1>10 DEF ChatAsk
  <1>11. ASSUME NEW result, ChatHear(result) PROVE UNCHANGED pending
    BY <1>11 DEF ChatHear
  <1>12. ASSUME NEW k, Relist(k) \/ Recover(k) PROVE UNCHANGED pending
    BY <1>12 DEF Relist, Recover
  <1>13. ASSUME NEW d, Thaw(d) PROVE UNCHANGED pending
    BY <1>13 DEF Thaw
  <1>14. ASSUME NEW p, Gate(p) PROVE UNCHANGED pending
    BY <1>14 DEF Gate
  <1>15. ASSUME NEW p, NEW n, Toggle(p, n) PROVE UNCHANGED pending
    BY <1>15 DEF Toggle
  <1>16. CASE UNCHANGED vars
    BY <1>9, <1>16 DEF vars
  <1>17. QED
    BY <1>1, <1>2, <1>3, <1>4, <1>5, <1>6, <1>7, <1>8, <1>9, <1>10, <1>11, <1>12, <1>13, <1>14,
       <1>15, <1>16, RoutingAssumption
       DEF Next, RoutingNext, AdaptiveNext

(* For any pools and providers: a request other than a chat asks no key    *)
(* twice, whatever happens between its steps: chats that reserve, cool or  *)
(* limit the keys it has listed, adaptive requests, new listings,          *)
(* cooldowns of providers, operator's blocks, keys that come back; also    *)
(* where a provider lends it a key that does not list the model            *)
(* (post_openai_json, free_candidates, any_free_key).                      *)
THEOREM NoKeyAskedTwice == Spec => []ForwardAsksOnce
  <1>1. Spec => []Typed
    BY TypedAlways
  <1>2. Init => Asking
    BY AskingAtFirst
  <1>3. Typed /\ Asking /\ [Next]_vars => Asking'
    BY AskingHolds
  <1>4. Asking => ForwardAsksOnce
    BY DEF Asking, ForwardAsksOnce, Fresh, IsInjective
  <1>5. QED
    BY <1>1, <1>2, <1>3, <1>4, PTL DEF Spec

-----------------------------------------------------------------------------
(* What is listed is served *)

(* A key has no models but those its provider may list for it. *)
Stocked == \A k \in Key : keys[k].models \subseteq Offers[k]

(* A reservation changes no list of models, *)
LEMMA ReserveKeepsModels ==
    ASSUME Typed, NEW k, Reserve(k)
    PROVE  \A j \in Key : keys'[j].models = keys[j].models
  <1> DEFINE v == Reserved(keys[k])
  <1>1. keys' = [keys EXCEPT ![k] = v] /\ keys \in [Key -> KeyView]
    BY DEF Reserve, Typed
  <1>2. k \in Key => v.models = keys[k].models
    BY <1>1 DEF Reserved, KeyView
  <1> HIDE DEF v
  <1>3. QED
    BY <1>1, <1>2

(* nor does a result. *)
LEMMA HearKeepsModels ==
    ASSUME Typed, NEW k, NEW result \in Result \cup ChatResult, Hear(k, result)
    PROVE  \A j \in Key : keys'[j].models = keys[j].models
  <1> DEFINE v == keys[k]
             w == Reported(v, result)
  <1>1. keys' = [keys EXCEPT ![k] = w] /\ keys \in [Key -> KeyView]
    BY DEF Hear, Typed
  <1>2. k \in Key => w.models = v.models
    <2>1. SUFFICES ASSUME k \in Key PROVE w.models = v.models
      OBVIOUS
    <2>2. v \in KeyView
      BY <1>1, <2>1
    <2> HIDE DEF v
    <2>3. QED
      BY <2>2 DEF Reported, KeyView, Result, ChatResult
  <1> HIDE DEF w
  <1>3. QED
    BY <1>1, <1>2

(* Nor does anything but the provider's own listing. *)
LEMMA StockedHolds ==
    ASSUME Typed, Stocked, [Next]_vars
    PROVE  Stocked'
  <1>1. ASSUME NEW k, Reserve(k) PROVE Stocked'
    <2>1. \A j \in Key : keys'[j].models = keys[j].models
      BY <1>1, ReserveKeepsModels
    <2>2. QED
      BY <2>1 DEF Stocked
  <1>2. ASSUME NEW k, NEW result \in Result \cup ChatResult, Hear(k, result) PROVE Stocked'
    <2>1. \A j \in Key : keys'[j].models = keys[j].models
      BY <1>2, HearKeepsModels
    <2>2. QED
      BY <2>1 DEF Stocked
  <1>3. ASSUME UNCHANGED keys PROVE Stocked'
    BY <1>3 DEF Stocked
  <1>4. ASSUME NEW route, ChatAsk(route) PROVE Stocked'
    <2>1. \E k : Reserve(k)
      BY <1>4 DEF ChatAsk
    <2>2. QED
      BY <1>1, <2>1
  <1>5. ASSUME NEW result \in ChatResult, ChatHear(result) PROVE Stocked'
    BY <1>2, <1>5 DEF ChatHear
  <1>6. ASSUME NEW route, NEW agent, StartForward(route, agent) PROVE UNCHANGED keys
    BY <1>6 DEF StartForward
  <1>7. ASSUME NextProvider \/ ForwardFails PROVE UNCHANGED keys
    BY <1>7 DEF NextProvider, ForwardFails
  <1>8. ASSUME ForwardAsk PROVE Stocked'
    <2>1. UNCHANGED keys \/ Reserve(Head(pending.keys))
      BY <1>8 DEF ForwardAsk
    <2>2. QED
      BY <1>1, <1>3, <2>1
  <1>9. ASSUME NEW result \in Result, ForwardHear(result) PROVE Stocked'
    BY <1>2, <1>9 DEF ForwardHear
  <1>10. ASSUME NEW k \in Key, Relist(k) PROVE Stocked'
    <2>1. PICK listed \in SUBSET Offers[k] : keys' = [keys EXCEPT ![k].models = listed]
      BY <1>10 DEF Relist
    <2>2. QED
      BY <2>1 DEF Stocked, Typed, KeyView
  <1>11. ASSUME NEW k \in Key, Recover(k) PROVE Stocked'
    <2>1. keys' = [keys EXCEPT ![k] = Recovered(keys[k])]
      BY <1>11 DEF Recover
    <2>2. Recovered(keys[k]).models = keys[k].models
      BY DEF Typed, Recovered, KeyView
    <2>3. QED
      BY <2>1, <2>2 DEF Stocked, Typed
  <1>12. ASSUME NEW d, Thaw(d) PROVE UNCHANGED keys
    BY <1>12 DEF Thaw
  <1>13. ASSUME NEW p, Gate(p) PROVE UNCHANGED keys
    BY <1>13 DEF Gate
  <1>14. ASSUME NEW p, NEW n, Toggle(p, n) PROVE UNCHANGED keys
    BY <1>14 DEF Toggle
  <1>15. ASSUME NEW scope, NEW ask, Pick(scope, ask) PROVE UNCHANGED keys
    BY <1>15 DEF Pick
  <1>16. ASSUME AskPicked PROVE Stocked'
    <2>1. UNCHANGED keys \/ Reserve(pending.key)
      BY <1>16 DEF AskPicked
    <2>2. QED
      BY <1>1, <1>3, <2>1
  <1>17. ASSUME NEW result \in Result, HearPicked(result) PROVE Stocked'
    BY <1>2, <1>17 DEF HearPicked
  <1>18. CASE UNCHANGED vars
    BY <1>3, <1>18 DEF vars
  <1>19. QED
    BY <1>3, <1>4, <1>5, <1>6, <1>7, <1>8, <1>9, <1>10, <1>11, <1>12, <1>13, <1>14, <1>15, <1>16,
       <1>17, <1>18
       DEF Next, RoutingNext, AdaptiveNext

(* So it is always. *)
LEMMA StockedAlways == Spec => []Stocked
  <1>1. Spec => []Typed
    BY TypedAlways
  <1>2. Init => Stocked
    BY DEF Init, Stocked
  <1>3. Typed /\ Stocked /\ [Next]_vars => Stocked'
    BY StockedHolds
  <1>4. QED
    BY <1>1, <1>2, <1>3, PTL DEF Spec

(* A list of lists made one has the entries of each. *)
LEMMA FlattenHas ==
    ASSUME NEW X, NEW ss \in Seq(Seq(X)), NEW i \in DOMAIN ss, NEW j \in DOMAIN ss[i]
    PROVE  ss[i][j] \in ToSet(FlattenSeq(ss))
  <1> DEFINE t == FlattenSeq(ss)
  <1>1. PICK at : Covers(t, ss, Len(ss), at)
    BY FlattenCovers
  <1>2. i \in 1..Len(ss) /\ j \in Nat
    <2>1. ss[i] \in Seq(X)
      OBVIOUS
    <2>2. DOMAIN ss = 1..Len(ss) /\ DOMAIN ss[i] \subseteq Nat
      BY <2>1
    <2>3. QED
      BY <2>2
  <1>3. <<i, j>> \in Places(ss, Len(ss))
    BY <1>2 DEF Places
  <1> HIDE DEF t
  <1>4. PICK n \in DOMAIN t : at[n] = <<i, j>>
    BY <1>1, <1>3 DEF Covers
  <1>5. t[n] = ss[i][j]
    BY <1>1, <1>4 DEF Covers
  <1>6. QED
    BY <1>5 DEF t, ToSet

(* Pushing keeps the first entry of each name. *)
LEMMA PushedKeeps ==
    ASSUME NEW X, NEW s \in Seq(X), NEW i \in DOMAIN s
    PROVE  \E j \in DOMAIN s : j <= i /\ s[j].name = s[i].name /\ s[j] \in ToSet(Pushed(s))
  <1> DEFINE I == {l \in DOMAIN s : \A j \in 1..(l - 1) : s[j].name # s[l].name}
             T == {l \in DOMAIN s : s[l].name = s[i].name}
  <1>1. T \subseteq Nat /\ i \in T
    OBVIOUS
  <1>2. PICK j \in T : \A l \in T : j <= l
    BY <1>1, LeastNatural
  <1>3. j \in DOMAIN s /\ j <= i /\ s[j].name = s[i].name
    BY <1>1, <1>2
  <1>4. \A l \in 1..(j - 1) : l \in DOMAIN s /\ ~ (j <= l)
    BY <1>3
  <1>5. \A l \in 1..(j - 1) : s[l].name # s[j].name
    BY <1>2, <1>3, <1>4
  <1>6. j \in I \cap DOMAIN s
    BY <1>3, <1>5
  <1>7. Pushed(s) = Keep(s, I)
    BY DEF Pushed, FirstOfEach
  <1> HIDE DEF I
  <1>8. ToSet(Keep(s, I)) = {s[l] : l \in I \cap DOMAIN s}
    BY KeptOf
  <1>9. s[j] \in ToSet(Pushed(s))
    BY <1>6, <1>7, <1>8
  <1>10. QED
    BY <1>3, <1>9

(* The names a model is known under are tried first of all. *)
LEMMA VariantIsTried ==
    ASSUME NEW p \in Provider, NEW route \in Routes, NEW i \in DOMAIN Variants(route.model)
    PROVE  [name |-> Variants(route.model)[i], index |-> 0] \in ToSet(ModelsAt(p, route.model))
  <1> DEFINE n == route.model
             vs == Variants(n)
             first == Indexed(vs, 0)
             ss == [j \in 1..Len(<<n>>) |-> Indexed(Variants(<<n>>[j]), 0)]
             own == Tried(<<n>>, 0)
             named == NamedAt[p][n]
             Y == TriedName(n)
             e == [name |-> vs[i], index |-> 0]
  <1>1. own \in Seq(Y)
    <2>1. <<n>> \in Seq(ModelName \cup {n})
      OBVIOUS
    <2>2. QED
      BY <2>1, TriedTyped
  <1>2. /\ \A j \in DOMAIN own : own[j].index = 0
        /\ \E j \in DOMAIN own : own[j] = e
    <2>1. vs = <<n>> \/ vs = <<n, WithTier(n, "free")>>
      BY DEF Variants
    <2> DEFINE Z == {n, WithTier(n, "free")}
               F == [name : Z, index : {0}]
    <2>2. vs \in Seq(Z)
      <3>1. n \in Z /\ WithTier(n, "free") \in Z
        OBVIOUS
      <3> HIDE DEF Z
      <3>2. \A a, b \in Z : <<a>> \in Seq(Z) /\ <<a, b>> \in Seq(Z)
        OBVIOUS
      <3>3. <<n>> \in Seq(Z) /\ <<n, WithTier(n, "free")>> \in Seq(Z)
        BY <3>1, <3>2
      <3>4. QED
        BY <2>1, <3>3
    <2>3. Len(vs) \in Nat /\ DOMAIN vs = 1..Len(vs) /\ \A j \in 1..Len(vs) : vs[j] \in Z
      <3> HIDE DEF Z, vs
      <3>1. QED
        BY <2>2
    <2>4. first = [j \in 1..Len(vs) |-> [name |-> vs[j], index |-> 0]]
      BY DEF Indexed
    <2> HIDE DEF vs, Z
    <2>5. first \in Seq(F) /\ DOMAIN first = 1..Len(vs) /\ first[i] = e /\ i \in 1..Len(vs)
      <3>1. i \in 1..Len(vs)
        BY <2>3 DEF vs
      <3>2. \A j \in 1..Len(vs) : [name |-> vs[j], index |-> 0] \in F
        BY <2>3
      <3> HIDE DEF F, first
      <3>3. first \in Seq(F)
        BY <2>3, <2>4, <3>2
      <3>4. DOMAIN first = 1..Len(vs) /\ first[i] = e
        BY <2>4, <3>1
      <3>5. QED
        BY <3>1, <3>3, <3>4
    <2> HIDE DEF first, F
    <2>6. ss = <<first>>
      BY DEF vs, first
    <2>7. own = FlattenSeq(<<first>>)
      BY <2>6 DEF Tried
    <2>8. <<first>> \in Seq(Seq(F)) /\ 1 \in DOMAIN <<first>> /\ <<first>>[1] = first
      BY <2>5
    <2>9. FlattenSeq(<<first>>) \in Seq(F)
      BY <2>8, FlattenCovers
    <2> HIDE DEF own
    <2>10. <<first>>[1][i] \in ToSet(FlattenSeq(<<first>>))
      <3>1. i \in DOMAIN <<first>>[1]
        BY <2>5, <2>8
      <3>2. QED
        BY <2>8, <3>1, FlattenHas
    <2>11. e \in ToSet(own)
      BY <2>5, <2>7, <2>8, <2>10
    <2>12. \A j \in DOMAIN own : own[j] \in F
      BY <2>7, <2>9
    <2>13. QED
      BY <2>11, <2>12 DEF ToSet, F
  <1>3. /\ named \in Seq(Y) /\ NamesApart(named)
        /\ \E rest \in Seq(Y) : named = Pushed(own \o rest)
    BY NamedTyped
  <1> HIDE DEF own, named, Y
  <1>4. PICK rest \in Seq(Y) : named = Pushed(own \o rest)
    BY <1>3
  <1>5. ASSUME NEW a \in Seq(Y), NEW b \in Seq(Y), \A j \in DOMAIN a : a[j].name = e.name => a[j].index = 0,
               NEW j \in DOMAIN a, a[j] = e
        PROVE  \E x \in ToSet(Pushed(a \o b)) : x.name = e.name /\ x.index = 0
    <2> DEFINE u == a \o b
               m == Len(a)
               l == Len(b)
    <2>1. m \in Nat /\ l \in Nat /\ DOMAIN a = 1..m
      OBVIOUS
    <2>2. u \in Seq(Y) /\ Joined(u, a, b)
      BY ConcatJoins
    <2> HIDE DEF u
    <2>3. DOMAIN u = 1..(m + l) /\ \A q \in 1..(m + l) : u[q] = IF q <= m THEN a[q] ELSE b[q - m]
      BY <2>2 DEF Joined
    <2> HIDE DEF m, l
    <2>4. j \in DOMAIN u /\ u[j] = e /\ j <= m
      BY <1>5, <2>1, <2>3
    <2>5. PICK q \in DOMAIN u : q <= j /\ u[q].name = u[j].name /\ u[q] \in ToSet(Pushed(u))
      BY <2>2, <2>4, PushedKeeps
    <2>6. q \in DOMAIN a /\ u[q] = a[q]
      BY <2>1, <2>3, <2>4, <2>5
    <2>7. u[q].name = e.name /\ u[q].index = 0
      BY <1>5, <2>4, <2>5, <2>6
    <2>8. QED
      BY <2>5, <2>7 DEF u
  <1>6. e.name = vs[i] /\ e.index = 0
    OBVIOUS
  <1>7. PICK x \in ToSet(named) : x.name = e.name /\ x.index = 0
    BY <1>1, <1>2, <1>4, <1>5
  <1>8. ASSUME NEW y \in Y, y.name = e.name, y.index = 0 PROVE y = e
    BY <1>8 DEF Y, TriedName
  <1>9. PICK j \in DOMAIN named : named[j] = x
    BY <1>7 DEF ToSet
  <1>10. x \in Y /\ x = e
    <2>1. named[j] \in Y
      BY <1>3, <1>9
    <2>2. x \in Y
      BY <1>9, <2>1
    <2>3. QED
      BY <1>7, <1>8, <2>2
  <1>11. \A q \in DOMAIN named : named[q].name = e.name => named[q].index = 0
    BY <1>3, <1>6, <1>7, <1>9, <1>10 DEF NamesApart
  <1>12. PICK more \in Seq(Y) : ModelsAt(p, n) = Pushed(named \o more)
    BY ModelsApart DEF Y, named
  <1>13. PICK z \in ToSet(ModelsAt(p, n)) : z.name = e.name /\ z.index = 0
    BY <1>3, <1>5, <1>9, <1>10, <1>11, <1>12
  <1>14. z = e
    <2>1. ModelsAt(p, n) \in Seq(Y)
      BY ModelsApart DEF Y
    <2> DEFINE t == ModelsAt(p, n)
    <2> HIDE DEF t
    <2>2. PICK q \in DOMAIN t : t[q] = z
      BY <1>13 DEF ToSet, t
    <2>3. t[q] \in Y
      BY <2>1 DEF t
    <2>4. QED
      BY <1>8, <1>13, <2>2, <2>3
  <1>15. QED
    BY <1>13, <1>14

(* A key that serves the model is among those its provider offers for it. *)
LEMMA KeyIsOffered ==
    ASSUME NEW p \in Provider, NEW m, p \notin gated, <<p, m>> \notin blocked,
           NEW k \in ToSet(Pool[p]), IsFree(k), Selectable(k), m \in keys[k].models,
           ~Cooling(<<p, k, m>>)
    PROVE  k \in ToSet(KeysFor(p, m))
  <1> DEFINE s == Pool[p]
             I == {i \in DOMAIN s : IsFree(s[i]) /\ Selectable(s[i]) /\ (p = "cloudflare" \/ m \in keys[s[i]].models)}
             t == FreeKeys(p, m)
             J == {i \in DOMAIN t : ~Cooling(<<p, t[i], m>>)}
  <1>1. s \in Seq(Key)
    BY RoutingAssumption
  <1>2. t = Keep(s, I)
    BY DEF FreeKeys, Where
  <1>3. PICK i \in DOMAIN s : s[i] = k
    BY DEF ToSet
  <1>4. i \in I \cap DOMAIN s
    BY <1>3
  <1> HIDE DEF I, s
  <1>5. t \in Seq(Key) /\ ToSet(t) = {s[l] : l \in I \cap DOMAIN s}
    BY <1>1, <1>2, KeptOf
  <1>6. k \in ToSet(t)
    BY <1>3, <1>4, <1>5
  <1>7. KeysFor(p, m) = Keep(t, J)
    BY DEF KeysFor
  <1>8. PICK j \in DOMAIN t : t[j] = k
    BY <1>6 DEF ToSet
  <1>9. j \in J \cap DOMAIN t
    BY <1>8
  <1> HIDE DEF t, J
  <1>10. ToSet(Keep(t, J)) = {t[l] : l \in J \cap DOMAIN t}
    BY <1>5, KeptOf
  <1>11. QED
    BY <1>7, <1>8, <1>9, <1>10

(* Whatever a provider's keys offer for a name that is tried is a candidate. *)
LEMMA CandidateIsThere ==
    ASSUME Typed, NEW route \in Routes, NEW p \in Provider,
           NEW m \in ToSet(ModelsAt(p, route.model)), NEW k \in ToSet(KeysFor(p, m.name))
    PROVE  \E c \in ToSet(Candidates(route)) : c.provider = p /\ c.model = m.name /\ c.index = m.index
  <1> DEFINE n == route.model
             order == ProviderOrder[route.provider]
             X == CandidateOf(n)
             models == ModelsAt(p, n)
             ks == KeysFor(p, m.name)
  <1>1. order \in Seq(Provider) /\ Provider \subseteq ToSet(order)
    BY ProvidersOnce
  <1>2. PICK i \in DOMAIN order : order[i] = p
    BY <1>1 DEF ToSet
  <1>3. models \in Seq(TriedName(n))
    BY ModelsApart
  <1>4. PICK j \in DOMAIN models : models[j] = m
    BY DEF ToSet
  <1>5. ks \in Seq(Key)
    BY KeysForOnce
  <1>6. PICK l \in DOMAIN ks : ks[l] = k
    BY DEF ToSet
  <1> DEFINE c == OfModel(p, m, i)[l]
             ss == [q \in 1..Len(models) |-> OfModel(p, models[q], i)]
             tt == [q \in 1..Len(order) |-> CandidatesAt(order[q], n, q)]
  <1>7. DOMAIN OfModel(p, m, i) = 1..Len(ks) /\ c.provider = p /\ c.model = m.name /\ c.index = m.index
    <2>1. l \in 1..Len(ks)
      BY <1>5, <1>6
    <2> HIDE DEF ks
    <2>2. QED
      BY <2>1 DEF OfModel, ks
  <1>8. i \in Nat /\ i \in 1..Len(order) /\ j \in 1..Len(models) /\ l \in 1..Len(ks)
    BY <1>1, <1>2, <1>3, <1>4, <1>5, <1>6
  <1>9. CandidatesAt(p, n, i) = FlattenSeq(ss)
    BY DEF CandidatesAt, OfModel, KeysFor, Where
  <1>10. Candidates(route) = FlattenSeq(tt)
    BY DEF Candidates
  <1>11. Len(order) \in Nat /\ Len(models) \in Nat
    BY <1>1, <1>3
  <1>12. ASSUME NEW q \in 1..Len(models) PROVE OfModel(p, models[q], i) \in Seq(X)
    <2>1. models[q] \in TriedName(n)
      BY <1>3
    <2>2. QED
      BY <1>8, <2>1, OneModelApart
  <1>13. ASSUME NEW q \in 1..Len(order) PROVE CandidatesAt(order[q], n, q) \in Seq(X)
    <2>1. order[q] \in Provider /\ q \in Nat
      BY <1>1
    <2>2. QED
      BY <2>1, CandidatesAtApart
  <1> HIDE DEF order, models, X, n, ks
  <1>14. ss \in Seq(Seq(X)) /\ j \in DOMAIN ss /\ ss[j] = OfModel(p, m, i)
    BY <1>4, <1>8, <1>11, <1>12
  <1>15. tt \in Seq(Seq(X)) /\ i \in DOMAIN tt /\ tt[i] = CandidatesAt(p, n, i)
    BY <1>2, <1>8, <1>11, <1>13
  <1> HIDE DEF ss, tt
  <1>16. c \in ToSet(FlattenSeq(ss))
    <2>1. l \in DOMAIN ss[j] /\ ss[j][l] = c
      BY <1>7, <1>8, <1>14
    <2> HIDE DEF c
    <2>2. QED
      BY <1>14, <2>1, FlattenHas
  <1> HIDE DEF c
  <1>17. PICK q \in DOMAIN CandidatesAt(p, n, i) : CandidatesAt(p, n, i)[q] = c
    BY <1>9, <1>16 DEF ToSet
  <1>18. c \in ToSet(FlattenSeq(tt))
    <2>1. q \in DOMAIN tt[i] /\ tt[i][q] = c
      BY <1>15, <1>17
    <2>2. QED
      BY <1>15, <2>1, FlattenHas
  <1>19. QED
    BY <1>7, <1>10, <1>18

(* An alternative that applies hides those after it; one that does not     *)
(* leaves them as they are.                                                *)
LEMMA FirstOfRules ==
    ASSUME NEW X, NEW a \in Seq(X), NEW b \in Seq(X)
    PROVE  /\ a = <<>> => a \o b = b
           /\ a # <<>> => a \o b # <<>> /\ (a \o b)[1] = a[1]
  <1>1. a \o b \in Seq(X) /\ Joined(a \o b, a, b)
    BY ConcatJoins
  <1> DEFINE t == a \o b
             m == Len(a)
             l == Len(b)
  <1>2. m \in Nat /\ l \in Nat /\ (a # <<>> => m > 0)
    OBVIOUS
  <1> HIDE DEF t
  <1>3. ASSUME a # <<>> PROVE t # <<>> /\ t[1] = a[1]
    <2>1. Len(t) = m + l /\ (1 \in 1..(m + l) => t[1] = IF 1 <= m THEN a[1] ELSE b[1 - m])
      BY <1>1 DEF Joined, t
    <2>2. Len(t) > 0 /\ t[1] = a[1]
      BY <1>2, <1>3, <2>1
    <2>3. QED
      BY <1>1, <2>2 DEF t
  <1>4. a = <<>> => a \o b = b
    OBVIOUS
  <1>5. QED
    BY <1>3, <1>4 DEF t

(* An alias without a suffix resolves to the provider and the model it     *)
(* names.                                                                  *)
LEMMA AliasResolves ==
    ASSUME NEW a \in DOMAIN Alias, a \in Name, ~HasSuffix(a)
    PROVE  [provider |-> Alias[a].provider, model |-> Alias[a].model] \in ToSet(Resolve[a][Nobody])
  <1> DEFINE r == [provider |-> Alias[a].provider, model |-> Alias[a].model]
             g == Head(a.path)
             known == Where(Fallback, LAMBDA p : p \in Provider)
             r3 == [provider |-> "openrouter", model |-> a]
             r4 == [provider |-> g, model |-> NameFor(g, [a EXCEPT !.path = Tail(@)])]
             r6 == [provider |-> Head(known), model |-> NameFor(Head(known), a)]
             X == {r, r3, r4, r6}
             s1 == AgentRule(a, Nobody)
             s2 == AliasRule(a)
             s3 == AggregateRule(a)
             s4 == DirectRule(a)
             s5 == SuffixRule(a)
             s6 == FallbackRule(a)
  <1>1. s1 \in {<<>>, <<r>>} /\ s2 = <<r>>
    BY DEF AgentRule, AliasRule, Rule
  <1>2. s3 \in {<<>>, <<r3>>} /\ s4 \in {<<>>, <<r4>>} /\ s5 \in {<<>>, <<r3>>} /\ s6 \in {<<>>, <<r6>>}
    BY DEF AggregateRule, DirectRule, SuffixRule, FallbackRule, Rule
  <1>3. Resolve[a][Nobody] = FirstOf((s1 \o s2 \o s3 \o s4 \o s5 \o s6) \o <<>>)
    BY DEF Resolve, ResolveRaw
  <1>4. r \in X /\ r3 \in X /\ r4 \in X /\ r6 \in X
    OBVIOUS
  <1> HIDE DEF r, r3, r4, r6, X, s1, s2, s3, s4, s5, s6, g, known
  <1>5. \A x \in X : <<x>> \in Seq(X) /\ <<x>> # <<>> /\ <<x>>[1] = x
    OBVIOUS
  <1>6. <<>> \in Seq(X)
    OBVIOUS
  <1>7. s1 \in Seq(X) /\ s2 \in Seq(X) /\ s3 \in Seq(X) /\ s4 \in Seq(X) /\ s5 \in Seq(X) /\ s6 \in Seq(X)
    BY <1>1, <1>2, <1>4, <1>5, <1>6
  <1> DEFINE Leads(s) == s \in Seq(X) /\ s # <<>> /\ s[1] = r
  <1>8. \A u, v \in Seq(X) : u \o v \in Seq(X)
    OBVIOUS
  <1>9. \A u, v \in Seq(X) : Leads(u) => Leads(u \o v)
    BY <1>8, FirstOfRules
  <1>10. Leads(s1 \o s2)
    <2>1. CASE s1 = <<>>
      <3>1. s1 \o s2 = s2
        BY <1>7, <2>1, FirstOfRules
      <3>2. QED
        BY <1>1, <1>4, <1>5, <1>7, <3>1
    <2>2. CASE s1 = <<r>>
      <3>1. Leads(s1)
        BY <1>4, <1>5, <1>7, <2>2
      <3>2. QED
        BY <1>7, <1>9, <3>1
    <2>3. QED
      BY <1>1, <2>1, <2>2
  <1>11. Leads((s1 \o s2 \o s3 \o s4 \o s5 \o s6) \o <<>>)
    <2>1. s1 \o s2 \in Seq(X)
      BY <1>7, <1>8
    <2>2. Leads(s1 \o s2 \o s3) /\ s1 \o s2 \o s3 \in Seq(X)
      BY <1>7, <1>8, <1>9, <1>10, <2>1
    <2>3. Leads(s1 \o s2 \o s3 \o s4) /\ s1 \o s2 \o s3 \o s4 \in Seq(X)
      BY <1>7, <1>8, <1>9, <2>2
    <2>4. Leads(s1 \o s2 \o s3 \o s4 \o s5) /\ s1 \o s2 \o s3 \o s4 \o s5 \in Seq(X)
      BY <1>7, <1>8, <1>9, <2>3
    <2>5. Leads(s1 \o s2 \o s3 \o s4 \o s5 \o s6) /\ s1 \o s2 \o s3 \o s4 \o s5 \o s6 \in Seq(X)
      BY <1>7, <1>8, <1>9, <2>4
    <2>6. QED
      BY <1>6, <1>9, <2>5
  <1>12. \A s \in Seq(X) : s # <<>> => s[1] \in ToSet(FirstOf(s))
    BY DEF FirstOf, ToSet
  <1>13. r \in ToSet(FirstOf((s1 \o s2 \o s3 \o s4 \o s5 \o s6) \o <<>>))
    BY <1>11, <1>12
  <1>14. QED
    BY <1>3, <1>13 DEF r

(* A bare name that is no alias and names no provider goes to the first    *)
(* fallback provider, or to openrouter, as it is.                          *)
LEMMA BareNameResolves ==
    ASSUME NEW n \in Name, n \notin DOMAIN Alias, ~HasSuffix(n), Head(n.path) \notin Provider,
           \E i \in DOMAIN Fallback : Fallback[i] \in Provider
    PROVE  \E r \in ToSet(Resolve[n][Nobody]) : r.model = n
  <1> DEFINE I == {i \in DOMAIN Fallback : Fallback[i] \in Provider}
             known == Keep(Fallback, I)
             r3 == [provider |-> "openrouter", model |-> n]
             r6 == [provider |-> Head(known), model |-> n]
             X == {r3, r6}
             s1 == AgentRule(n, Nobody)
             s2 == AliasRule(n)
             s3 == AggregateRule(n)
             s4 == DirectRule(n)
             s5 == SuffixRule(n)
             s6 == FallbackRule(n)
             raw == s1 \o s2 \o s3 \o s4 \o s5 \o s6
  <1>1. n.tier = "default" /\ Strip(n) = n
    <2>1. n.tier = "default"
      BY DEF HasSuffix
    <2>2. Family(n) = n
      BY <2>1, BareIsFamily
    <2>3. QED
      BY <2>1, <2>2 DEF Strip, Family
  <1>2. s1 = <<>> /\ s2 = <<>>
    BY DEF AgentRule, AliasRule
  <1>3. s3 \in {<<>>, <<r3>>}
    BY DEF AggregateRule, Rule
  <1>4. s4 = <<>>
    BY DEF DirectRule
  <1>5. s5 = <<>>
    BY DEF SuffixRule, Rule
  <1>6. known # <<>>
    <2>1. Fallback \in Seq(STRING)
      BY NamesAssumption
    <2>2. PICK i \in I : TRUE
      OBVIOUS
    <2>3. i \in I \cap DOMAIN Fallback
      OBVIOUS
    <2> HIDE DEF I
    <2>4. ToSet(known) = {Fallback[l] : l \in I \cap DOMAIN Fallback}
      BY <2>1, KeptOf
    <2>5. Fallback[i] \in ToSet(known)
      BY <2>3, <2>4
    <2> HIDE DEF known
    <2>6. known = <<>> => ToSet(known) = {}
      BY DEF ToSet
    <2>7. QED
      BY <2>5, <2>6
  <1>7. s6 = <<r6>>
    <2>1. Where(Fallback, LAMBDA p : p \in Provider) = known
      BY DEF Where
    <2>2. \A p : NameFor(p, n) = n
      BY <1>1 DEF NameFor
    <2> HIDE DEF known
    <2>3. QED
      BY <1>6, <2>1, <2>2 DEF FallbackRule, Rule
  <1>8. Resolve[n][Nobody] = FirstOf(raw \o <<>>)
    BY DEF Resolve, ResolveRaw
  <1>9. r3 \in X /\ r6 \in X /\ \A x \in X : x.model = n
    OBVIOUS
  <1> HIDE DEF r3, r6, X, s1, s2, s3, s4, s5, s6, raw
  <1>10. \A x \in X : <<x>> \in Seq(X) /\ Len(<<x>>) = 1
    OBVIOUS
  <1>11. <<>> \in Seq(X) /\ Len(<<>>) = 0
    OBVIOUS
  <1>12. \A u, v \in Seq(X) : u \o v \in Seq(X) /\ Len(u \o v) = Len(u) + Len(v)
    OBVIOUS
  <1>13. /\ s1 \in Seq(X) /\ s2 \in Seq(X) /\ s3 \in Seq(X) /\ s4 \in Seq(X) /\ s5 \in Seq(X) /\ s6 \in Seq(X)
         /\ Len(s6) = 1
    BY <1>2, <1>3, <1>4, <1>5, <1>7, <1>9, <1>10, <1>11
  <1>14. raw \o <<>> \in Seq(X) /\ Len(raw \o <<>>) > 0
    <2> DEFINE u == s1 \o s2 \o s3 \o s4 \o s5
    <2>1. u \in Seq(X)
      <3>1. s1 \o s2 \in Seq(X)
        BY <1>12, <1>13
      <3>2. s1 \o s2 \o s3 \in Seq(X)
        BY <1>12, <1>13, <3>1
      <3>3. s1 \o s2 \o s3 \o s4 \in Seq(X)
        BY <1>12, <1>13, <3>2
      <3>4. QED
        BY <1>12, <1>13, <3>3
    <2>2. raw = u \o s6
      BY DEF raw
    <2> HIDE DEF u
    <2>3. raw \in Seq(X) /\ Len(raw) = Len(u) + 1
      BY <1>12, <1>13, <2>1, <2>2
    <2>4. Len(u) \in Nat /\ Len(raw) \in Nat
      BY <2>1, <2>3
    <2>5. raw \o <<>> \in Seq(X) /\ Len(raw \o <<>>) = Len(raw) + 0
      BY <1>11, <1>12, <2>3
    <2>6. QED
      BY <2>3, <2>4, <2>5
  <1>15. \A s \in Seq(X) : Len(s) > 0 => s[1] \in X /\ s[1] \in ToSet(FirstOf(s))
    BY DEF FirstOf, ToSet
  <1>16. QED
    BY <1>8, <1>9, <1>14, <1>15

(* An entry of the inventory. *)
LEMMA InventoryTyped ==
    ASSUME Typed, NEW x \in Inventory
    PROVE  /\ x[1] \in Provider /\ x[2] \in Name /\ x = <<x[1], x[2]>>
           /\ \E k \in Key : x[2] \in keys[k].models
  <1>1. PICK p \in Provider : \E n \in FreeModels(p) : x = <<p, n>>
    BY DEF Inventory
  <1>2. PICK n \in FreeModels(p) : x = <<p, n>>
    BY <1>1
  <1>3. PICK k \in ToSet(Pool[p]) : n \in keys[k].models
    BY <1>2 DEF FreeModels
  <1>4. k \in Key
    BY RoutingAssumption DEF ToSet
  <1>5. n \in Name
    BY <1>3, <1>4 DEF Typed, KeyView
  <1>6. QED
    BY <1>2, <1>3, <1>4, <1>5

(* An alias is shown for a model of the inventory that is not blocked. *)
LEMMA AliasIsShown ==
    ASSUME Typed, NEW e \in AliasEntries
    PROVE  /\ e = [id |-> e.id, owner |-> e.owner] /\ e.id \in DOMAIN Alias /\ e.owner \in Provider
           /\ <<e.owner, Alias[e.id].model>> \in Inventory \ blocked
           /\ Alias[e.id].provider \in {"", e.owner}
  <1> DEFINE Serving2(a) == {x \in Inventory : x[2] = Alias[a].model /\ Alias[a].provider \in {"", x[1]}}
             First(a) == Least(Serving2(a), LAMBDA x : <<NameOrder[x[1]]>>)
  <1>1. PICK a \in DOMAIN Alias : /\ Serving2(a) # {} /\ First(a) \notin blocked
                                  /\ e = [id |-> a, owner |-> First(a)[1]]
    BY DEF AliasEntries
  <1> DEFINE S == Serving2(a)
             k == [x \in S |-> <<NameOrder[x[1]]>>]
             f == First(a)
  <1>2. \A x \in S : x \in Inventory /\ x[2] = Alias[a].model /\ Alias[a].provider \in {"", x[1]}
    OBVIOUS
  <1>3. \A x \in S : x[1] \in Provider /\ x[2] \in Name /\ x = <<x[1], x[2]>>
    BY InventoryTyped
  <1>4. IsFiniteSet(S)
    <2>1. IsFiniteSet(Provider \X Name)
      BY NamesAssumption, FS_Product
    <2>2. S \subseteq Provider \X Name
      <3> HIDE DEF S
      <3>1. ASSUME NEW x \in S PROVE x \in Provider \X Name
        <4>1. <<x[1], x[2]>> \in Provider \X Name
          BY <1>3
        <4>2. QED
          BY <1>3, <4>1, Zenon
      <3>2. QED
        BY <3>1
    <2>3. QED
      BY <2>1, <2>2, FS_Subset
  <1>5. S # {}
    BY <1>1
  <1>6. f = Least(S, LAMBDA x : <<NameOrder[x[1]]>>)
    OBVIOUS
  <1> HIDE DEF S, f
  <1>7. KeysOf(S, k, 1)
    <2>1. ASSUME NEW x \in S PROVE k[x] \in Seq(Int) /\ Len(k[x]) = 1 /\ k[x][1] = NameOrder[x[1]]
      <3>1. NameOrder[x[1]] \in Int
        BY <1>3, NamesAssumption
      <3>2. QED
        BY <3>1
    <2>2. ASSUME NEW x \in S, NEW y \in S, k[x] = k[y] PROVE x = y
      <3>1. NameOrder[x[1]] = NameOrder[y[1]]
        BY <2>1, <2>2
      <3>2. x[1] = y[1] /\ x[2] = y[2]
        BY <1>2, <1>3, <3>1, NamesAssumption
      <3>3. x = <<x[1], x[2]>> /\ y = <<y[1], y[2]>>
        BY <1>3
      <3>4. QED
        BY <3>2, <3>3, Zenon
    <2> HIDE DEF k
    <2>3. QED
      BY <2>1, <2>2 DEF KeysOf
  <1>8. \E x \in S : \A y \in S : y = x \/ Before(<<NameOrder[x[1]]>>, <<NameOrder[y[1]]>>)
    <2>1. \A x \in S : k[x] = <<NameOrder[x[1]]>>
      OBVIOUS
    <2> HIDE DEF k
    <2>2. 1 \in Nat
      OBVIOUS
    <2>3. \E x \in S : \A y \in S : y = x \/ Before(k[x], k[y])
      BY <1>4, <1>5, <1>7, <2>2, FirstByKey
    <2>4. QED
      BY <2>1, <2>3
  <1>9. f \in S
    BY <1>6, <1>8 DEF Least
  <1>10. f \notin blocked /\ e = [id |-> a, owner |-> f[1]]
    BY <1>1 DEF f
  <1>11. f = <<f[1], f[2]>> /\ f[1] \in Provider /\ f \in Inventory /\ f[2] = Alias[a].model
    BY <1>2, <1>3, <1>9
  <1>12. Alias[a].provider \in {"", f[1]}
    BY <1>2, <1>9
  <1>13. e.id = a /\ e.owner = f[1]
    BY <1>10
  <1>14. <<f[1], Alias[a].model>> = f
    BY <1>11
  <1>15. QED
    BY <1>10, <1>11, <1>12, <1>13, <1>14

(* A name that a route tries at a provider is offered there by the keys    *)
(* that list it and may be used.                                           *)
LEMMA NameIsOffered ==
    ASSUME Typed, NEW route \in Routes, NEW i \in DOMAIN Variants(route.model),
           NEW p \in Provider, p \notin gated, <<p, Variants(route.model)[i]>> \notin blocked,
           NEW k \in ToSet(Pool[p]), IsFree(k), Selectable(k),
           Variants(route.model)[i] \in keys[k].models,
           ~Cooling(<<p, k, Variants(route.model)[i]>>)
    PROVE  \E c \in ToSet(Candidates(route)) :
               c.provider = p /\ c.model = Variants(route.model)[i] /\ c.index = 0
  <1> DEFINE v == Variants(route.model)[i]
             m == [name |-> v, index |-> 0]
  <1>1. m \in ToSet(ModelsAt(p, route.model))
    BY VariantIsTried
  <1>2. k \in ToSet(KeysFor(p, v))
    BY KeyIsOffered
  <1> HIDE DEF v
  <1>3. m.name = v /\ m.index = 0
    OBVIOUS
  <1> HIDE DEF m
  <1>4. k \in ToSet(KeysFor(p, m.name))
    BY <1>2, <1>3
  <1>5. \E c \in ToSet(Candidates(route)) : c.provider = p /\ c.model = m.name /\ c.index = m.index
    BY <1>1, <1>4, CandidateIsThere
  <1>6. QED
    BY <1>3, <1>5 DEF v

(* What a listed entry asks of the pool of its owner. *)
Servable(e) ==
    /\ e.owner \notin gated
    /\ \E k \in ToSet(Pool[e.owner]) :
          /\ IsFree(k) /\ keys[k].status = "available" /\ Target(e) \in keys[k].models
          /\ ~Cooling(<<e.owner, k, Target(e)>>)

(* A name that is tried first or second is served by the pool it asks. *)
LEMMA TargetIsServed ==
    ASSUME Typed, NEW e, e.owner \in Provider, Servable(e), <<e.owner, Target(e)>> \notin blocked,
           NEW route \in Routes, NEW i \in DOMAIN Variants(route.model),
           Variants(route.model)[i] = Target(e)
    PROVE  \E c \in ToSet(Candidates(route)) :
               c.provider = e.owner /\ c.model = Target(e) /\ c.index = 0
  <1> DEFINE p == e.owner
             m == Target(e)
  <1>1. PICK k \in ToSet(Pool[p]) : /\ IsFree(k) /\ keys[k].status = "available"
                                    /\ m \in keys[k].models /\ ~Cooling(<<p, k, m>>)
    BY DEF Servable
  <1>2. Selectable(k) /\ p \notin gated
    BY <1>1 DEF Selectable, Servable
  <1> HIDE DEF p, m
  <1>3. p \in Provider /\ <<p, m>> \notin blocked /\ Variants(route.model)[i] = m
    BY DEF p, m
  <1>4. \E c \in ToSet(Candidates(route)) : c.provider = p /\ c.model = m /\ c.index = 0
    BY <1>1, <1>2, <1>3, NameIsOffered
  <1>5. QED
    BY <1>4 DEF p, m

(* An entry that stands for an alias is the alias, shown for a model that  *)
(* is not blocked.                                                         *)
LEMMA AliasServed ==
    ASSUME ServableNames, Typed, Stocked, NEW e, e.owner \in Provider, e.variant \in DOMAIN Alias,
           [id |-> e.variant, owner |-> e.owner] \in Visible, Family(e.variant) = e.id, Servable(e)
    PROVE  \E r \in ToSet(Resolve[e.id][Nobody]) : \E c \in ToSet(Candidates(r)) :
               c.provider = e.owner /\ c.model = Target(e) /\ c.index = 0
  <1> DEFINE a == e.variant
             x == [id |-> a, owner |-> e.owner]
             r == [provider |-> Alias[a].provider, model |-> Alias[a].model]
             vs == Variants(r.model)
  <1>1. a \in Name /\ ~HasSuffix(a) /\ \A k \in Key : a \notin Offers[k]
    BY DEF ServableNames
  <1>2. e.id = a
    BY <1>1, BareIsFamily DEF HasSuffix
  <1>3. x \in AliasEntries
    <2>1. CASE \E y \in Inventory \ blocked : x = [id |-> y[2], owner |-> y[1]]
      <3>1. PICK y \in Inventory : x = [id |-> y[2], owner |-> y[1]]
        BY <2>1
      <3>2. y[2] = a
        BY <3>1
      <3>3. \E k \in Key : y[2] \in keys[k].models
        BY InventoryTyped
      <3>4. QED
        BY <1>1, <3>2, <3>3 DEF Stocked
    <2>2. QED
      BY <2>1 DEF Visible
  <1> HIDE DEF x
  <1>4. <<x.owner, Alias[x.id].model>> \in Inventory \ blocked
    BY <1>3, AliasIsShown
  <1>5. x.id = a /\ x.owner = e.owner
    BY DEF x
  <1>6. r \in ToSet(Resolve[a][Nobody])
    BY <1>1, AliasResolves
  <1>7. r \in Routes
    BY <1>1, <1>6 DEF Routes
  <1>8. r.model = Alias[a].model /\ Target(e) = Alias[a].model
    BY DEF Target
  <1>9. 1 \in DOMAIN vs /\ vs[1] = r.model
    BY DEF Variants
  <1> HIDE DEF r
  <1>10. <<e.owner, Target(e)>> \notin blocked
    BY <1>4, <1>5, <1>8
  <1>11. \E c \in ToSet(Candidates(r)) : c.provider = e.owner /\ c.model = Target(e) /\ c.index = 0
    BY <1>7, <1>8, <1>9, <1>10, TargetIsServed
  <1>12. QED
    BY <1>2, <1>6, <1>11

(* An entry that stands for itself or for its free variant resolves to its *)
(* bare name, which tries both.                                            *)
LEMMA NameServed ==
    ASSUME ServableNames, Typed, Stocked, NEW e, e.owner \in Provider, e.variant \notin DOMAIN Alias,
           [id |-> e.variant, owner |-> e.owner] \in Visible, Family(e.variant) = e.id,
           Unambiguous(e), Servable(e)
    PROVE  \E r \in ToSet(Resolve[e.id][Nobody]) : \E c \in ToSet(Candidates(r)) :
               c.provider = e.owner /\ c.model = Target(e) /\ c.index = 0
  <1> DEFINE v == e.variant
             n == e.id
             x == [id |-> v, owner |-> e.owner]
  <1>1. n \notin DOMAIN Alias /\ v.tier \in {"default", "free"} /\ Head(n.path) \notin Provider
    BY DEF Unambiguous
  <1>2. x \notin AliasEntries
    <2>1. ASSUME x \in AliasEntries PROVE FALSE
      <3>1. x.id \in DOMAIN Alias
        BY <2>1, AliasIsShown
      <3>2. QED
        BY <3>1
    <2>2. QED
      BY <2>1
  <1>3. PICK y \in Inventory \ blocked : x = [id |-> y[2], owner |-> y[1]]
    BY <1>2 DEF Visible
  <1>4. y[2] = v /\ y[1] = e.owner
    BY <1>3
  <1>5. /\ v \in Name /\ y = <<y[1], y[2]>>
        /\ \E k \in Key : v \in keys[k].models
    BY <1>4, InventoryTyped
  <1>6. <<e.owner, v>> \notin blocked
    BY <1>3, <1>4, <1>5
  <1>7. PICK k \in Key : v \in Offers[k]
    BY <1>5 DEF Stocked
  <1>8. v = [path |-> v.path, tier |-> v.tier]
    BY <1>5, NamesAssumption
  <1>9. n = Strip(v) /\ n = [v EXCEPT !.tier = "default"] /\ n \in Name
    BY <1>5 DEF Family, Strip, WithTier, ServableNames
  <1> HIDE DEF v, n, x
  <1>10. n = [path |-> v.path, tier |-> "default"]
    BY <1>8, <1>9
  <1>11. n.tier = "default" /\ n.path = v.path
    BY <1>10
  <1>12. ~HasSuffix(n)
    BY <1>11 DEF HasSuffix
  <1>13. PICK r \in ToSet(Resolve[n][Nobody]) : r.model = n
    BY <1>1, <1>9, <1>12, BareNameResolves DEF ServableNames
  <1>14. r \in Routes
    BY <1>9, <1>13 DEF Routes
  <1>15. Target(e) = v
    BY DEF Target, v
  <1> DEFINE vs == Variants(r.model)
  <1>16. \E i \in DOMAIN vs : vs[i] = v
    <2>1. CASE v.tier = "default"
      <3>1. v = n
        BY <1>8, <1>10, <2>1
      <3>2. 1 \in DOMAIN vs /\ vs[1] = n
        BY <1>13 DEF Variants
      <3>3. QED
        BY <3>1, <3>2
    <2>2. CASE v.tier = "free"
      <3>1. ~IsAggregate(n) /\ ~IsCloudflare(v)
        BY <1>7, <1>9, <2>2 DEF ServableNames
      <3>2. ~IsCloudflare(n)
        BY <1>11, <3>1 DEF IsCloudflare
      <3>3. WithTier(n, "free") = v
        <4>1. WithTier(n, "free") = [path |-> v.path, tier |-> "free"]
          BY <1>10 DEF WithTier
        <4>2. QED
          BY <1>8, <2>2, <4>1
      <3>4. vs = <<n, v>>
        BY <1>12, <1>13, <3>1, <3>2, <3>3 DEF Variants
      <3>5. 2 \in DOMAIN vs /\ vs[2] = v
        BY <3>4
      <3>6. QED
        BY <3>5
    <2>3. QED
      BY <1>1, <2>1, <2>2 DEF v
  <1>17. \E c \in ToSet(Candidates(r)) : c.provider = e.owner /\ c.model = Target(e) /\ c.index = 0
    BY <1>6, <1>14, <1>15, <1>16, TargetIsServed
  <1>18. QED
    BY <1>13, <1>17 DEF n

(* What GET /v1/models shows are entries. *)
LEMMA VisibleTyped ==
    ASSUME ServableNames, Typed
    PROVE  Visible \in SUBSET Entry
  <1>1. ASSUME NEW x \in Inventory PROVE [id |-> x[2], owner |-> x[1]] \in Entry
    BY InventoryTyped DEF Entry
  <1>2. ASSUME NEW e \in AliasEntries PROVE e \in Entry
    <2>1. e = [id |-> e.id, owner |-> e.owner] /\ e.id \in DOMAIN Alias /\ e.owner \in Provider
      BY AliasIsShown
    <2>2. e.id \in Name
      BY <2>1 DEF ServableNames
    <2>3. QED
      BY <2>1, <2>2 DEF Entry
  <1>3. QED
    BY <1>1, <1>2 DEF Visible

(* In every state a key may be in, what is listed is served. *)
LEMMA ServedAsListed ==
    ASSUME ServableNames, Typed, Stocked
    PROVE  ListedIsServed
  <1>1. ASSUME NEW e \in Listed, Unambiguous(e), Servable(e)
        PROVE  \E r \in ToSet(Resolve[e.id][Nobody]) : \E c \in ToSet(Candidates(r)) :
                   c.provider = e.owner /\ c.model = Target(e) /\ c.index = 0
    <2>1. Visible \in SUBSET Entry
      BY VisibleTyped
    <2>2. e \in MergeFamilies(Visible)
      BY <1>1 DEF Listed
    <2>3. [id |-> e.variant, owner |-> e.owner] \in Visible /\ Family(e.variant) = e.id
      BY <2>1, <2>2, MergedFrom
    <2>4. e.owner \in Provider
      <3>1. [id |-> e.variant, owner |-> e.owner] \in Entry
        BY <2>1, <2>3
      <3>2. QED
        BY <3>1 DEF Entry
    <2>5. CASE e.variant \in DOMAIN Alias
      BY <1>1, <2>3, <2>4, <2>5, AliasServed
    <2>6. CASE e.variant \notin DOMAIN Alias
      BY <1>1, <2>3, <2>4, <2>6, NameServed
    <2>7. QED
      BY <2>5, <2>6
  <1>2. QED
    BY <1>1 DEF ListedIsServed, Servable

(* A model that GET /v1/models lists is offered by the provider it is      *)
(* listed under when it is asked for by the name listed, whatever the keys *)
(* and the blocks are, as long as the names in play are such that the list *)
(* can rely on them.                                                       *)
THEOREM ListedAreServed ==
    ASSUME ServableNames
    PROVE  Spec => []ListedIsServed
  <1>1. Spec => []Typed
    BY TypedAlways
  <1>2. Spec => []Stocked
    BY StockedAlways
  <1>3. Typed /\ Stocked => ListedIsServed
    BY ServedAsListed
  <1>4. QED
    BY <1>1, <1>2, <1>3, PTL

=============================================================================
