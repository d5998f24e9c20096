-------------------------- MODULE ModelRouterProofs --------------------------
(***************************************************************************)
(* What is proved of ModelRouter for every set of providers, keys, models  *)
(* and requests.  Requests meet only in `blocked` and `cooling`, which     *)
(* nothing but the selection reads, so RouterInv is an invariant of each   *)
(* handler by itself (HandlerInv) and one lemma per kind of step shows     *)
(* that the handler it leaves behind satisfies it.                         *)
(***************************************************************************)
EXTENDS ModelRouter, TLAPS

(* RouterInv, for one handler. *)
Exhausted(h) ==
    h.reply = "error" =>
        /\ FreeRoundOver(h)
        /\ ServerError(h.error) => RescueOver(h)
        /\ h.error = "rate_limited" => PaidOver(h)

PaidLast(h) ==
    \A d \in h.asked : ~IsFree(d) =>
        /\ Owner[d[1]] \in Covered(h)
        /\ \E f \in h.asked : IsFree(f)
        /\ h.error = "rate_limited"
        /\ FreeRoundOver(h) /\ RescueOver(h)

Settled(h) ==
    h.unsettled = (h.excused \cap h.asked) \cup {d \in {h.at} : d # None}

HandlerInv(h) ==
    /\ h \in Handler
    /\ RoundsInOrder(h) /\ AttemptsTracked(h) /\ SlotInUse(h)
    /\ Exhausted(h) /\ PaidLast(h) /\ Settled(h)

SharedOK == blocked \subseteq Provider \X Model /\ cooling \subseteq Deployment

(* The invariant is the conjunction of its handlers'. *)
LEMMA ByHandler ==
    RouterInv <=> /\ SharedOK
                  /\ req = [r \in Request |-> req[r]]
                  /\ \A r \in Request : HandlerInv(req[r])
  BY DEF RouterInv, TypeOK, SharedOK, HandlerInv, Exhausted, PaidLast, Settled,
         ExhaustedBeforeError, PaidIsLastResort, ReservationsAreSettled

(* A step that leaves one handler good and the others alone is a good one. *)
LEMMA Lift ==
    ASSUME RouterInv, NEW r \in Request, NEW g, Become(r, g), HandlerInv(g), SharedOK'
    PROVE  RouterInv'
  <1>1. /\ req = [q \in Request |-> req[q]]
        /\ \A q \in Request : HandlerInv(req[q])
    BY ByHandler
  <1>2. /\ req' = [q \in Request |-> req'[q]]
        /\ \A q \in Request : req'[q] = IF q = r THEN g ELSE req[q]
    BY <1>1 DEF Become
  <1>3. \A q \in Request : HandlerInv(req'[q])
    BY <1>1, <1>2
  <1>4. QED
    BY <1>2, <1>3
    DEF RouterInv, TypeOK, SharedOK, HandlerInv, Exhausted, PaidLast, Settled,
        ExhaustedBeforeError, PaidIsLastResort, ReservationsAreSettled

(* A handler that is about to begin. *)
LEMMA FreshHandler ==
    ASSUME NEW s \in BOOLEAN
    PROVE  HandlerInv(Fresh(s))
  BY RouterAssumption
  DEF Fresh, HandlerInv, Handler, RoundsInOrder, AttemptsTracked, SlotInUse,
      Exhausted, PaidLast, Settled

(* The fields that ask what is left of a round read. *)
LEMMA Leftovers ==
    ASSUME NEW h, NEW g, g.selected = h.selected
    PROVE  /\ Covered(g) = Covered(h)
           /\ g.asked = h.asked /\ g.refused = h.refused /\ g.invalid = h.invalid
              => Remaining(g) = Remaining(h)
           /\ g.tried = h.tried => RescueLeft(g) = RescueLeft(h) /\ PaidLeft(g) = PaidLeft(h)
  BY DEF Covered, Remaining, RescueLeft, PaidLeft

(* Selection: the candidates are free, so the first round may begin. *)
LEMMA SelectStep ==
    ASSUME NEW h, HandlerInv(h), h.phase \in {"idle", "discover"},
           NEW c \in SUBSET (FreeKey \X Model)
    PROVE  /\ HandlerInv([h EXCEPT !.phase = "free", !.selected = c])
           /\ HandlerInv([h EXCEPT !.phase = "discover"])
           /\ HandlerInv([h EXCEPT !.phase = "done", !.reply = "not_found"])
  <1>1. c \subseteq Deployment
    BY RouterAssumption DEF Deployment
  <1>2. QED
    BY <1>1
    DEF HandlerInv, Handler, RoundsInOrder, AttemptsTracked, SlotInUse,
        Exhausted, PaidLast, Settled

(* An attempt of any round is new, and it belongs to that round. *)
LEMMA TurnIsNew ==
    ASSUME NEW h, HandlerInv(h), InRound(h), NEW d \in Turn(h)
    PROVE  /\ d \in Deployment /\ d \notin h.asked
           /\ IsFree(d) => Route(d) \notin h.invalid
           /\ h.phase = "free" => d \in h.selected /\ IsFree(d)
           /\ h.phase = "rescue" => IsFree(d) /\ Owner[d[1]] \in RescueLeft(h)
           /\ h.phase = "paid" => ~IsFree(d) /\ Owner[d[1]] \in PaidLeft(h)
  <1> USE RouterAssumption DEF HandlerInv, InRound, Turn, Deployment, IsFree
  <1>1. CASE h.phase = "free"
    BY <1>1 DEF Remaining, AttemptsTracked
  <1>2. CASE h.phase = "rescue"
    <2>1. d \in FreeKey \X {Wanted} /\ Owner[d[1]] \in RescueLeft(h)
      BY <1>2
    <2>2. d \notin h.selected
      BY <2>1 DEF RescueLeft, Covered
    <2>3. d \notin h.asked
      BY <2>1, <2>2 DEF RescueLeft, AttemptsTracked
    <2>4. Route(d) \notin h.invalid
      <3>1. SUFFICES ASSUME NEW f \in h.selected, Route(d) = Route(f)
                     PROVE  FALSE
        BY DEF AttemptsTracked
      <3>2. Owner[d[1]] = Owner[f[1]]
        BY <3>1 DEF Route
      <3>3. QED
        BY <2>1, <3>2 DEF RescueLeft, Covered
    <2>5. QED
      BY <1>2, <2>1, <2>3, <2>4
  <1>3. CASE h.phase = "paid"
    <2>1. d \in (Key \ FreeKey) \X {Wanted} /\ Owner[d[1]] \in PaidLeft(h)
      BY <1>3
    <2>2. d \notin h.selected
      BY <2>1 DEF AttemptsTracked
    <2>3. d \notin h.asked
      BY <2>1, <2>2 DEF PaidLeft, AttemptsTracked
    <2>4. QED
      BY <1>3, <2>1, <2>3
  <1>4. QED
    BY <1>1, <1>2, <1>3

(* The handler after d has been sent. *)
Asked(h, d) ==
    [h EXCEPT !.at = d,
              !.asked = @ \cup {d},
              !.unsettled = @ \cup {d},
              !.tried = IF h.phase = "free" THEN @ ELSE @ \cup {Owner[d[1]]}]

(* Sending an attempt. *)
LEMMA AskStep ==
    ASSUME NEW h, HandlerInv(h), InRound(h), NEW d \in Turn(h)
    PROVE  HandlerInv(Asked(h, d))
  <1> DEFINE g == Asked(h, d)
  <1>1. /\ d \in Deployment /\ d \notin h.asked
        /\ h.phase = "free" => d \in h.selected /\ IsFree(d)
        /\ h.phase = "rescue" => IsFree(d) /\ Owner[d[1]] \in RescueLeft(h)
        /\ h.phase = "paid" => ~IsFree(d) /\ Owner[d[1]] \in PaidLeft(h)
    BY TurnIsNew
  <1>2. /\ h \in Handler /\ h.phase \in {"free", "rescue", "paid"} /\ h.at = None
        /\ d # None /\ Owner[d[1]] \in Provider
    BY <1>1, RouterAssumption DEF HandlerInv, InRound, Deployment
  <1>3. /\ g \in Handler
        /\ g.phase = h.phase /\ g.selected = h.selected /\ g.refused = h.refused
        /\ g.invalid = h.invalid /\ g.error = h.error /\ g.excused = h.excused
        /\ g.reply = h.reply /\ g.at = d /\ g.asked = h.asked \cup {d}
        /\ g.unsettled = h.unsettled \cup {d}
        /\ h.tried \subseteq g.tried
        /\ g.phase = "free" => g.tried = h.tried
        /\ g.phase # "free" => g.tried = h.tried \cup {Owner[d[1]]}
    BY <1>1, <1>2 DEF Handler, Asked
  <1> HIDE DEF g
  <1>4. Covered(g) = Covered(h) /\ Remaining(g) \subseteq Remaining(h)
        /\ RescueLeft(g) \subseteq RescueLeft(h)
    BY <1>3 DEF Covered, Remaining, RescueLeft
  <1>5. RoundsInOrder(g)
    BY <1>1, <1>2, <1>3, <1>4 DEF HandlerInv, RoundsInOrder
  <1>6. AttemptsTracked(g)
    BY <1>1, <1>2, <1>3 DEF HandlerInv, AttemptsTracked
  <1>7. SlotInUse(g)
    BY <1>1, <1>2, <1>3 DEF HandlerInv, SlotInUse
  <1>8. Exhausted(g)
    BY <1>2, <1>3 DEF HandlerInv, RoundsInOrder, Exhausted
  <1>9. PaidLast(g)
    <2>1. \A x \in h.asked : ~IsFree(x) =>
             /\ Owner[x[1]] \in Covered(g)
             /\ \E f \in g.asked : IsFree(f)
             /\ g.error = "rate_limited"
             /\ FreeRoundOver(g) /\ RescueOver(g)
      BY <1>3, <1>4 DEF HandlerInv, PaidLast, FreeRoundOver, RescueOver
    <2>2. ~IsFree(d) => /\ Owner[d[1]] \in Covered(g)
                        /\ \E f \in g.asked : IsFree(f)
                        /\ g.error = "rate_limited"
                        /\ FreeRoundOver(g) /\ RescueOver(g)
      <3>1. SUFFICES ASSUME h.phase = "paid"
                     PROVE  /\ Owner[d[1]] \in Covered(g)
                            /\ \E f \in g.asked : IsFree(f)
                            /\ g.error = "rate_limited"
                            /\ FreeRoundOver(g) /\ RescueOver(g)
        BY <1>1, <1>2
      <3>2. Remaining(h) = {} /\ RescueLeft(h) = {} /\ h.error = "rate_limited"
        BY <3>1 DEF HandlerInv, RoundsInOrder
      <3>3. \E f \in h.asked : IsFree(f)
        BY <3>2, RouterAssumption DEF HandlerInv, RoundsInOrder, Error
      <3>4. QED
        BY <1>1, <1>3, <1>4, <3>1, <3>2, <3>3 DEF PaidLeft, FreeRoundOver, RescueOver
    <2>3. QED
      BY <1>3, <2>1, <2>2 DEF PaidLast
  <1>10. Settled(g)
    BY <1>1, <1>2, <1>3 DEF HandlerInv, Settled, SlotInUse
  <1>11. QED
    BY <1>3, <1>5, <1>6, <1>7, <1>8, <1>9, <1>10 DEF HandlerInv, g

(* A candidate the pool refuses, a provider without a key. *)
LEMMA SkipStep ==
    ASSUME NEW h, HandlerInv(h), InRound(h)
    PROVE  /\ \A d \in Deployment : h.phase = "free" =>
                  HandlerInv([h EXCEPT !.refused = @ \cup {d}])
           /\ \A p \in Provider : h.phase \in {"rescue", "paid"} =>
                  HandlerInv([h EXCEPT !.tried = @ \cup {p}])
  <1>1. ASSUME NEW d \in Deployment, h.phase = "free"
        PROVE  HandlerInv([h EXCEPT !.refused = @ \cup {d}])
    <2> DEFINE g == [h EXCEPT !.refused = @ \cup {d}]
    <2>1. /\ g \in Handler
          /\ g.phase = "free" /\ g.selected = h.selected /\ g.asked = h.asked
          /\ g.invalid = h.invalid /\ g.error = h.error /\ g.excused = h.excused
          /\ g.reply = h.reply /\ g.at = h.at /\ g.unsettled = h.unsettled
          /\ g.tried = h.tried
      BY <1>1 DEF HandlerInv, Handler
    <2> HIDE DEF g
    <2>2. RoundsInOrder(g) /\ AttemptsTracked(g) /\ SlotInUse(g) /\ Settled(g)
      BY <1>1, <2>1
      DEF HandlerInv, RoundsInOrder, AttemptsTracked, SlotInUse, Settled
    <2>3. Exhausted(g) /\ PaidLast(g)
      BY <1>1, <2>1, <2>2 DEF RoundsInOrder, AttemptsTracked, Exhausted, PaidLast
    <2>4. QED
      BY <2>1, <2>2, <2>3 DEF HandlerInv, g
  <1>2. ASSUME NEW p \in Provider, h.phase \in {"rescue", "paid"}
        PROVE  HandlerInv([h EXCEPT !.tried = @ \cup {p}])
    <2> DEFINE g == [h EXCEPT !.tried = @ \cup {p}]
    <2>1. /\ g \in Handler
          /\ g.phase = h.phase /\ g.selected = h.selected /\ g.asked = h.asked
          /\ g.refused = h.refused
          /\ g.invalid = h.invalid /\ g.error = h.error /\ g.excused = h.excused
          /\ g.reply = h.reply /\ g.at = h.at /\ g.unsettled = h.unsettled
          /\ g.tried = h.tried \cup {p}
      BY <1>2 DEF HandlerInv, Handler
    <2> HIDE DEF g
    <2>2. Covered(g) = Covered(h) /\ Remaining(g) = Remaining(h)
          /\ RescueLeft(g) \subseteq RescueLeft(h)
      BY <2>1 DEF Covered, Remaining, RescueLeft
    <2>3. RoundsInOrder(g) /\ AttemptsTracked(g) /\ SlotInUse(g) /\ Settled(g)
      BY <1>2, <2>1, <2>2
      DEF HandlerInv, RoundsInOrder, AttemptsTracked, SlotInUse, Settled
    <2>4. Exhausted(g)
      BY <1>2, <2>1, <2>3 DEF RoundsInOrder, Exhausted
    <2>5. PaidLast(g)
      BY <2>1, <2>2 DEF HandlerInv, PaidLast, FreeRoundOver, RescueOver
    <2>6. QED
      BY <2>1, <2>3, <2>4, <2>5 DEF HandlerInv, g
  <1>3. QED
    BY <1>1, <1>2

(* A handler that changes only in its phase, its reply, its slot and what  *)
(* is unsettled or excused has the same rounds behind it.                  *)
LEMMA SameRounds ==
    ASSUME NEW h, HandlerInv(h), NEW g, g \in Handler,
           g.selected = h.selected, g.asked = h.asked, g.refused = h.refused,
           g.invalid = h.invalid, g.error = h.error, g.tried = h.tried
    PROVE  /\ Covered(g) = Covered(h) /\ Remaining(g) = Remaining(h)
           /\ RescueLeft(g) = RescueLeft(h) /\ PaidLeft(g) = PaidLeft(h)
           /\ PaidLast(g)
           /\ g.error # None => \E f \in g.asked : IsFree(f)
           /\ g.phase \notin {"free", "rescue"} => AttemptsTracked(g)
           /\ g.phase = h.phase => AttemptsTracked(g)
  <1>1. /\ Covered(g) = Covered(h) /\ Remaining(g) = Remaining(h)
        /\ RescueLeft(g) = RescueLeft(h) /\ PaidLeft(g) = PaidLeft(h)
    BY DEF Covered, Remaining, RescueLeft, PaidLeft
  <1>2. PaidLast(g)
    BY <1>1 DEF HandlerInv, PaidLast, FreeRoundOver, RescueOver
  <1>3. QED
    BY <1>1, <1>2 DEF HandlerInv, RoundsInOrder, AttemptsTracked

(* The end of a round: each exit has the rounds behind it that the next    *)
(* round, or the error, needs.                                             *)
LEMMA AdvanceStep ==
    ASSUME NEW h, HandlerInv(h), InRound(h)
    PROVE  /\ h.phase = "free" /\ Remaining(h) = {} /\ ServerError(h.error)
              => HandlerInv([h EXCEPT !.phase = "rescue"])
           /\ h.phase = "free" /\ Remaining(h) = {} /\ ~ServerError(h.error)
              => HandlerInv(GivenUp(h))
           /\ h.phase = "rescue" /\ RescueLeft(h) = {} /\ h.error = "rate_limited"
              => HandlerInv([h EXCEPT !.phase = "paid"])
           /\ h.phase = "rescue" /\ RescueLeft(h) = {} /\ h.error # "rate_limited"
              => HandlerInv(GivenUp(h))
           /\ h.phase = "paid" /\ PaidLeft(h) = {} => HandlerInv(GivenUp(h))
  <1> USE DEF HandlerInv
  <1>1. ASSUME h.phase = "free", Remaining(h) = {}, ServerError(h.error)
        PROVE  HandlerInv([h EXCEPT !.phase = "rescue"])
    <2> DEFINE g == [h EXCEPT !.phase = "rescue"]
    <2>1. g \in Handler
      BY DEF Handler
    <2>2. Remaining(g) = {} /\ PaidLast(g) /\ (g.error # None => \E f \in g.asked : IsFree(f))
      BY <1>1, <2>1, SameRounds DEF Handler
    <2>3. RoundsInOrder(g) /\ AttemptsTracked(g)
      BY <1>1, <2>2 DEF RoundsInOrder, AttemptsTracked, Handler
    <2>4. SlotInUse(g) /\ Settled(g) /\ Exhausted(g)
      BY <1>1 DEF SlotInUse, Settled, Exhausted, Handler, InRound, RoundsInOrder
    <2>5. QED
      BY <2>1, <2>2, <2>3, <2>4
  <1>2. ASSUME h.phase = "rescue", RescueLeft(h) = {}, h.error = "rate_limited"
        PROVE  HandlerInv([h EXCEPT !.phase = "paid"])
    <2> DEFINE g == [h EXCEPT !.phase = "paid"]
    <2>1. g \in Handler
      BY DEF Handler
    <2>2. /\ Remaining(g) = Remaining(h) /\ RescueLeft(g) = {} /\ PaidLast(g)
          /\ AttemptsTracked(g) /\ (g.error # None => \E f \in g.asked : IsFree(f))
      BY <1>2, <2>1, SameRounds DEF Handler
    <2>3. RoundsInOrder(g)
      BY <1>2, <2>2 DEF RoundsInOrder, Handler
    <2>4. SlotInUse(g) /\ Settled(g) /\ Exhausted(g)
      BY <1>2 DEF SlotInUse, Settled, Exhausted, Handler, InRound, RoundsInOrder
    <2>5. QED
      BY <2>1, <2>2, <2>3, <2>4
  <1>3. ASSUME Remaining(h) = {},
               ServerError(h.error) => RescueLeft(h) = {},
               h.error = "rate_limited" => PaidLeft(h) = {}
        PROVE  HandlerInv(GivenUp(h))
    <2> DEFINE g == GivenUp(h)
    <2>1. /\ g \in Handler /\ g.phase = "done" /\ g.reply = "error"
          /\ g.selected = h.selected /\ g.asked = h.asked /\ g.refused = h.refused
          /\ g.invalid = h.invalid /\ g.error = h.error /\ g.tried = h.tried
          /\ g.at = h.at /\ g.unsettled = h.unsettled /\ g.excused = h.excused
      BY DEF Handler, GivenUp
    <2> HIDE DEF g
    <2>2. /\ Remaining(g) = Remaining(h) /\ RescueLeft(g) = RescueLeft(h)
          /\ PaidLeft(g) = PaidLeft(h) /\ PaidLast(g) /\ AttemptsTracked(g)
          /\ (g.error # None => \E f \in g.asked : IsFree(f))
      BY <2>1, SameRounds
    <2>3. RoundsInOrder(g) /\ SlotInUse(g) /\ Settled(g)
      BY <2>1, <2>2 DEF RoundsInOrder, SlotInUse, Settled, InRound
    <2>4. Exhausted(g)
      BY <1>3, <2>1, <2>2 DEF Exhausted, FreeRoundOver, RescueOver, PaidOver
    <2>5. QED
      BY <2>1, <2>2, <2>3, <2>4 DEF g
  <1>4. /\ h.phase = "rescue" => Remaining(h) = {} /\ ServerError(h.error)
        /\ h.phase = "paid" => /\ Remaining(h) = {} /\ RescueLeft(h) = {}
                               /\ h.error = "rate_limited"
        /\ h.error = "rate_limited" => ServerError(h.error)
    BY DEF RoundsInOrder, ServerError
  <1>5. QED
    BY <1>1, <1>2, <1>3, <1>4

(* A failed attempt.  Only the first round moves the error and the invalid *)
(* models, and what it has left over can only shrink.                      *)
LEMMA FailStep ==
    ASSUME NEW h, HandlerInv(h), h.at # None, h.phase # "streaming", NEW e \in Error
    PROVE  HandlerInv(AfterFailure(h, e))
  <1> DEFINE g == AfterFailure(h, e)
  <1>1. /\ h \in Handler /\ h.at \in h.asked /\ h.at \notin h.excused
        /\ h.at \in Deployment /\ h.phase \in {"free", "rescue", "paid"}
        /\ Route(h.at) \in Provider \X Model /\ None \notin Error
    BY RouterAssumption
    DEF HandlerInv, SlotInUse, Handler, Deployment, Route
  <1>2. /\ g \in Handler
        /\ g.phase = h.phase /\ g.selected = h.selected /\ g.asked = h.asked
        /\ g.refused = h.refused /\ g.tried = h.tried /\ g.reply = h.reply
        /\ g.at = None
        /\ g.error = IF h.phase = "free" THEN e ELSE h.error
        /\ g.invalid = IF h.phase = "free" /\ e = "model_mismatch"
                       THEN h.invalid \cup {Route(h.at)} ELSE h.invalid
        /\ \/ g.unsettled = h.unsettled \ {h.at} /\ g.excused = h.excused
           \/ g.unsettled = h.unsettled /\ g.excused = h.excused \cup {h.at}
    BY <1>1 DEF AfterFailure, Handler
  <1> HIDE DEF g
  <1>3. SlotInUse(g) /\ Settled(g)
    BY <1>1, <1>2 DEF HandlerInv, SlotInUse, Settled
  <1>4. Exhausted(g)
    BY <1>1, <1>2 DEF HandlerInv, RoundsInOrder, Exhausted
  <1>5. CASE h.phase = "free"
    <2>1. h.at \in h.selected /\ \A d \in h.asked : IsFree(d)
      BY <1>1, <1>5 DEF HandlerInv, RoundsInOrder, AttemptsTracked
    <2>2. RoundsInOrder(g) /\ AttemptsTracked(g) /\ PaidLast(g)
      BY <1>1, <1>2, <1>5, <2>1
      DEF HandlerInv, RoundsInOrder, AttemptsTracked, PaidLast
    <2>3. QED
      BY <1>2, <1>3, <1>4, <2>2 DEF HandlerInv, g
  <1>6. CASE h.phase # "free"
    <2>1. g.error = h.error /\ g.invalid = h.invalid
      BY <1>2, <1>6
    <2>2. /\ Remaining(g) = Remaining(h) /\ RescueLeft(g) = RescueLeft(h)
          /\ PaidLast(g) /\ AttemptsTracked(g)
          /\ (g.error # None => \E f \in g.asked : IsFree(f))
      BY <1>2, <2>1, SameRounds
    <2>3. RoundsInOrder(g)
      BY <1>1, <1>2, <2>1, <2>2 DEF HandlerInv, RoundsInOrder
    <2>4. QED
      BY <1>2, <1>3, <1>4, <2>2, <2>3 DEF HandlerInv, g
  <1>7. QED
    BY <1>5, <1>6

(* Whatever ends the handler, other than giving up, leaves the rounds      *)
(* alone: the slot is settled, or excused with the handler.                *)
LEMMA EndStep ==
    ASSUME NEW h, HandlerInv(h), h.phase = "discover" \/ h.at # None,
           NEW y \in {"none", "answer", "stream", "not_found", "dropped"}
    PROVE  /\ h.at # None => HandlerInv([h EXCEPT !.phase = "done", !.reply = y, !.at = None,
                                                  !.unsettled = @ \ {h.at}])
           /\ HandlerInv([h EXCEPT !.phase = "done", !.at = None, !.reply = y,
                                   !.excused = @ \cup h.unsettled])
  <1>1. ASSUME NEW g \in Handler, g.phase = "done", g.reply = y, g.at = None,
               g.selected = h.selected, g.asked = h.asked, g.refused = h.refused,
               g.invalid = h.invalid, g.error = h.error, g.tried = h.tried,
               g.excused \subseteq g.asked, Settled(g)
        PROVE  HandlerInv(g)
    <2>1. /\ PaidLast(g) /\ AttemptsTracked(g)
          /\ (g.error # None => \E f \in g.asked : IsFree(f))
      BY <1>1, SameRounds
    <2>2. QED
      BY <1>1, <2>1 DEF HandlerInv, RoundsInOrder, SlotInUse, Exhausted
  <1>2. h \in Handler /\ h.excused \subseteq h.asked /\ h.unsettled \subseteq h.asked
    BY DEF HandlerInv, SlotInUse, Settled
  <1>3. ASSUME h.at # None
        PROVE  HandlerInv([h EXCEPT !.phase = "done", !.reply = y, !.at = None,
                                    !.unsettled = @ \ {h.at}])
    <2> DEFINE g == [h EXCEPT !.phase = "done", !.reply = y, !.at = None,
                              !.unsettled = @ \ {h.at}]
    <2>1. g \in Handler
      BY <1>2 DEF Handler
    <2>2. h.at \notin h.excused
      BY <1>3 DEF HandlerInv, SlotInUse
    <2>3. Settled(g)
      BY <1>2, <1>3, <2>2 DEF HandlerInv, Settled, Handler
    <2>4. QED
      BY <1>1, <1>2, <2>1, <2>3 DEF Handler
  <1>4. HandlerInv([h EXCEPT !.phase = "done", !.at = None, !.reply = y,
                             !.excused = @ \cup h.unsettled])
    <2> DEFINE g == [h EXCEPT !.phase = "done", !.at = None, !.reply = y,
                              !.excused = @ \cup h.unsettled]
    <2>1. g \in Handler
      BY <1>2 DEF Handler
    <2>2. g.unsettled = h.unsettled /\ g.excused = h.excused \cup h.unsettled
          /\ g.asked = h.asked /\ g.at = None
      BY <1>2 DEF Handler
    <2>3. Settled(g)
      BY <1>2, <2>2 DEF HandlerInv, Settled
    <2>4. QED
      BY <1>1, <1>2, <2>1, <2>2, <2>3 DEF Handler
  <1>5. QED
    BY <1>3, <1>4

(* The stream is handed to the client with its slot still in use. *)
LEMMA StreamStep ==
    ASSUME NEW h, HandlerInv(h), h.at # None
    PROVE  HandlerInv([h EXCEPT !.phase = "streaming", !.reply = "stream"])
  <1> DEFINE g == [h EXCEPT !.phase = "streaming", !.reply = "stream"]
  <1>1. /\ g \in Handler /\ g.phase = "streaming" /\ g.reply = "stream"
        /\ g.selected = h.selected /\ g.asked = h.asked /\ g.refused = h.refused
        /\ g.invalid = h.invalid /\ g.error = h.error /\ g.tried = h.tried
        /\ g.at = h.at /\ g.unsettled = h.unsettled /\ g.excused = h.excused
    BY DEF HandlerInv, Handler
  <1> HIDE DEF g
  <1>2. PaidLast(g) /\ AttemptsTracked(g) /\ (g.error # None => \E f \in g.asked : IsFree(f))
    BY <1>1, SameRounds
  <1>3. QED
    BY <1>1, <1>2
    DEF HandlerInv, RoundsInOrder, SlotInUse, Exhausted, Settled, g

-----------------------------------------------------------------------------

(* The first state of every handler is fresh. *)
LEMMA RouterInit == Init => RouterInv
  <1>1. ASSUME Init PROVE RouterInv
    <2>1. PICK s \in [Request -> BOOLEAN] : req = [r \in Request |-> Fresh(s[r])]
      BY <1>1 DEF Init
    <2>2. \A r \in Request : HandlerInv(req[r])
      BY <2>1, FreshHandler
    <2>3. SharedOK
      BY <1>1 DEF Init, SharedOK
    <2>4. QED
      BY <2>1, <2>2, <2>3, ByHandler
  <1>2. QED
    BY <1>1

(* The steps of a handler between its attempts. *)
LEMMA HandleSteps ==
    ASSUME RouterInv, NEW r \in Request, Handle(r)
    PROVE  RouterInv'
  <1> DEFINE h == req[r]
  <1>1. HandlerInv(h) /\ SharedOK
    BY ByHandler
  <1>2. CASE Select(r) \/ SelectAgain(r)
    <2>1. PICK offered \in SUBSET (FreeKey \X Model) :
              \/ Become(r, [h EXCEPT !.phase = "free", !.selected = Candidates(offered)])
              \/ Become(r, [h EXCEPT !.phase = "discover"])
              \/ Become(r, [h EXCEPT !.phase = "done", !.reply = "not_found"])
      BY <1>2 DEF Select, SelectAgain
    <2>2. Candidates(offered) \in SUBSET (FreeKey \X Model)
      BY DEF Candidates
    <2>3. h.phase \in {"idle", "discover"} /\ SharedOK'
      BY <1>1, <1>2 DEF Select, SelectAgain, SharedOK
    <2>4. QED
      BY <1>1, <2>1, <2>2, <2>3, SelectStep, Lift
  <1>3. CASE Advance(r)
    <2>1. SharedOK' /\ InRound(h)
      BY <1>1, <1>3 DEF Advance, SharedOK
    <2>2. \/ /\ h.phase = "free" /\ Remaining(h) = {}
             /\ Become(r, IF ServerError(h.error) THEN [h EXCEPT !.phase = "rescue"]
                                                  ELSE GivenUp(h))
          \/ /\ h.phase = "rescue" /\ RescueLeft(h) = {}
             /\ Become(r, IF h.error = "rate_limited" THEN [h EXCEPT !.phase = "paid"]
                                                      ELSE GivenUp(h))
          \/ h.phase = "paid" /\ PaidLeft(h) = {} /\ Become(r, GivenUp(h))
      BY <1>3 DEF Advance
    <2>3. QED
      BY <1>1, <2>1, <2>2, AdvanceStep, Lift
  <1>4. ASSUME NEW d \in Deployment, Ask(r, d)
        PROVE  RouterInv'
    <2>1. SharedOK' /\ InRound(h) /\ d \in Turn(h) /\ Become(r, Asked(h, d))
      BY <1>1, <1>4 DEF Ask, Asked, SharedOK
    <2>2. QED
      BY <1>1, <2>1, AskStep, Lift
  <1>5. ASSUME NEW d \in Deployment, Refused(r, d)
        PROVE  RouterInv'
    <2>1. /\ SharedOK' /\ InRound(h) /\ h.phase = "free"
          /\ Become(r, [h EXCEPT !.refused = @ \cup {d}])
      BY <1>1, <1>5 DEF Refused, SharedOK
    <2>2. QED
      BY <1>1, <2>1, SkipStep, Lift
  <1>6. ASSUME NEW p \in Provider, PassOver(r, p)
        PROVE  RouterInv'
    <2>1. /\ SharedOK' /\ InRound(h) /\ h.phase \in {"rescue", "paid"}
          /\ Become(r, [h EXCEPT !.tried = @ \cup {p}])
      BY <1>1, <1>6 DEF PassOver, SharedOK
    <2>2. QED
      BY <1>1, <2>1, SkipStep, Lift
  <1>7. QED
    BY <1>2, <1>3, <1>4, <1>5, <1>6 DEF Handle

(* What becomes of an attempt. *)
LEMMA OutcomeSteps ==
    ASSUME RouterInv, NEW r \in Request,
           Upstream(r) \/ StreamEnds(r) \/ StreamBreaks(r) \/ Dropped(r)
    PROVE  RouterInv'
  <1> DEFINE h == req[r]
  <1>1. HandlerInv(h) /\ SharedOK /\ h \in Handler
    BY ByHandler DEF HandlerInv
  <1>2. h.phase = "streaming" => h.at # None
    BY <1>1 DEF HandlerInv, SlotInUse
  <1>3. ASSUME NEW e \in Error, Fails(r, e)
        PROVE  RouterInv'
    <2>1. SharedOK'
      BY <1>1, <1>3 DEF Fails, Cooled, SharedOK, Handler
    <2>2. h.at # None /\ h.phase # "streaming" /\ Become(r, AfterFailure(h, e))
      BY <1>3 DEF Fails
    <2>3. QED
      BY <1>1, <2>1, <2>2, FailStep, Lift
  <1>4. CASE EmptyAnswer(r)
    <2>1. SharedOK'
      BY <1>1, <1>4 DEF EmptyAnswer, SharedOK, Handler
    <2>2. /\ h.at # None /\ h.phase # "streaming"
          /\ Become(r, AfterFailure(h, "server_error"))
      BY <1>4 DEF EmptyAnswer
    <2>3. QED
      BY <1>1, <2>1, <2>2, FailStep, Lift DEF Error
  <1>5. CASE Answers(r)
    <2>1. SharedOK'
      BY <1>1, <1>5 DEF Answers, SharedOK
    <2>2. /\ h.at # None
          /\ Become(r, [h EXCEPT !.phase = "done", !.reply = "answer", !.at = None,
                                 !.unsettled = @ \ {h.at}])
      BY <1>5 DEF Answers
    <2>3. QED
      BY <1>1, <2>1, <2>2, EndStep, Lift
  <1>6. CASE StreamOpens(r)
    <2>1. /\ SharedOK' /\ h.at # None
          /\ Become(r, [h EXCEPT !.phase = "streaming", !.reply = "stream"])
      BY <1>1, <1>6 DEF StreamOpens, SharedOK
    <2>2. QED
      BY <1>1, <2>1, StreamStep, Lift
  <1>7. h.phase = "streaming" \/ h.at # None =>
            h.reply \in {"none", "answer", "stream", "not_found", "dropped"}
    BY <1>1 DEF HandlerInv, RoundsInOrder, SlotInUse, Handler
  <1>8. CASE StreamEnds(r) \/ StreamBreaks(r)
    <2>1. /\ h.phase = "streaming"
          /\ SharedOK'
          /\ Become(r, [h EXCEPT !.phase = "done", !.at = None, !.unsettled = @ \ {h.at}])
      BY <1>1, <1>8 DEF StreamEnds, StreamBreaks, SharedOK
    <2>2. [h EXCEPT !.phase = "done", !.at = None, !.unsettled = @ \ {h.at}]
          = [h EXCEPT !.phase = "done", !.reply = h.reply, !.at = None,
                      !.unsettled = @ \ {h.at}]
      BY <1>1 DEF Handler
    <2>3. QED
      BY <1>1, <1>2, <1>7, <2>1, <2>2, EndStep, Lift
  <1>9. CASE Dropped(r)
    <2> DEFINE y == IF h.phase = "streaming" THEN h.reply ELSE "dropped"
    <2>1. /\ h.phase = "discover" \/ h.at # None
          /\ SharedOK'
          /\ Become(r, [h EXCEPT !.phase = "done", !.at = None, !.reply = y,
                                 !.excused = @ \cup h.unsettled])
      BY <1>1, <1>9 DEF Dropped, SharedOK, Handler
    <2>2. y \in {"none", "answer", "stream", "not_found", "dropped"}
      BY <1>7
    <2>3. HandlerInv([h EXCEPT !.phase = "done", !.at = None, !.reply = y,
                               !.excused = @ \cup h.unsettled])
      BY <1>1, <2>1, <2>2, EndStep
    <2>4. QED
      BY <2>1, <2>3, Lift
  <1>10. QED
    BY <1>3, <1>4, <1>5, <1>6, <1>8, <1>9 DEF Upstream

(* Every step of the router preserves the invariant. *)
LEMMA RouterStep == RouterInv /\ [Next]_vars => RouterInv'
  <1> SUFFICES ASSUME RouterInv, [Next]_vars PROVE RouterInv'
    OBVIOUS
  <1>1. SharedOK
    BY ByHandler
  <1>2. ASSUME NEW r \in Request, NEW s \in BOOLEAN, Arrive(r, s)
        PROVE  RouterInv'
    <2>1. SharedOK' /\ Become(r, Fresh(s))
      BY <1>1, <1>2 DEF Arrive, SharedOK
    <2>2. QED
      BY <2>1, FreshHandler, Lift
  <1>3. ASSUME req' = req, SharedOK'
        PROVE  RouterInv'
    BY <1>3
    DEF RouterInv, TypeOK, SharedOK, ExhaustedBeforeError, PaidIsLastResort,
        ReservationsAreSettled
  <1>4. ASSUME NEW p \in Provider, NEW m \in Model, Toggle(p, m)
        PROVE  RouterInv'
    BY <1>1, <1>3, <1>4 DEF Toggle, SharedOK
  <1>5. ASSUME NEW d \in Deployment, Thaw(d)
        PROVE  RouterInv'
    BY <1>1, <1>3, <1>5 DEF Thaw, SharedOK
  <1>6. CASE UNCHANGED vars
    BY <1>1, <1>3, <1>6 DEF vars, SharedOK
  <1>7. QED
    BY <1>2, <1>4, <1>5, <1>6, HandleSteps, OutcomeSteps DEF Next

(* The invariant of the router, for all its constants: types, the order of *)
(* the rounds, and the three properties below.                             *)
THEOREM RouterInvariance == Spec => []RouterInv
  BY RouterInit, RouterStep, PTL DEF Spec

(* No free candidate and, after the server's own errors, no other provider *)
(* is left out before the client gets an error (the loops of chat).        *)
THEOREM NothingLeftOut == Spec => []ExhaustedBeforeError
  <1>1. RouterInv => ExhaustedBeforeError
    BY DEF RouterInv
  <1>2. QED
    BY <1>1, RouterInvariance, PTL

(* Paid keys come last (the paid escalation of chat).                      *)
THEOREM PaidLastResort == Spec => []PaidIsLastResort
  <1>1. RouterInv => PaidIsLastResort
    BY DEF RouterInv
  <1>2. QED
    BY <1>1, RouterInvariance, PTL

(* Every reservation is reported, under way or excused (the report calls   *)
(* of chat, chat_stream and account_stream).                               *)
THEOREM AllSettled == Spec => []ReservationsAreSettled
  <1>1. RouterInv => ReservationsAreSettled
    BY DEF RouterInv
  <1>2. QED
    BY <1>1, RouterInvariance, PTL

(* Only Ask fills the slot, and with an attempt that is new (TurnIsNew). *)
LEMMA OnlyNewAttempts ==
    ASSUME RouterInv, [Next]_vars, NEW r \in Request,
           req'[r].at # req[r].at, req'[r].at # None
    PROVE  /\ req'[r].at \notin req[r].asked
           /\ IsFree(req'[r].at) => Route(req'[r].at) \notin req[r].invalid
  <1>1. /\ req = [q \in Request |-> req[q]]
        /\ \A q \in Request : HandlerInv(req[q]) /\ req[q] \in Handler
    BY ByHandler DEF HandlerInv
  <1>2. \A q \in Request : \A g : Become(q, g) =>
            req'[r] = IF q = r THEN g ELSE req[r]
    BY <1>1 DEF Become
  <1>3. PICK d \in Deployment : Ask(r, d)
    <2>1. ASSUME NEW q \in Request,
                 Select(q) \/ SelectAgain(q) \/ Advance(q)
          PROVE  req'[r].at = req[r].at
      <3>1. PICK g : Become(q, g) /\ g.at = req[q].at
        <4>1. \A c : [req[q] EXCEPT !.phase = "free", !.selected = c].at = req[q].at
          BY <1>1 DEF Handler
        <4>2. /\ [req[q] EXCEPT !.phase = "discover"].at = req[q].at
              /\ [req[q] EXCEPT !.phase = "done", !.reply = "not_found"].at = req[q].at
              /\ [req[q] EXCEPT !.phase = "rescue"].at = req[q].at
              /\ [req[q] EXCEPT !.phase = "paid"].at = req[q].at
              /\ GivenUp(req[q]).at = req[q].at
          BY <1>1 DEF GivenUp, Handler
        <4>3. QED
          BY <2>1, <4>1, <4>2 DEF Select, SelectAgain, Advance
      <3>2. QED
        BY <1>2, <3>1
    <2>2. ASSUME NEW q \in Request, NEW d \in Deployment, Refused(q, d)
          PROVE  req'[r].at = req[r].at
      BY <1>1, <1>2, <2>2 DEF Refused, Handler
    <2>3. ASSUME NEW q \in Request, NEW p \in Provider, PassOver(q, p)
          PROVE  req'[r].at = req[r].at
      BY <1>1, <1>2, <2>3 DEF PassOver, Handler
    <2>4. ASSUME NEW q \in Request, NEW d \in Deployment, Ask(q, d)
          PROVE  q = r
      <3>1. PICK g : Become(q, g)
        BY <2>4 DEF Ask
      <3>2. QED
        BY <1>2, <3>1
    <2>5. ASSUME NEW q \in Request, NEW e \in Error, Fails(q, e)
          PROVE  req'[r].at \in {None, req[r].at}
      <3>1. Become(q, AfterFailure(req[q], e))
        BY <2>5 DEF Fails
      <3>2. AfterFailure(req[q], e).at = None
        BY <1>1 DEF AfterFailure, Handler
      <3>3. QED
        BY <1>2, <3>1, <3>2
    <2>6. ASSUME NEW q \in Request,
                 EmptyAnswer(q) \/ Answers(q) \/ StreamOpens(q)
          PROVE  req'[r].at \in {None, req[r].at}
      <3>1. AfterFailure(req[q], "server_error").at = None
        BY <1>1 DEF AfterFailure, Handler
      <3>2. PICK g : Become(q, g) /\ g.at \in {None, req[q].at}
        <4>1. CASE EmptyAnswer(q)
          BY <3>1, <4>1 DEF EmptyAnswer
        <4>2. CASE Answers(q)
          <5> DEFINE g == [req[q] EXCEPT !.phase = "done", !.reply = "answer", !.at = None,
                                         !.unsettled = @ \ {req[q].at}]
          <5>1. Become(q, g)
            BY <4>2 DEF Answers
          <5>2. g.at = None
            BY <1>1 DEF Handler
          <5>3. QED
            BY <5>1, <5>2
        <4>3. CASE StreamOpens(q)
          <5> DEFINE g == [req[q] EXCEPT !.phase = "streaming", !.reply = "stream"]
          <5>1. Become(q, g)
            BY <4>3 DEF StreamOpens
          <5>2. g.at = req[q].at
            BY <1>1 DEF Handler
          <5>3. QED
            BY <5>1, <5>2
        <4>4. QED
          BY <2>6, <4>1, <4>2, <4>3
      <3>3. QED
        BY <1>2, <3>2
    <2>7. ASSUME NEW q \in Request,
                 StreamEnds(q) \/ StreamBreaks(q) \/ Dropped(q)
          PROVE  req'[r].at \in {None, req[r].at}
      <3>1. PICK g : Become(q, g) /\ g.at = None
        <4>1. CASE StreamEnds(q) \/ StreamBreaks(q)
          <5> DEFINE g == [req[q] EXCEPT !.phase = "done", !.at = None,
                                         !.unsettled = @ \ {req[q].at}]
          <5>1. Become(q, g)
            BY <4>1 DEF StreamEnds, StreamBreaks
          <5>2. g.at = None
            BY <1>1 DEF Handler
          <5>3. QED
            BY <5>1, <5>2
        <4>2. CASE Dropped(q)
          <5> DEFINE g == [req[q] EXCEPT !.phase = "done", !.at = None,
                                         !.excused = @ \cup req[q].unsettled,
                                         !.reply = IF req[q].phase = "streaming"
                                                   THEN @ ELSE "dropped"]
          <5>1. Become(q, g)
            BY <4>2 DEF Dropped
          <5>2. g.at = None
            BY <1>1 DEF Handler
          <5>3. QED
            BY <5>1, <5>2
        <4>3. QED
          BY <2>7, <4>1, <4>2
      <3>2. QED
        BY <1>2, <3>1
    <2>8. ASSUME NEW q \in Request, NEW s \in BOOLEAN, Arrive(q, s)
          PROVE  req'[r].at \in {None, req[r].at}
      BY <1>1, <1>2, <2>8 DEF Arrive, Fresh
    <2>9. \/ \E q \in Request : Handle(q) \/ Upstream(q) \/ StreamEnds(q)
                                \/ StreamBreaks(q) \/ Dropped(q)
                                \/ \E s \in BOOLEAN : Arrive(q, s)
          \/ req' = req
      BY DEF Next, Toggle, Thaw, vars
    <2>10. QED
      BY <2>1, <2>2, <2>3, <2>4, <2>5, <2>6, <2>7, <2>8, <2>9 DEF Handle, Upstream
  <1>4. InRound(req[r]) /\ d \in Turn(req[r]) /\ req'[r].at = d
    <2>1. InRound(req[r]) /\ d \in Turn(req[r]) /\ Become(r, Asked(req[r], d))
      BY <1>3 DEF Ask, Asked
    <2>2. Asked(req[r], d).at = d
      BY <1>1 DEF Asked, Handler
    <2>3. QED
      BY <1>2, <2>1, <2>2
  <1>5. QED
    BY <1>1, <1>4, TurnIsNew

(* No deployment is asked twice in a request, and no free key for a model  *)
(* its provider has called invalid (the loops of chat and chat_stream).    *)
THEOREM NoSecondAsking == Spec => NeverAskedAgain
  <1>1. RouterInv /\ [Next]_vars =>
        [\A r \in Request : (req'[r].at # req[r].at /\ req'[r].at # None) =>
            /\ req'[r].at \notin req[r].asked
            /\ IsFree(req'[r].at) => Route(req'[r].at) \notin req[r].invalid]_vars
    BY OnlyNewAttempts
  <1>2. QED
    BY <1>1, RouterInvariance, PTL DEF Spec, NeverAskedAgain

=============================================================================
