---------------------------- MODULE RiskManager ---------------------------
(***************************************************************************)
(* S5, the risk manager: rkm.risk_engine.RiskEngine, the fill deduplication*)
(* of its ingest loop (rkm/main.py) and the kill-switch handler            *)
(* (rkm/controller.py).                                                    *)
(*                                                                         *)
(* The engine runs every operation under one lock, so each is one action.  *)
(* Engaging the kill-switch over HTTP is not one operation: the handler    *)
(* takes the lock to engage, again to list the open orders, and then sends *)
(* one DELETE per order with no lock held.                                 *)
(*                                                                         *)
(* Money is in whole units; the engine's 0.8 is kept as 8/10.  Time is     *)
(* counted in ticks of the wall clock and never steps back.                *)
(***************************************************************************)
EXTENDS AverageCost, Sequences, FiniteSets

CONSTANTS
  Symbols,
  Requests,            \* the pre-trade requests clients make, see Request
  FillReports,         \* the fills S4 may report
  OrderIds,            \* ids of orders S4 may report as open
  BookMids,            \* mid prices S2 may report; 0 for an empty book
  DefaultScalars,      \* cfg.limits
  LimitUpdates,        \* the bodies of PUT /limits
  Window,              \* velocity.window_ms
  MaxOrdersPerSymbol,  \* velocity.max_orders_per_symbol
  MaxOrdersTotal,      \* velocity.max_orders_total
  MaxOpenOrders,       \* kill_switch.max_open_orders
  AutoEngage,          \* kill_switch.auto_engage_on_hard_breach
  BreachesRetained,    \* _max_breaches, 4096
  SeenCap, SeenKeep,   \* 100_000 and 50_000 of _apply_new_fills
  Threads,             \* HTTP threads that may engage the kill-switch
  MaxTime, MaxChecks, MaxEngagements  \* bounds: clock, checks made, times engaged

ScalarKeys   == {"positionQty", "symbolNotional", "portfolioNotional",
                 "orderQty", "orderNotional", "minPrice"}
OverrideKeys == {"positionQty", "symbolNotional"}

\* A limit price of 0 stands for a request without one; the engine takes abs(qty).
Request == [symbol : Symbols, side : {"BUY", "SELL"}, qty : Nat \ {0}, px : Nat]

ASSUME RequestsAssumption == Requests \subseteq Request
ASSUME ReportsAssumption ==
  \A f \in FillReports : /\ f.id \in Nat \ {0} /\ f.symbol \in Symbols
                         /\ f.side \in {"BUY", "SELL"} /\ f.qty \in Nat \ {0} /\ f.price \in Nat
\* validate_config.
ValidRiskConfig ==
  /\ DefaultScalars \in [ScalarKeys -> Nat]
  /\ \A k \in ScalarKeys \ {"minPrice"} : DefaultScalars[k] > 0
  /\ Window \in Nat \ {0} /\ MaxOrdersPerSymbol \in Nat \ {0} /\ MaxOrdersTotal \in Nat \ {0}
  /\ MaxOpenOrders \in Nat \ {0} /\ AutoEngage \in BOOLEAN

ASSUME LimitsAssumption ==
  /\ \A u \in LimitUpdates :
       /\ DOMAIN u.scalar \subseteq ScalarKeys
       /\ \A k \in DOMAIN u.scalar : u.scalar[k] \in Nat
       /\ DOMAIN u.overrides \subseteq Symbols
       /\ \A s \in DOMAIN u.overrides :
            /\ DOMAIN u.overrides[s] \in SUBSET OverrideKeys \ {{}}
            /\ \A k \in DOMAIN u.overrides[s] : u.overrides[s][k] \in Nat
ASSUME ConfigAssumption ==
  /\ ValidRiskConfig /\ BreachesRetained \in Nat \ {0}
  /\ SeenCap \in Nat /\ SeenKeep \in 0..SeenCap
  /\ MaxTime \in Nat /\ MaxChecks \in Nat /\ MaxEngagements \in Nat
  /\ BookMids \subseteq Int

VARIABLES
  limits,       \* [scalar, overrides]: RiskLimits
  positions,    \* symbol -> position
  openOrders,   \* ids of the open orders in the last snapshot of S4
  refPrices,    \* symbol -> mid
  velocity,     \* symbol -> times of the orders allowed, pruned to the window
  velocityAll,  \* the same for the whole book
  killSwitch,
  breaches,     \* the newest breach records
  stats,
  seen,         \* _seen_fill_ids of the ingest loop
  now,          \* the clock
  flatten,      \* thread -> where its kill-switch request is
  cancelled,    \* history: the ids a DELETE was sent for since the switch was engaged
  allowedLog,   \* history: symbol -> times of every order allowed, never pruned
  allowedAll    \* the same for the whole book

engineVars == <<limits, positions, openOrders, refPrices, velocity, velocityAll,
                killSwitch, breaches, stats>>
httpVars   == <<flatten, cancelled>>
allowedVars == <<allowedLog, allowedAll>>
vars       == <<engineVars, seen, now, httpVars, allowedVars>>

---------------------------------------------------------------------------
\* f, changed or extended by what g says.
Updated(f, g) == [k \in DOMAIN f \cup DOMAIN g |-> IF k \in DOMAIN g THEN g[k] ELSE f[k]]

Single(key, value) == [k \in {key} |-> value]

PositionOf(symbol) == IF symbol \in DOMAIN positions THEN positions[symbol] ELSE FlatPosition

\* PositionState.apply_fill, which moves the net quantity and the average of S6's ledger.
Filled(f) == FillPosition(PositionOf(f.symbol), f.side, f.qty, f.price)

NoLimitChange == [scalar |-> DefaultScalars, overrides |-> <<>>]

\* RiskLimits.position_limit and notional_limit.
LimitFor(symbol, key) ==
  IF symbol \in DOMAIN limits.overrides /\ key \in DOMAIN limits.overrides[symbol]
  THEN limits.overrides[symbol][key] ELSE limits.scalar[key]

\* Mutant: times are popped one tick too early.
Recent_PopsEarly(times) ==
  LET old == {k \in DOMAIN times : \A j \in 1..k : times[j] <= now - Window + 1}
  IN  SubSeq(times, Cardinality(old) + 1, Len(times))

\* count_in_window: a counter's deque after the old times at its front are popped.
Recent(times) ==
  LET old == {k \in DOMAIN times : \A j \in 1..k : times[j] <= now - Window}
  IN  SubSeq(times, Cardinality(old) + 1, Len(times))

\* _effective_price_locked: the limit price, else the last mid, else 0.
PriceOf(r) ==
  IF r.px > 0 THEN r.px
  ELSE IF r.symbol \in DOMAIN refPrices THEN refPrices[r.symbol] ELSE 0

OrderNotional(r) == r.qty * PriceOf(r)

\* What an open position weighs: at the mid if there is one, else at its entry price.
Weight(symbol) ==
  Times(Magnitude(positions[symbol].net),
        IF symbol \in DOMAIN refPrices THEN Whole(refPrices[symbol]) ELSE positions[symbol].avg)

\* _portfolio_gross_notional_locked, summed symbol by symbol.
PortfolioGross ==
  LET total[S \in SUBSET DOMAIN positions] ==
        IF S = {} THEN Whole(0)
        ELSE LET s == CHOOSE s \in S : TRUE IN Plus(Weight(s), total[S \ {s}])
  IN  total[DOMAIN positions]

\* Mutant: the check looks at the position as it is, not as the order would leave it.
ProjectedNet_Current(r) == PositionOf(r.symbol).net

ProjectedNet(r) == PositionOf(r.symbol).net + Signed(r.side, r.qty)

ProjectedNotional(r) ==
  IF PriceOf(r) > 0 THEN Magnitude(ProjectedNet(r)) * PriceOf(r) ELSE OrderNotional(r)

HardIf(exceeded) == IF exceeded THEN "HARD" ELSE "PASS"

\* HARD above the limit, SOFT from 80% of it.
Graded(amount, limit) ==
  IF amount.num > limit * amount.den THEN "HARD"
  ELSE IF 10 * amount.num >= 8 * limit * amount.den THEN "SOFT" ELSE "PASS"

\* The checks, in the order their breaches are recorded.
Checks == <<"price_sanity", "max_order_qty", "max_order_notional", "velocity_symbol",
            "velocity_total", "max_open_orders", "position_limit", "notional_limit",
            "portfolio_notional">>

Verdict(check, r) ==
  CASE check = "price_sanity"       -> HardIf(PriceOf(r) <= limits.scalar["minPrice"])
    [] check = "max_order_qty"      -> HardIf(r.qty > limits.scalar["orderQty"])
    [] check = "max_order_notional" -> HardIf(OrderNotional(r) > limits.scalar["orderNotional"])
    [] check = "velocity_symbol"    -> HardIf(Len(Recent(velocity[r.symbol])) + 1 > MaxOrdersPerSymbol)
    [] check = "velocity_total"     -> HardIf(Len(Recent(velocityAll)) + 1 > MaxOrdersTotal)
    [] check = "max_open_orders"    -> HardIf(Cardinality(openOrders) + 1 > MaxOpenOrders)
    [] check = "position_limit"     ->
         HardIf(Magnitude(ProjectedNet(r)) > LimitFor(r.symbol, "positionQty"))
    [] check = "notional_limit"     ->
         Graded(Whole(ProjectedNotional(r)), LimitFor(r.symbol, "symbolNotional"))
    [] check = "portfolio_notional" ->
         Graded(Plus(PortfolioGross, Whole(OrderNotional(r))), limits.scalar["portfolioNotional"])

Failing(r, severity) == SelectSeq(Checks, LAMBDA c : Verdict(c, r) = severity)

\* A SOFT breach is a warning; a HARD one vetoes the order.
Vetoed(r) == \E k \in DOMAIN Checks : Verdict(Checks[k], r) = "HARD"

Allowed(r) == killSwitch = "DISARMED" /\ ~Vetoed(r)

\* The last n items of a sequence.
LastOf(seq, n) == IF Len(seq) > n THEN SubSeq(seq, Len(seq) - n + 1, Len(seq)) ELSE seq

Breach(check, r, severity) == [check |-> check, symbol |-> r.symbol, severity |-> severity]

BreachesOf(r) ==
  LET failed == SelectSeq(Checks, LAMBDA c : Verdict(c, r) # "PASS")
  IN  [k \in DOMAIN failed |-> Breach(failed[k], r, Verdict(failed[k], r))]

NoStats == [checks |-> 0, allowed |-> 0, vetoed |-> 0, soft |-> 0, hard |-> 0,
            fills |-> 0, engagements |-> 0]

Idle == [stage |-> "idle", ids |-> {}]

---------------------------------------------------------------------------
Init ==
  /\ limits = NoLimitChange
  /\ positions = <<>>
  /\ openOrders = {}
  /\ refPrices = <<>>
  /\ velocity = [s \in Symbols |-> <<>>]
  /\ velocityAll = <<>>
  /\ killSwitch = "DISARMED"
  /\ breaches = <<>>
  /\ stats = NoStats
  /\ seen = {}
  /\ now = 0
  /\ flatten = [t \in Threads |-> Idle]
  /\ cancelled = {}
  /\ allowedLog = [s \in Symbols |-> <<>>]
  /\ allowedAll = <<>>

\* pre_trade_check, step 1: while engaged nothing else is looked at.  The breach is
\* recorded but counted neither as hard nor as soft.
RefuseWhileEngaged(r) ==
  /\ killSwitch = "ENGAGED"
  /\ stats.checks < MaxChecks
  /\ breaches' = LastOf(Append(breaches, Breach("kill_switch", r, "HARD")), BreachesRetained)
  /\ stats' = [stats EXCEPT !.checks = @ + 1, !.vetoed = @ + 1]
  /\ UNCHANGED <<limits, positions, openOrders, refPrices, velocity, velocityAll, killSwitch,
                 seen, now, httpVars, allowedVars>>

\* Both counters are pruned by the check; only an allowed order takes a slot.
Commit(r) ==
  LET taken == IF Allowed(r) THEN <<now>> ELSE <<>> IN
  /\ velocity' = [velocity EXCEPT ![r.symbol] = Recent(@) \o taken]
  /\ velocityAll' = Recent(velocityAll) \o taken
  /\ allowedLog' = [allowedLog EXCEPT ![r.symbol] = @ \o taken]
  /\ allowedAll' = allowedAll \o taken

AutoEngages(r) == AutoEngage /\ Vetoed(r)

CountCheck(r) ==
  [stats EXCEPT !.checks = @ + 1,
                !.allowed = IF Allowed(r) THEN @ + 1 ELSE @,
                !.vetoed = IF Allowed(r) THEN @ ELSE @ + 1,
                !.soft = @ + Len(Failing(r, "SOFT")),
                !.hard = @ + Len(Failing(r, "HARD")),
                !.engagements = IF AutoEngages(r) THEN @ + 1 ELSE @]

\* pre_trade_check, steps 2 to 8.  A symbol never seen before gets a flat position.
CheckOrder(r) ==
  /\ killSwitch = "DISARMED"
  /\ stats.checks < MaxChecks
  /\ breaches' = LastOf(breaches \o BreachesOf(r), BreachesRetained)
  /\ Commit(r)
  /\ stats' = CountCheck(r)
  /\ killSwitch' = IF AutoEngages(r) THEN "ENGAGED" ELSE killSwitch
  /\ cancelled' = IF AutoEngages(r) THEN {} ELSE cancelled
  /\ positions' = Updated(Single(r.symbol, FlatPosition), positions)
  /\ UNCHANGED <<limits, openOrders, refPrices, seen, now, flatten>>

PreTradeCheck(r) == RefuseWhileEngaged(r) \/ CheckOrder(r)

\* One turn of the ingest loop over a poll answer.  An id is marked as seen before
\* the fill is applied; the set is cut to an arbitrary part when it grows too large.
IngestFill(f) ==
  LET grown == seen \cup {f.id} IN
  /\ f.id \notin seen
  /\ IF Cardinality(grown) > SeenCap
     THEN \E kept \in SUBSET grown : Cardinality(kept) = SeenKeep /\ seen' = kept
     ELSE seen' = grown
  /\ positions' = Updated(positions, Single(f.symbol, Filled(f)))
  /\ stats' = [stats EXCEPT !.fills = @ + 1]
  /\ UNCHANGED <<limits, openOrders, refPrices, velocity, velocityAll, killSwitch, breaches,
                 now, httpVars, allowedVars>>

\* The ingest loop replaces the snapshot of the open orders of S4.
SetOpenOrders(ids) ==
  /\ openOrders' = ids
  /\ UNCHANGED <<limits, positions, refPrices, velocity, velocityAll, killSwitch, breaches,
                 stats, seen, now, httpVars, allowedVars>>

\* The ingest loop asks S2 about every symbol it has a position for, flat or not.
SetReferencePrice(symbol, mid) ==
  /\ symbol \in DOMAIN positions
  /\ mid > 0
  /\ refPrices' = Updated(refPrices, Single(symbol, mid))
  /\ UNCHANGED <<limits, positions, openOrders, velocity, velocityAll, killSwitch, breaches,
                 stats, seen, now, httpVars, allowedVars>>

\* PUT /limits.  The overrides named for a symbol replace the ones it had.
UpdateLimits(u) ==
  /\ limits' = [scalar    |-> Updated(limits.scalar, u.scalar),
                overrides |-> Updated(limits.overrides, u.overrides)]
  /\ UNCHANGED <<positions, openOrders, refPrices, velocity, velocityAll, killSwitch, breaches,
                 stats, seen, now, httpVars, allowedVars>>

ResetLimits ==
  /\ limits' = NoLimitChange
  /\ UNCHANGED <<positions, openOrders, refPrices, velocity, velocityAll, killSwitch, breaches,
                 stats, seen, now, httpVars, allowedVars>>

\* POST /kill-switch/engage, under the lock.  Refused while it is engaged.
Engage(t) ==
  /\ flatten[t] = Idle
  /\ killSwitch = "DISARMED"
  /\ stats.engagements < MaxEngagements
  /\ killSwitch' = "ENGAGED"
  /\ stats' = [stats EXCEPT !.engagements = @ + 1]
  /\ cancelled' = {}
  /\ flatten' = [flatten EXCEPT ![t] = [stage |-> "listing", ids |-> {}]]
  /\ UNCHANGED <<limits, positions, openOrders, refPrices, velocity, velocityAll, breaches,
                 seen, now, allowedVars>>

\* The handler lists the open orders of the latest snapshot.
ListOpenOrders(t) ==
  /\ flatten[t].stage = "listing"
  /\ flatten' = [flatten EXCEPT ![t] = IF openOrders = {} THEN Idle
                                       ELSE [stage |-> "cancelling", ids |-> openOrders]]
  /\ UNCHANGED <<engineVars, seen, now, cancelled, allowedVars>>

\* Mutant: the first DELETE that fails ends the request.
CancelNext_GivesUp(t) ==
  /\ flatten[t].stage = "cancelling"
  /\ \E id \in flatten[t].ids : cancelled' = cancelled \cup {id}
  /\ flatten' = [flatten EXCEPT ![t] = Idle]
  /\ UNCHANGED <<engineVars, seen, now, allowedVars>>

\* One DELETE.  One that fails is counted and the next is sent all the same.
CancelNext(t) ==
  /\ flatten[t].stage = "cancelling"
  /\ \E id \in flatten[t].ids :
       LET rest == flatten[t].ids \ {id} IN
       /\ cancelled' = cancelled \cup {id}
       /\ flatten' = [flatten EXCEPT ![t] = IF rest = {} THEN Idle ELSE [@ EXCEPT !.ids = rest]]
  /\ UNCHANGED <<engineVars, seen, now, allowedVars>>

\* POST /kill-switch/disengage.
Disengage ==
  /\ killSwitch = "ENGAGED"
  /\ killSwitch' = "DISARMED"
  /\ UNCHANGED <<limits, positions, openOrders, refPrices, velocity, velocityAll, breaches,
                 stats, seen, now, httpVars, allowedVars>>

Tick ==
  /\ now < MaxTime
  /\ now' = now + 1
  /\ UNCHANGED <<engineVars, seen, httpVars, allowedVars>>

\* The process dies and starts again: everything was in memory, the kill-switch and
\* the limits set at run time too.  Composed modules let it happen; it is not in Next.
Restart ==
  /\ limits' = NoLimitChange
  /\ positions' = <<>>
  /\ openOrders' = {}
  /\ refPrices' = <<>>
  /\ velocity' = [s \in Symbols |-> <<>>]
  /\ velocityAll' = <<>>
  /\ killSwitch' = "DISARMED"
  /\ breaches' = <<>>
  /\ stats' = NoStats
  /\ seen' = {}
  /\ flatten' = [t \in Threads |-> Idle]
  /\ cancelled' = {}
  /\ allowedLog' = [s \in Symbols |-> <<>>]
  /\ allowedAll' = <<>>
  /\ UNCHANGED now

EngageStep(t) == Engage(t) \/ ListOpenOrders(t) \/ CancelNext(t)

Next ==
  \/ \E r \in Requests : PreTradeCheck(r)
  \/ \E f \in FillReports : IngestFill(f)
  \/ \E ids \in SUBSET OrderIds : SetOpenOrders(ids)
  \/ \E symbol \in Symbols, mid \in BookMids : SetReferencePrice(symbol, mid)
  \/ \E u \in LimitUpdates : UpdateLimits(u)
  \/ ResetLimits
  \/ \E t \in Threads : EngageStep(t)
  \/ Disengage
  \/ Tick

Spec == Init /\ [][Next]_vars

\* A request that was accepted runs to its end; every call it makes has a timeout.
FairSpec == Spec /\ \A t \in Threads : WF_vars(ListOpenOrders(t) \/ CancelNext(t))

---------------------------------------------------------------------------
\* Properties

\* n + 1 consecutive orders are never allowed within one window.
Spread(times, n) ==
  \A k \in DOMAIN times : k + n \in DOMAIN times => times[k + n] - times[k] >= Window

\* The sliding-window caps hold against the whole history of allowed orders, not
\* only against the pruned deques the engine counts in (risk_engine.py:275-298, 378-382).
VelocityCapsHold ==
  /\ Spread(allowedAll, MaxOrdersTotal)
  /\ \A s \in Symbols : Spread(allowedLog[s], MaxOrdersPerSymbol)

\* Every order a handler has listed is asked to be cancelled, whatever happens to
\* the switch, the snapshot and the other orders meanwhile (controller.py:179-186).
ListedOrderIsCancelled ==
  \A t \in Threads, id \in OrderIds :
    (id \in flatten[t].ids) ~> (id \in cancelled)

===========================================================================
