------------------------------ MODULE Strategy ------------------------------
(***************************************************************************)
(* The strategy engine S3 (ste) for one symbol: the contexts of its books, *)
(* the three built-in strategies, and the push of their intents to S4.     *)
(*                                                                         *)
(* Prices are integers in ticks.  The engine runs in one thread; POST      *)
(* /pause and the cooldown's end come at any time.  A context is hot for   *)
(* cooldown_ms after a signal.  close_signal has no caller and is left out.*)
(***************************************************************************)
EXTENDS Integers, Sequences, FiniteSets, SequencesExt, FiniteSetsExt

CONSTANTS
  BookVenues,     \* the venues with a book of the symbol: one context each
  Tobs,           \* entries S2 may answer: [bb_qty, ba_qty, mid, spread_ticks]
  QuotePrices,    \* prices of raw quotes S1 may answer
  MomWindow, MrWindow,             \* window_ticks of the two windowed strategies
  MomEntry, MomExit, MomMax,       \* MomentumParams
  ZEntry, ZExit, MrMax,            \* MeanReversionParams
  ArbRatio, ArbWide, ArbTight, ArbMax,   \* SpreadArbParams
  MaxOpen,        \* cfg.signal.max_open_signals_per_symbol
  MaxOrderQty,    \* cfg.signal.max_order_qty
  MaxNotional,    \* cfg.emit.max_notional_per_signal
  MaxIntents,     \* cfg.emit.max_open_intents
  MaxSignals,     \* bound: signals recorded
  MaxLosses       \* bound: pushes that are not acknowledged

ValidStrategyConfig ==
  /\ {MomEntry, MrWindow - 2, ZEntry, ArbRatio - 1, ArbWide, MaxOpen, MaxOrderQty,
      MaxNotional, MaxIntents, MomWindow - 1} \subseteq Nat \ {0}
  /\ {MomWindow, MrWindow, ArbRatio, MomExit, ZExit, ArbTight, MomMax, MrMax, ArbMax} \subseteq Nat

\* The top of a book as S2 sends it; the mid of a book with an empty side is 0.
Tob == [bb_qty : Nat, ba_qty : Nat, mid : Nat, spread_ticks : Nat]

ASSUME StrategyAssumption ==
  /\ ValidStrategyConfig
  /\ Tobs \subseteq Tob /\ QuotePrices \subseteq Nat
  /\ MaxSignals \in Nat /\ MaxLosses \in Nat

VARIABLES
  contexts,   \* venue -> its StrategyContext
  signals,    \* the signals, by number
  intents,    \* the intents kept, the oldest first
  paused,     \* strategies that are PAUSED
  pending,    \* intents the loop has yet to push
  orders,     \* S4: venue -> signed lots it was ordered (external)
  losses,
  lost,       \* history: venue -> lots of intents that never reached S4
  flattened   \* history: venue -> lots that exits wrote off

strategyVars == <<contexts, signals, intents, paused, pending, orders, losses, lost, flattened>>

\* register_default_strategies: run in this order.
Strategies == <<"momentum", "mean_reversion", "spread_arb">>

\* ensure_context: one window serves both strategies.
NewContext == [window |-> <<>>, net |-> 0, listed |-> <<>>, hot |-> FALSE]

StrategyInit ==
  /\ contexts = [v \in BookVenues |-> NewContext]
  /\ signals = <<>> /\ intents = <<>> /\ paused = {} /\ pending = <<>> /\ losses = 0
  /\ orders = [v \in BookVenues |-> 0]
  /\ lost = orders /\ flattened = orders

Lots(n) == IF n < 0 THEN -n ELSE n
Sign(n) == IF n < 0 THEN -1 ELSE 1
Smaller(m, n) == IF m < n THEN m ELSE n
Larger(m, n) == IF m > n THEN m ELSE n

---------------------------------------------------------------------------
(* What the strategies look at. *)

\* BookView.from_tob_dict.
FromTob(tob) == [bid |-> tob.bb_qty, ask |-> tob.ba_qty, mid |-> tob.mid, spread |-> tob.spread_ticks]

\* A raw quote stands for a book with no sides.
FromQuote(px) == [bid |-> 0, ask |-> 0, mid |-> px, spread |-> 0]

\* RollingWindow.push.
Pushed(ctx, px) ==
  [ctx EXCEPT !.window = IF Len(@) < Larger(MomWindow, MrWindow) THEN Append(@, px)
                         ELSE Append(Tail(@), px)]

Sum(w) == FoldLeft(LAMBDA a, b : a + b, 0, w)

\* stdev, squared and times the square of the number of samples.
SquaredStdev(w) == Len(w) * FoldLeft(LAMBDA a, b : a + b * b, 0, w) - Sum(w) * Sum(w)

\* zscore times that deviation: above 0 when the price is above the mean.
Deviation(w, px) == Len(w) * px - Sum(w)

---------------------------------------------------------------------------
(* Strategy.on_tick: the set of decisions, empty or of one.  A decision    *)
(* enters with a side (1 to buy, -1 to sell) and a quantity, or exits.     *)

\* The whole position, on the other side.
Exits(ctx, px) ==
  {[action |-> "EXIT", side |-> -Sign(ctx.net), qty |-> Lots(ctx.net), px |-> px]}

\* Mutant: the room is taken of the whole position limit.
Enters_WholeLimit(ctx, side, qty, limit, px) ==
  IF Lots(ctx.net) >= limit THEN {}
  ELSE {[action |-> "ENTER", side |-> side, qty |-> Smaller(limit, Larger(1, qty)), px |-> px]}

\* An entry, for what the position limit has room for.
Enters(ctx, side, qty, limit, px) ==
  IF Lots(ctx.net) >= limit THEN {}
  ELSE {[action |-> "ENTER", side |-> side, qty |-> Smaller(limit - Lots(ctx.net), Larger(1, qty)), px |-> px]}

Momentum(ctx) ==
  LET move == Last(ctx.window) - Head(ctx.window) IN
  IF Len(ctx.window) < 2 THEN {}
  ELSE IF ctx.net # 0 /\ -Sign(ctx.net) * move >= MomExit THEN Exits(ctx, Last(ctx.window))
  ELSE IF Lots(move) < MomEntry THEN {}
  ELSE Enters(ctx, Sign(move), Lots(move), MomMax, Last(ctx.window))

\* The z-score is compared in squares.
MeanReversion(ctx) ==
  LET w == ctx.window
      dev == Deviation(w, Last(w))
      reaches(k) == dev * dev >= k * k * SquaredStdev(w) IN
  IF Len(w) < 2 \/ SquaredStdev(w) = 0 THEN {}
  ELSE IF ctx.net # 0 /\ Sign(dev) = -Sign(ctx.net) /\ reaches(ZExit) THEN Exits(ctx, Last(w))
  ELSE IF ~reaches(ZEntry) THEN {}
  ELSE Enters(ctx, Sign(dev), Max({1} \cup {k \in 1..Len(w) : reaches(k)}), MrMax, Last(w))

SpreadArb(ctx, view) ==
  LET bid == view.bid
      ask == view.ask IN
  IF bid = 0 \/ ask = 0 THEN {}
  ELSE IF ctx.net # 0 /\ view.spread <= ArbTight THEN Exits(ctx, view.mid)
  ELSE IF view.spread > ArbWide THEN {}
  ELSE IF bid >= ArbRatio * ask /\ ctx.net <= 0 THEN Enters(ctx, 1, bid \div ask, ArbMax, view.mid)
  ELSE IF ask >= ArbRatio * bid /\ ctx.net >= 0 THEN Enters(ctx, -1, ask \div bid, ArbMax, view.mid)
  ELSE {}

Decisions(strategy, ctx, view) ==
  IF strategy = "momentum" THEN Momentum(ctx)
  ELSE IF strategy = "mean_reversion" THEN MeanReversion(ctx)
  ELSE SpreadArb(ctx, view)

---------------------------------------------------------------------------
(* _apply_decision, on [venue, ctx, signals, intents, pending, exited].   *)

\* Mutant: the newest of the listed signals is marked.
Capped_ExpiresNewest(at) ==
  LET drop == Larger(0, Len(at.ctx.listed) - MaxOpen + 1)
      gone == {at.ctx.listed[Len(at.ctx.listed) + 1 - i] : i \in 1..drop} IN
  [at EXCEPT !.ctx.listed = SubSeq(@, drop + 1, Len(@)),
             !.signals = [i \in DOMAIN @ |-> IF i \in gone THEN [@[i] EXCEPT !.status = "EXPIRED"] ELSE @[i]]]

\* _enforce_open_cap: the oldest listed signals expire.
Capped(at) ==
  LET drop == Larger(0, Len(at.ctx.listed) - MaxOpen + 1)
      gone == {at.ctx.listed[i] : i \in 1..drop} IN
  [at EXCEPT !.ctx.listed = SubSeq(@, drop + 1, Len(@)),
             !.signals = [i \in DOMAIN @ |-> IF i \in gone THEN [@[i] EXCEPT !.status = "EXPIRED"] ELSE @[i]]]

\* The quantity of an order: clamped, and scaled to the notional cap, one lot at least.
OrderQty(d) ==
  LET qty == Larger(1, Smaller(d.qty, MaxOrderQty)) IN
  IF qty * d.px > MaxNotional THEN Smaller(qty, Larger(1, MaxNotional \div d.px)) ELSE qty

\* _record_signal.
Signal == [by : Range(Strategies), side : {-1, 1}, qty : Nat, status : {"OPEN", "EXPIRED"}]

Recorded(at, by, side, qty) ==
  [at EXCEPT !.signals = Append(@, [by |-> by, side |-> side, qty |-> qty, status |-> "OPEN"]),
             !.ctx.hot = TRUE]

\* _build_intent, for the signal just recorded: the oldest intents go.
Intent == [id : Nat \ {0}, signal : Nat \ {0}, venue : BookVenues, lots : Int, acknowledged : BOOLEAN]

Built(at, lots) ==
  LET intent == [id |-> IF at.intents = <<>> THEN 1 ELSE Last(at.intents).id + 1,
                 signal |-> Len(at.signals), venue |-> at.venue, lots |-> lots,
                 acknowledged |-> FALSE]
      all == Append(at.intents, intent) IN
  [at EXCEPT !.intents = SubSeq(all, Larger(1, Len(all) - MaxIntents + 1), Len(all)),
             !.pending = Append(@, intent)]

\* An exit forgets the position; no intent is built, and its signals stay OPEN.
Exited(at, by, d) ==
  LET done == Recorded(at, by, d.side, Larger(1, Smaller(d.qty, MaxOrderQty))) IN
  [done EXCEPT !.exited = @ + at.ctx.net, !.ctx.net = 0, !.ctx.listed = <<>>]

\* Mutant: the position moves by what the strategy suggested.
Entered_BySuggestion(at, by, d) ==
  LET done == Built(Recorded(at, by, d.side, OrderQty(d)), d.side * OrderQty(d)) IN
  [done EXCEPT !.ctx.net = @ + d.side * d.qty, !.ctx.listed = Append(@, Len(done.signals))]

\* An entry moves the position before the order is sent.
Entered(at, by, d) ==
  LET done == Built(Recorded(at, by, d.side, OrderQty(d)), d.side * OrderQty(d)) IN
  [done EXCEPT !.ctx.net = @ + d.side * OrderQty(d), !.ctx.listed = Append(@, Len(done.signals))]

Applied(at, by, d) ==
  IF at.ctx.hot THEN at
  ELSE IF d.action = "EXIT" THEN Exited(at, by, d)
  ELSE IF Lots(at.ctx.net) >= MaxOpen * MaxOrderQty THEN Capped(at)
  ELSE Entered(Capped(at), by, d)

\* The turn of one strategy: a paused one is left out.
Ran(at, by, view) ==
  LET ds == Decisions(by, at.ctx, view) IN
  IF by \in paused \/ ds = {} THEN at ELSE Applied(at, by, CHOOSE d \in ds : TRUE)

\* _evaluate: the strategies in the order of registration.
Evaluated(v, ctx, view) ==
  LET start == [venue |-> v, ctx |-> ctx, signals |-> signals, intents |-> intents,
                pending |-> <<>>, exited |-> 0] IN
  Ran(Ran(Ran(start, Strategies[1], view), Strategies[2], view), Strategies[3], view)

---------------------------------------------------------------------------
\* The loop of ingest_once: the intents of a tick are pushed before the next one.
Tick(v, view) ==
  /\ pending = <<>> /\ Len(signals) < MaxSignals
  /\ LET at == Evaluated(v, Pushed(contexts[v], view.mid), view) IN
     /\ contexts' = [contexts EXCEPT ![v] = at.ctx]
     /\ signals' = at.signals
     /\ intents' = at.intents
     /\ pending' = at.pending
     /\ flattened' = [flattened EXCEPT ![v] = @ + at.exited]
  /\ UNCHANGED <<paused, orders, losses, lost>>

\* apply_book_view, of a book that has a mid.
ApplyBookView(v, tob) == FromTob(tob).mid > 0 /\ Tick(v, FromTob(tob))

\* apply_quote, of a quote that has a price.
ApplyRawQuote(v, px) == px > 0 /\ Tick(v, FromQuote(px))

\* ExecutionClient.push_intent: answered; refused or out of reach; or taken by S4 and
\* answered too late.
Pushes == {[taken |-> TRUE, raises |-> FALSE], [taken |-> FALSE, raises |-> TRUE],
           [taken |-> TRUE, raises |-> TRUE]}

\* mark_intent_acknowledged.
Acknowledged(id) ==
  [i \in DOMAIN intents |->
     IF intents[i].id = id THEN [intents[i] EXCEPT !.acknowledged = TRUE] ELSE intents[i]]

\* _push_intent: a push that raises is logged and forgotten.
PushIntent(push) ==
  LET intent == Head(pending)
      add(book, counts) == IF counts THEN [book EXCEPT ![intent.venue] = @ + intent.lots] ELSE book IN
  /\ pending # <<>> /\ pending' = Tail(pending)
  /\ push.raises => losses < MaxLosses
  /\ losses' = IF push.raises THEN losses + 1 ELSE losses
  /\ intents' = IF push.raises THEN intents ELSE Acknowledged(intent.id)
  /\ orders' = add(orders, push.taken)
  /\ lost' = add(lost, ~push.taken)
  /\ UNCHANGED <<contexts, signals, paused, flattened>>

\* cooldown_ms have passed since the last signal.
Cools(v) ==
  /\ contexts[v].hot /\ contexts' = [contexts EXCEPT ![v].hot = FALSE]
  /\ UNCHANGED <<signals, intents, paused, pending, orders, losses, lost, flattened>>

\* pause_strategy and resume_strategy.
Pause(ids) ==
  /\ paused' = paused \cup ids
  /\ UNCHANGED <<contexts, signals, intents, pending, orders, losses, lost, flattened>>

Resume(ids) ==
  /\ paused' = paused \ ids
  /\ UNCHANGED <<contexts, signals, intents, pending, orders, losses, lost, flattened>>

\* POST /strategies/pause and /strategies/resume, of one strategy.
PauseOne(s) == Pause({s})
ResumeOne(s) == Resume({s})

\* pause_all, resume_all: one after the other, but ticks come between two iterations only.
PauseAll == Pause(Range(Strategies))
ResumeAll == Resume(Range(Strategies))

StrategyNext ==
  \/ \E v \in BookVenues :
       \/ Cools(v)
       \/ \E tob \in Tobs : ApplyBookView(v, tob)
       \/ \E px \in QuotePrices : ApplyRawQuote(v, px)
  \/ \E push \in Pushes : PushIntent(push)
  \/ \E s \in Range(Strategies) : PauseOne(s) \/ ResumeOne(s)
  \/ PauseAll
  \/ ResumeAll

StrategySpec == StrategyInit /\ [][StrategyNext]_strategyVars

---------------------------------------------------------------------------
LotsInFlight(v) ==
  LET sum[k \in 0..Len(pending)] ==
        IF k = 0 THEN 0
        ELSE sum[k - 1] + (IF pending[k].venue = v THEN pending[k].lots ELSE 0)
  IN  sum[Len(pending)]

\* Every lot of a position is accounted for: it was ordered, is on its way, was lost with
\* a push that failed, or was written off by an exit.  The caps scale the order and the
\* position alike (signal_engine.py:199, 221, 231).  And the intents left unacknowledged are
\* those still to push and those whose push failed.
LotsAreAccounted ==
  /\ \A v \in BookVenues :
       contexts[v].net + flattened[v] = orders[v] + LotsInFlight(v) + lost[v]
  /\ LET open == {i \in DOMAIN intents : ~intents[i].acknowledged} IN
     IF intents # <<>> /\ Last(intents).id > MaxIntents THEN Cardinality(open) <= Len(pending) + losses
     ELSE Cardinality(open) = Len(pending) + losses

\* Strategies that share a context never build more than the largest of their limits,
\* although each knows its own limit only (strategies.py:132, 191, 239).
PositionIsLimited ==
  \A v \in BookVenues : Lots(contexts[v].net) <= Max({MomMax, MrMax, ArbMax})

\* A signal the context lists is still OPEN, and it lists no more than the cap: what
\* expired has left the list (signal_engine.py:247).
ListedAreOpen ==
  \A v \in BookVenues :
    /\ Len(contexts[v].listed) <= MaxOpen
    /\ \A i \in Range(contexts[v].listed) : signals[i].status = "OPEN"

\* net_position is the "signed lots currently held by this strategy" (strategies.py:43):
\* while no push has failed it is what was ordered or is on its way.
PositionIsHeld ==
  losses = 0 => \A v \in BookVenues : contexts[v].net = orders[v] + LotsInFlight(v)

===========================================================================
