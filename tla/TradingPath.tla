---------------------------- MODULE TradingPath ---------------------------
(***************************************************************************)
(* The risk manager (S5) beside the order flow.  An order intent reaches   *)
(* the execution gateway (S4) by one of two ways:                          *)
(*                                                                         *)
(*   - a client asks POST /pre-trade-check and, when the answer is 200,    *)
(*     posts the order to S4: two requests, with nothing reserved between  *)
(*     them;                                                               *)
(*   - the strategy engine (S3) posts its intents straight to S4           *)
(*     (ste/main.py:145-155).                                              *)
(*                                                                         *)
(* S4 fills an accepted order in full at its limit price; that is one step *)
(* here.  S5 learns of the fill when its ingest loop polls GET /fills.     *)
(***************************************************************************)
EXTENDS Integers, Sequences, FiniteSets

CONSTANTS
  Symbols, Requests, DefaultScalars, MaxOrdersPerSymbol, MaxOrdersTotal, BreachesRetained,
  SeenCap, SeenKeep, MaxChecks,
  Clients,      \* who asks before it posts
  PollLimit,    \* 512
  MaxFills,     \* bound: fills of the gateway
  MaxRestarts,  \* bound: restarts of the risk manager
  None          \* what an idle client holds

ASSUME PathAssumption ==
  /\ PollLimit \in Nat \ {0} /\ MaxFills \in Nat /\ MaxRestarts \in Nat
  /\ None \notin Requests

VARIABLES
  limits, positions, openOrders, refPrices, velocity, velocityAll, killSwitch, breaches, stats,
  seen, now, flatten, cancelled, allowedLog, allowedAll,
  holds,      \* client -> the request S5 has allowed it and it has not posted yet
  fills,      \* the fills S4 has reported, oldest first
  batch,      \* the rest of the poll answer S5's loop is working through
  unguarded,  \* history: whether an order was sent that S5 had not judged in full knowledge
  restarts

riskVars == <<limits, positions, openOrders, refPrices, velocity, velocityAll, killSwitch,
              breaches, stats, seen, now, flatten, cancelled, allowedLog, allowedAll>>
vars == <<riskVars, holds, fills, batch, unguarded, restarts>>

FillOf(n, r) == [id |-> n, symbol |-> r.symbol, side |-> r.side, qty |-> r.qty, price |-> r.px]

\* Limits are not changed, the clock stands still and no order is open: what these
\* do is the subject of RiskManager's own runs.
Risk == INSTANCE RiskManager WITH
  FillReports <- {FillOf(n, r) : n \in 1..MaxFills, r \in Requests},
  OrderIds <- {}, BookMids <- {}, LimitUpdates <- {}, Window <- 1, MaxOpenOrders <- 1,
  AutoEngage <- FALSE, Threads <- {}, MaxTime <- 0, MaxEngagements <- 0

ASSUME RiskAssumption ==
  Risk!RequestsAssumption /\ Risk!ReportsAssumption /\ Risk!LimitsAssumption /\ Risk!ConfigAssumption

---------------------------------------------------------------------------
Init ==
  /\ Risk!Init
  /\ holds = [c \in Clients |-> None]
  /\ fills = <<>>
  /\ batch = <<>>
  /\ unguarded = FALSE
  /\ restarts = 0

\* Every allowed order has been filled, and the running S5 has taken in every fill.
Settled ==
  /\ \A c \in Clients : holds[c] = None
  /\ \A n \in DOMAIN fills : fills[n].id \in seen

Ask(c, r) ==
  /\ holds[c] = None
  /\ Risk!PreTradeCheck(r)
  /\ holds' = [holds EXCEPT ![c] = IF Risk!Allowed(r) THEN r ELSE None]
  /\ unguarded' = (unguarded \/ (Risk!Allowed(r) /\ ~Settled))
  /\ UNCHANGED <<fills, batch, restarts>>

Execute(r) ==
  /\ Len(fills) < MaxFills
  /\ fills' = Append(fills, FillOf(Len(fills) + 1, r))
  /\ UNCHANGED <<riskVars, batch, restarts>>

Post(c) ==
  /\ holds[c] # None
  /\ Execute(holds[c])
  /\ holds' = [holds EXCEPT ![c] = None]
  /\ UNCHANGED unguarded

\* _push_intent of the strategy engine.
StrategyPush(r) ==
  /\ Execute(r)
  /\ unguarded' = TRUE
  /\ UNCHANGED holds

\* Mutant: the answer is one fill short.
Poll_OneShort ==
  /\ batch = <<>>
  /\ fills # <<>>
  /\ batch' = [k \in 1..Risk!Lesser(PollLimit, Len(fills) - 1) |-> fills[Len(fills) + 1 - k]]
  /\ UNCHANGED <<riskVars, holds, fills, unguarded, restarts>>

\* GET /fills, the newest first.  A poll that fails changes nothing.
Poll ==
  /\ batch = <<>>
  /\ fills # <<>>
  /\ batch' = [k \in 1..Risk!Lesser(PollLimit, Len(fills)) |-> fills[Len(fills) + 1 - k]]
  /\ UNCHANGED <<riskVars, holds, fills, unguarded, restarts>>

IngestNext ==
  /\ batch # <<>>
  /\ IF Head(batch).id \in seen THEN UNCHANGED riskVars ELSE Risk!IngestFill(Head(batch))
  /\ batch' = Tail(batch)
  /\ UNCHANGED <<holds, fills, unguarded, restarts>>

\* The HTTP API listens before the first poll (rkm/main.py:255-260).
RiskRestart ==
  /\ restarts < MaxRestarts
  /\ restarts' = restarts + 1
  /\ Risk!Restart
  /\ batch' = <<>>
  /\ UNCHANGED <<holds, fills, unguarded>>

Next ==
  \/ \E c \in Clients, r \in Requests : Ask(c, r)
  \/ \E c \in Clients : Post(c)
  \/ \E r \in Requests : StrategyPush(r)
  \/ Poll
  \/ IngestNext
  \/ RiskRestart

Spec == Init /\ [][Next]_vars

\* The ingest loop of S5 "must never die" (rkm/main.py:227) and polls every
\* poll_interval_ms; S4 answers now and again.
FairSpec == Spec /\ WF_vars(Poll) /\ WF_vars(IngestNext)

---------------------------------------------------------------------------
\* Properties

\* The lots the fills 1..n of S4 amount to.
VenueNet(symbol) ==
  LET net[n \in 0..Len(fills)] ==
        IF n = 0 THEN 0
        ELSE net[n - 1] + IF fills[n].symbol = symbol
                          THEN Risk!Signed(fills[n].side, fills[n].qty) ELSE 0
  IN  net[Len(fills)]

\* The "hard cap on |net position| lots per symbol" (rkm/config.py:34) holds at the
\* venue, restarts of S5 included, as long as every order sent was allowed by a check
\* that knew every earlier fill while no other allowed order was on its way.  The
\* check projects its own order only (risk_engine.py:311-318), so nothing less is enough.
PositionCapHolds ==
  ~unguarded =>
    \A s \in Symbols : Risk!Magnitude(VenueNet(s)) <= DefaultScalars["positionQty"]

\* S5's exposure catches up with S4: in the end its net lots are what the fills
\* amount to, although polls overlap and answers come newest first
\* (rkm/main.py:169-198).
ExposureCatchesUp ==
  <>[](\A s \in Symbols : Risk!PositionOf(s).net = VenueNet(s))

===========================================================================
