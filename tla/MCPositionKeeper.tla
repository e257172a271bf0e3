------------------------- MODULE MCPositionKeeper -------------------------
(***************************************************************************)
(* Positions: the ledger, the books of one of its positions at length, and *)
(* what the strategies believe to hold.  Each behaviour is one of them.    *)
(***************************************************************************)
EXTENDS PositionKeeper, PositionAccounting, Strategy

CONSTANTS ES, NQ, CL

VARIABLE part   \* which of the three moves; chosen in the initial state

mcVars == <<vars, accountVars, strategyVars, part>>

FillRec(id, symbol, side, qty) ==
  [id |-> id, symbol |-> symbol, side |-> side, qty |-> qty, price |-> 1]

\* Four ids for three symbols, one more than the ledger has room for; id 1 is
\* reported with two contents, as it is after a restart of the execution gateway.
MCFills == { FillRec(1, ES, "BUY", 3), FillRec(1, NQ, "SELL", 1), FillRec(2, ES, "SELL", 2),
             FillRec(3, CL, "BUY", 1), FillRec(4, ES, "BUY", 1) }

MCDeltas == {-1}

MCFactors == { [num |-> 1, den |-> 2] }

\* An empty book reports a mid of 0.
MCBookMids == {0, 1}

\* Two for one, and a one-for-two reverse split, which rounds odd lots.
MCSplitFactors == { [num |-> 2, den |-> 1], [num |-> 1, den |-> 2] }

\* No new average, or a rebasing to 2.
MCNewAverages == {-1, 2}

MCCorrections == {-1, 2}

\* A book with a bid four times the ask, a tight one that asks more, and a one-sided one.
MCTobs == {[bb_qty |-> 4, ba_qty |-> 1, mid |-> 2, spread_ticks |-> 3],
           [bb_qty |-> 1, ba_qty |-> 2, mid |-> 2, spread_ticks |-> 1],
           [bb_qty |-> 1, ba_qty |-> 0, mid |-> 0, spread_ticks |-> 0]}

MCInit == Init /\ AccountInit /\ StrategyInit /\ part \in {"ledger", "account", "strategy"}

MCNext ==
  \/ part = "ledger" /\ Next /\ UNCHANGED <<accountVars, strategyVars, part>>
  \/ part = "account" /\ AccountNext /\ UNCHANGED <<vars, strategyVars, part>>
  \/ part = "strategy" /\ StrategyNext /\ UNCHANGED <<vars, accountVars, part>>

MCSpec == MCInit /\ [][MCNext]_mcVars

===========================================================================
