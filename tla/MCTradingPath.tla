--------------------------- MODULE MCTradingPath --------------------------
(***************************************************************************)
(* The two followers of the book: S5, whose exposure gates the orders, and *)
(* the analytics of S9.  They share no variable, so each behaviour is one  *)
(* of the trading path or one of the analytics.                            *)
(***************************************************************************)
EXTENDS TradingPath, Portfolio

CONSTANT ES

VARIABLE part   \* which of the two moves; chosen in the initial state

mcVars == <<vars, portfolioVars, part>>

\* Two of the buys are one lot too many.
MCRequests == { [symbol |-> ES, side |-> "BUY", qty |-> 2, px |-> 1],
                [symbol |-> ES, side |-> "SELL", qty |-> 1, px |-> 2] }

MCScalars == [positionQty |-> 3, symbolNotional |-> 100, portfolioNotional |-> 100,
              orderQty |-> 3, orderNotional |-> 10, minPrice |-> 0]

\* A position with a reference price, and a short one that S2 has no price for.
MCAssetRows == {<<1, 1, <<3>>, 2, 0>>, <<-1, 1, <<>>, 2, 0>>}

MCInit == Init /\ PortfolioInit /\ part \in {"trading", "analytics"}

OnlyTrading == part = "trading" /\ UNCHANGED <<portfolioVars, part>>
OnlyAnalytics == part = "analytics" /\ UNCHANGED <<vars, part>>

MCNext ==
  \/ OnlyTrading /\ Next
  \/ OnlyAnalytics /\ PortfolioNext

\* The fairness of FairSpec and that of the refresh loop.
MCSpec ==
  /\ MCInit /\ [][MCNext]_mcVars
  /\ WF_mcVars(OnlyTrading /\ Poll) /\ WF_mcVars(OnlyTrading /\ IngestNext)
  /\ WF_mcVars(OnlyAnalytics /\ IngestListing) /\ SF_mcVars(OnlyAnalytics /\ RefreshSucceeds)

===========================================================================
