--------------------------- MODULE MCMarketData ---------------------------
(***************************************************************************)
(* The parts of the market data path that share no variable, checked in    *)
(* one run: each behaviour is one shard of the quote buffer of S1, the     *)
(* book of one symbol in S2, or one live stream of the dashboard.          *)
(***************************************************************************)
EXTENDS QuoteRing, OrderBook, LiveStream

VARIABLE part   \* which of the three moves; chosen in the initial state

mcVars == <<ringVars, bookVars, liveVars, part>>

MCQuoteKinds ==
  {[act |-> k[1], side |-> k[2], px |-> k[3], qty |-> k[4]] :
     k \in {<<"N", "BID", 1, 2>>, <<"E", "BID", 1, 1>>, <<"D", "BID", 1, 0>>,
            <<"M", "ASK", 1, 1>>, <<"M", "LAST", 1, 1>>}}

MCInit ==
  /\ RingInit /\ BookInit /\ LiveInit
  /\ part \in {"ring", "book", "live"}

MCNext ==
  \/ part = "ring" /\ RingNext /\ UNCHANGED <<bookVars, liveVars, part>>
  \/ part = "book" /\ BookNext /\ UNCHANGED <<ringVars, liveVars, part>>
  \/ part = "live" /\ LiveNext /\ UNCHANGED <<ringVars, bookVars, part>>

MCSpec == MCInit /\ [][MCNext]_mcVars

===========================================================================
