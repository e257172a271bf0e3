--------------------------- MODULE MCRiskManager --------------------------
(***************************************************************************)
(* The risk manager in two parts, so that neither pays for the states of   *)
(* the other: each behaviour is one of the checks, or one of the           *)
(* kill-switch handlers over open orders that change under them.           *)
(***************************************************************************)
EXTENDS RiskManager

CONSTANTS ES, NQ, o1

VARIABLE part   \* which of the two moves; chosen in the initial state

mcVars == <<vars, part>>

Req(symbol, side, qty, px) == [symbol |-> symbol, side |-> side, qty |-> qty, px |-> px]

\* A plain order, one large enough to break three limits at once, and one without
\* a limit price, which is priced at the mid.
MCRequests == { Req(ES, "BUY", 1, 2), Req(ES, "BUY", 4, 3), Req(NQ, "SELL", 1, 0) }

MCReports == { [id |-> 1, symbol |-> ES, side |-> "BUY", qty |-> 2, price |-> 2] }

\* One lot below the large order, notionals that the plain order brings to 80%
\* when two lots are held.
MCScalars == [positionQty |-> 3, symbolNotional |-> 7, portfolioNotional |-> 9,
              orderQty |-> 3, orderNotional |-> 10, minPrice |-> 0]

\* A tighter order size for all and a tighter position for one symbol.
MCUpdates == { [scalar |-> [orderQty |-> 0],
                overrides |-> [s \in {ES} |-> [k \in {"positionQty"} |-> 2]]] }

MCMids == {0, 3}

MCInit == Init /\ part \in {"checks", "switch"}

ChecksNext ==
  \/ \E r \in Requests : PreTradeCheck(r)
  \/ \E f \in FillReports : IngestFill(f)
  \/ \E ids \in SUBSET {o1} : SetOpenOrders(ids)
  \/ \E symbol \in Symbols, mid \in BookMids : SetReferencePrice(symbol, mid)
  \/ \E u \in LimitUpdates : UpdateLimits(u)
  \/ ResetLimits
  \/ Disengage
  \/ Tick

SwitchNext ==
  \/ \E ids \in SUBSET OrderIds : SetOpenOrders(ids)
  \/ \E t \in Threads : EngageStep(t)
  \/ Disengage

MCNext ==
  \/ part = "checks" /\ ChecksNext /\ UNCHANGED part
  \/ part = "switch" /\ SwitchNext /\ UNCHANGED part

\* The fairness of FairSpec, where the handlers move.
MCSpec ==
  /\ MCInit /\ [][MCNext]_mcVars
  /\ \A t \in Threads :
       WF_mcVars(part = "switch" /\ (ListOpenOrders(t) \/ CancelNext(t)) /\ UNCHANGED part)

===========================================================================
