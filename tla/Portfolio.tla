----------------------------- MODULE Portfolio -----------------------------
(***************************************************************************)
(* The analytics of S9 (pfa): the refresh loop that pulls the positions of *)
(* S6, the rolling series of equities, and what is computed from it.       *)
(*                                                                         *)
(* Money is an integer, a return is an integer multiple of 1/Scale and a   *)
(* drawdown is a fraction, so that no rounding is involved.  The readers   *)
(* of HTTP compute from what they copied under the lock: a state.          *)
(***************************************************************************)
EXTENDS Integers, Sequences, FiniteSets, SequencesExt, FiniteSetsExt, Functions, Subsequences

CONSTANTS
  Assets,         \* the symbols of the book
  AssetRows,      \* the rows S6 lists for one: net_qty, avg_price, ref_px (<<>> if there is
                  \* none), last_fill_px, realized_pnl
  MaxPoints,      \* cfg.history.max_history_points
  MinReturns,     \* cfg.history.min_samples_for_var
  TailPer4,       \* 1 - confidence, in quarters
  Scale           \* a multiple of every equity that occurs

\* validate_config: the tail is less than a half.
ValidAnalyticsConfig ==
  MaxPoints \in Nat \ {0, 1} /\ MinReturns \in Nat \ {0, 1} /\ TailPer4 = 1

ASSUME PortfolioAssumption ==
  /\ ValidAnalyticsConfig
  /\ Scale \in Nat \ {0}
  /\ \A row \in AssetRows : row \in Int \X Nat \X (Seq(Nat)) \X Nat \X Int

VARIABLES
  listed,      \* S6: the positions it lists, by symbol (external)
  pulled,      \* the listing the refresh loop holds, if any
  holdings,    \* _positions
  series       \* _equity_series, samples of the equity and its parts, oldest first

portfolioVars == <<listed, pulled, holdings, series>>

Nobody == [a \in {} |-> <<>>]

PortfolioInit ==
  /\ listed = Nobody /\ pulled = {} /\ holdings = Nobody /\ series = <<>>

Abs(n) == IF n < 0 THEN -n ELSE n

\* PositionRow.from_dict and mark: the reference price, or else that of the last fill.
PositionRow(raw) ==
  [net_qty |-> raw[1], avg_price |-> raw[2], realized |-> raw[5],
   mark |-> IF raw[3] = <<>> THEN raw[4] ELSE raw[3][1]]

\* PositionRow.effective_unrealized.
Unrealized(row) == IF row.net_qty = 0 THEN 0 ELSE row.net_qty * (row.mark - row.avg_price)

\* The sum of a number for each symbol.
SumOver(f) ==
  LET symbols == SetToSeq(DOMAIN f) IN
  SumAt([i \in DOMAIN symbols |-> f[symbols[i]]], DOMAIN symbols)

\* What the map of positions can be.
Holdings == UNION {[symbols -> {PositionRow(raw) : raw \in AssetRows}] : symbols \in SUBSET Assets}

EquitySample ==
  [held \in Holdings |->
     LET realized == SumOver([a \in DOMAIN held |-> held[a].realized])
         unrealized == SumOver([a \in DOMAIN held |-> Unrealized(held[a])]) IN
     [equity |-> realized + unrealized, realized |-> realized, unrealized |-> unrealized,
      market_value |-> SumOver([a \in DOMAIN held |-> Abs(held[a].net_qty) * held[a].mark])]]

\* The meaning of Scale: no return is rounded.
ASSUME ScaleAssumption ==
  /\ IsFiniteSet(Assets)
  /\ \A held \in Holdings :
       LET equity == EquitySample[held].equity IN equity = 0 \/ Scale % Abs(equity) = 0

---------------------------------------------------------------------------
(* S6 and the refresh loop. *)

\* A fill in S6 (external).
BookTrades(a) ==
  /\ \E row \in AssetRows : listed' = [b \in DOMAIN listed \cup {a} |-> IF b = a THEN row ELSE listed[b]]
  /\ UNCHANGED <<pulled, holdings, series>>

\* S6 restarts with an empty book (external).
BookRestarts == listed' = Nobody /\ UNCHANGED <<pulled, holdings, series>>

\* _request: an answer, or one exception for whatever went wrong.
Outcomes(body) == {[ok |-> TRUE, body |-> body], [ok |-> FALSE, body |-> Nobody]}

\* _pull_positions; a failed pull is a listing of nothing.
PullListing ==
  /\ pulled = {}
  /\ \E outcome \in Outcomes(listed) : pulled' = {outcome.body}
  /\ UNCHANGED <<listed, holdings, series>>

\* Mutant: the rows are merged into the map.
Ingested_Merged(rows) == [a \in DOMAIN holdings \cup DOMAIN rows |->
                            IF a \in DOMAIN rows THEN PositionRow(rows[a]) ELSE holdings[a]]

\* The map is replaced wholesale.
Ingested(rows) == [a \in DOMAIN rows |-> PositionRow(rows[a])]

\* _append_equity_sample_locked.
Sampled(held) ==
  LET all == Append(series, EquitySample[held]) IN
  IF Len(all) > MaxPoints THEN SubSeq(all, Len(all) - MaxPoints + 1, Len(all)) ELSE all

\* ingest_positions: an empty listing is no data.
IngestListing ==
  /\ pulled' = {}
  /\ \E rows \in pulled :
       IF rows = Nobody THEN UNCHANGED <<holdings, series>>
       ELSE /\ holdings' = Ingested(rows)
            /\ series' = Sampled(Ingested(rows))
  /\ UNCHANGED listed

PortfolioNext ==
  \/ \E a \in Assets : BookTrades(a)
  \/ BookRestarts
  \/ PullListing
  \/ IngestListing

\* A refresh goes on whatever happened; S6 answers again after it failed.
RefreshSucceeds == PullListing /\ pulled' = {listed}

PortfolioFairness ==
  WF_portfolioVars(IngestListing) /\ SF_portfolioVars(RefreshSucceeds)

PortfolioSpec == PortfolioInit /\ [][PortfolioNext]_portfolioVars /\ PortfolioFairness

---------------------------------------------------------------------------
(* What the pages show. *)

\* _pnl_rows_locked, and pnl(): the rows of the holdings and their totals.
PnlRows ==
  [a \in DOMAIN holdings |->
     [net_qty |-> holdings[a].net_qty, realized |-> holdings[a].realized,
      unrealized |-> Unrealized(holdings[a]),
      total |-> holdings[a].realized + Unrealized(holdings[a])]]

Pnl ==
  LET realized == SumOver([a \in DOMAIN PnlRows |-> PnlRows[a].realized])
      unrealized == SumOver([a \in DOMAIN PnlRows |-> PnlRows[a].unrealized]) IN
  [realized |-> realized, unrealized |-> unrealized, total |-> realized + unrealized]

\* attribution(): the size of each part against that of the sum, not of all sizes.
Attribution ==
  LET grand == SumOver([a \in DOMAIN PnlRows |-> PnlRows[a].total]) IN
  [grand_total |-> grand,
   rows |-> [a \in DOMAIN PnlRows |->
               [total |-> PnlRows[a].total,
                weight |-> IF grand = 0 THEN <<0, 1>> ELSE <<Abs(PnlRows[a].total), Abs(grand)>>]]]

\* stats_view.
EngineStats ==
  [positions_tracked |-> Cardinality(DOMAIN holdings), equity_samples |-> Len(series),
   current_equity |-> EquitySample[holdings].equity]

---------------------------------------------------------------------------
(* Returns, drawdowns, value at risk. *)

Equities == [i \in 1..Len(series) |-> series[i].equity]

\* _returns_locked, times Scale.
Returns ==
  [i \in 1..(IF series = <<>> THEN 0 ELSE Len(series) - 1) |->
     IF Equities[i] = 0 THEN 0
     ELSE (Equities[i + 1] - Equities[i]) * (Scale \div Abs(Equities[i]))]

\* _win_rate_pct, as a number of returns.
Wins(returns) == Cardinality({i \in DOMAIN returns : returns[i] > 0})

\* _sharpe: there is one when the returns vary.
HasSharpe(returns) == Len(returns) >= 2 /\ Cardinality(Range(returns)) > 1

\* _annualized_return: from the first equity to the last, if both are positive; it is a gain
\* when the last is the higher one.
HasAnnualized(s) == Len(s) >= 2 /\ s[1] > 0 /\ Last(s) > 0

\* The running peak.
PeakAt(s, i) == Max({s[j] : j \in 1..i})

\* The decline at i as a fraction, zero while the peak is not positive.
Decline(s, i) ==
  IF PeakAt(s, i) > 0 THEN <<s[i] - PeakAt(s, i), PeakAt(s, i)>> ELSE <<0, 1>>

NotAbove(p, q) == p[1] * q[2] <= q[1] * p[2]

\* _max_drawdown_pct: the worst decline, or none.
WorstDecline(s) ==
  LET all == {Decline(s, i) : i \in DOMAIN s} \cup {<<0, 1>>} IN
  CHOOSE d \in all : \A e \in all : NotAbove(d, e)

\* _current_drawdown_pct: from the highest equity to the last one.
CurrentDecline(s) ==
  IF s = <<>> \/ Max(Range(s)) <= 0 THEN <<0, 1>>
  ELSE <<Last(s) - Max(Range(s)), Max(Range(s))>>

\* The k-th smallest of the returns: sorted(returns)[k - 1].
Ranked(returns, k) ==
  CHOOSE r \in Range(returns) :
    /\ Cardinality({i \in DOMAIN returns : returns[i] < r}) < k
    /\ Cardinality({i \in DOMAIN returns : returns[i] <= r}) >= k

\* _historical_var: the quantile of the sorted returns, in quarters of 1/Scale.
Quantile(returns) ==
  LET idx == TailPer4 * (Len(returns) - 1)
      lo == idx \div 4
      frac == idx % 4
      hi == IF lo + 1 > Len(returns) - 1 THEN Len(returns) - 1 ELSE lo + 1 IN
  Ranked(returns, lo + 1) * (4 - frac) + Ranked(returns, hi + 1) * frac

\* Mutant: the tail is what lies above the quantile.
Tail4_Upper(returns) == {i \in DOMAIN returns : 4 * returns[i] >= Quantile(returns)}

\* The observations at or below the quantile; the worst one if there is none.
Tail4(returns) ==
  LET below == {i \in DOMAIN returns : 4 * returns[i] <= Quantile(returns)} IN
  IF below # {} THEN below ELSE {i \in DOMAIN returns : returns[i] = Min(Range(returns))}

TailSum(returns) == SumAt(returns, Tail4(returns))

\* var(), by the historical method.
VarResult ==
  IF Len(Returns) < MinReturns
  THEN [insufficient_data |-> TRUE, samples |-> Len(Returns), quantile |-> 0, tail |-> {}]
  ELSE [insufficient_data |-> FALSE, samples |-> Len(Returns), quantile |-> Quantile(Returns),
        tail |-> Tail4(Returns)]

\* metrics().
PortfolioMetrics ==
  [samples |-> Len(series), wins |-> Wins(Returns), has_sharpe |-> HasSharpe(Returns),
   has_annualized |-> HasAnnualized(Equities), max_drawdown |-> WorstDecline(Equities),
   current_drawdown |-> CurrentDecline(Equities)]

---------------------------------------------------------------------------
\* Once S6's book rests, the analytics show it, or it is empty: an empty listing is
\* taken for an outage, and the last positions stay (analytics_engine.py:262, 282).
PositionsFollowBook ==
  <>[][UNCHANGED listed]_portfolioVars =>
    <>[](holdings = [a \in DOMAIN listed |-> PositionRow(listed[a])] \/ listed = Nobody)

\* The current drawdown is never deeper than the worst, and a series that gained had a
\* winning period or touched zero, from which no return is measured.
MetricsAgree ==
  LET m == PortfolioMetrics IN
  /\ NotAbove(m.max_drawdown, m.current_drawdown)
  /\ NotAbove(m.current_drawdown, <<0, 1>>)
  /\ m.has_annualized /\ Last(Equities) > Equities[1] =>
       m.wins > 0 \/ \E i \in DOMAIN series : Equities[i] = 0

\* The mean loss of the tail lies between the value at risk and the worst loss.
TailIsBeyondVar ==
  LET v == VarResult
      n == Cardinality(v.tail) IN
  ~v.insufficient_data =>
    /\ n > 0 /\ 4 * TailSum(Returns) <= n * v.quantile
    /\ TailSum(Returns) >= n * Min(Range(Returns))

\* The profit and loss of the positions, the sum of the attributed parts, the equity of the
\* status page and the last sample of the series are the same money.
PagesAgree ==
  series # <<>> =>
    /\ Last(series).equity = Pnl.total /\ EngineStats.current_equity = Pnl.total
    /\ SumOver([a \in DOMAIN holdings |-> Attribution.rows[a].total]) = Pnl.total
    /\ Last(series).realized = Pnl.realized

\* The statistics of one book and one series agree, though each is computed in its own way
\* (analytics_engine.py:80, 96, 107, 164, 269, 310, 354).
StatisticsAgree == MetricsAgree /\ TailIsBeyondVar /\ PagesAgree

===========================================================================
