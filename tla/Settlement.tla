----------------------------- MODULE Settlement -----------------------------
(***************************************************************************)
(* The settlement runs of S14 (stls): submissions over HTTP, the pull of   *)
(* S6 positions, the sealing of a day, netting and reconciliation.         *)
(*                                                                         *)
(* Every engine call holds the lock; an ingest reads S6, then the date for *)
(* its fill ids, then settles under the date of that moment.  One account. *)
(* Prices, fees and quantities are integers; a seal is the content itself. *)
(***************************************************************************)
EXTENDS Integers, Sequences, FiniteSets, SequencesExt, Subsequences

CONSTANTS
  LastDay,        \* bound: days 1..LastDay go by
  Venues, FillIds,
  Posts,          \* what callers post: <<fills, statement lines>>, of tuples with the
                  \* fields <<id, venue, symbol, side, px, qty, fee>> and <<venue, symbol, side, px, qty>>
  Listing,        \* the symbols of S6, in the order it lists them
  BookRows,       \* the <<net quantity, average price>> a position can have
  Ingesters,      \* the loop and the threads of POST /ingest
  QtyTolerance,   \* cfg.matching.qty_tolerance
  MaxRows,        \* cfg.netting.max_net_positions_per_run
  MaxHistory,     \* cfg.retention.max_runs_per_date_history
  MaxFillsOfRun,  \* bound: fills of one run
  MaxMoves        \* bound: changes of positions

Sides == {"BUY", "SELL"}
FillFields == FillIds \X Venues \X Range(Listing) \X Sides \X Nat \X (Nat \ {0}) \X Nat
LineFields == Venues \X Range(Listing) \X Sides \X Nat \X (Nat \ {0})

\* validate_config.
ValidSettlementConfig ==
  QtyTolerance \in 0..1000 /\ MaxRows \in Nat \ {0} /\ MaxHistory \in Nat \ {0}

ASSUME SettlementAssumption ==
  /\ ValidSettlementConfig
  /\ LastDay \in Nat \ {0} /\ MaxFillsOfRun \in Nat /\ MaxMoves \in Nat
  /\ Listing \in Seq(Range(Listing)) /\ \A i, j \in DOMAIN Listing : Listing[i] = Listing[j] => i = j
  /\ \A row \in BookRows : row[1] \in Int /\ row[2] \in Nat
  /\ \A p \in Posts : p[1] \in Seq(FillFields) /\ p[2] \in Seq(LineFields)

VARIABLES
  today,     \* the day on the clock
  runs,      \* day -> its settlement run
  book,      \* S6: symbol -> its position (external)
  moves,
  ingest,    \* ingester -> where it is, the rows it pulled, the day of its fill ids
  straddled  \* history: days on which an ingest settled fills it had stamped the day before

settleVars == <<today, runs, book, moves, ingest, straddled>>

Days == 1..LastDay
Internal == "INTERNAL"
NoRun == [opened |-> FALSE, finalized |-> FALSE, fills |-> <<>>, lines |-> <<>>,
          revisions |-> <<>>, seal |-> <<>>]
RevisionEntry == [action : {"settle", "finalize"}, added : Nat]
IdleIngest == [at |-> "idle", rows |-> <<>>, day |-> 0]

SettleInit ==
  /\ today = 1
  /\ runs = [d \in Days |-> NoRun]
  /\ book \in [Range(Listing) -> BookRows]
  /\ moves = 0
  /\ ingest = [g \in Ingesters |-> IdleIngest]
  /\ straddled = {}

---------------------------------------------------------------------------
(* POST /settle. *)

\* parse_settlement_date: a calendar day that is not in the future.
IsSettlementDate(d) == d \in Days /\ d <= today

\* One fill of a submission: new, a duplicate, or a conflict that ends the call.
Take(acc, fill) ==
  LET same == {i \in DOMAIN acc.fills : acc.fills[i].id = fill.id} IN
  IF acc.conflict THEN acc
  ELSE IF same = {} THEN [acc EXCEPT !.fills = Append(@, fill), !.added = @ + 1]
  ELSE IF \A i \in same : acc.fills[i] = fill THEN acc
  ELSE [acc EXCEPT !.conflict = TRUE]

Taken(run, fills) ==
  LET taken[n \in 0..Len(fills)] ==
        IF n = 0 THEN [fills |-> run.fills, added |-> 0, conflict |-> FALSE]
        ELSE Take(taken[n - 1], fills[n])
  IN  taken[Len(fills)]

\* The lines of a submission replace those of their venues.
Replaced(old, new) ==
  LET venues == {l.venue : l \in Range(new)} IN
  Picked(old, {i \in DOMAIN old : old[i].venue \notin venues}) \o new

\* _record_revision.
Recorded(revisions, entry) ==
  LET all == Append(revisions, entry) IN
  IF Len(all) > MaxHistory THEN Tail(all) ELSE all

\* Mutant: a finalized run is not refused.
Settled_AlsoSealed(run, fills, lines) ==
  LET taken == Taken(run, fills) IN
  IF taken.conflict THEN [run EXCEPT !.opened = TRUE, !.fills = taken.fills]
  ELSE [run EXCEPT !.opened = TRUE, !.fills = taken.fills,
                   !.lines = Replaced(@, lines)]

\* parse_fill and parse_statement_line.
FillOfFields(f) == [id |-> f[1], venue |-> f[2], symbol |-> f[3], side |-> f[4], px |-> f[5],
                    qty |-> f[6], fee |-> f[7]]
LineOfFields(l) == [venue |-> l[1], symbol |-> l[2], side |-> l[3], px |-> l[4], qty |-> l[5]]

\* settle: a finalized run refuses; a conflict leaves the fills before it in the run,
\* and no revision of the call.
Settled(run, fills, lines) ==
  LET taken == Taken(run, fills) IN
  IF run.finalized THEN run
  ELSE IF taken.conflict THEN [run EXCEPT !.opened = TRUE, !.fills = taken.fills]
  ELSE [run EXCEPT !.opened = TRUE, !.fills = taken.fills,
                   !.lines = Replaced(@, lines),
                   !.revisions = Recorded(@, [action |-> "settle", added |-> taken.added])]

SettleRun(d, fills, lines) ==
  /\ Len(runs[d].fills) + Len(fills) <= MaxFillsOfRun
  /\ runs' = [runs EXCEPT ![d] = Settled(@, fills, lines)]

Settle(d, p) ==
  /\ IsSettlementDate(d)
  /\ SettleRun(d, [i \in DOMAIN p[1] |-> FillOfFields(p[1][i])],
                  [i \in DOMAIN p[2] |-> LineOfFields(p[2][i])])
  /\ UNCHANGED <<today, book, moves, ingest, straddled>>

\* _seal_digest: the hash of the snapshot; the netting that is hashed with it follows from the fills.
SealDigest(run) == <<run.fills, run.lines>>

\* finalize_eod of a run that exists; a second call changes nothing.
Finalize(d) ==
  /\ IsSettlementDate(d) /\ runs[d].opened /\ ~runs[d].finalized
  /\ runs' = [runs EXCEPT ![d].finalized = TRUE, ![d].seal = SealDigest(runs[d]),
                          ![d].revisions = Recorded(@, [action |-> "finalize", added |-> 0])]
  /\ UNCHANGED <<today, book, moves, ingest, straddled>>

---------------------------------------------------------------------------
(* The pull of S6. *)

Midnight ==
  /\ today < LastDay /\ today' = today + 1
  /\ UNCHANGED <<runs, book, moves, ingest, straddled>>

\* A fill in S6 (external).
PositionMoves(s) ==
  /\ moves < MaxMoves /\ moves' = moves + 1
  /\ \E row \in BookRows : row # book[s] /\ book' = [book EXCEPT ![s] = row]
  /\ UNCHANGED <<today, runs, ingest, straddled>>

\* pull_positions; a failed pull changes nothing.
Pull(g) ==
  /\ ingest[g].at = "idle"
  /\ ingest' = [ingest EXCEPT ![g] = [at |-> "pulled", day |-> 0,
       rows |-> [i \in DOMAIN Listing |-> [symbol |-> Listing[i], qty |-> book[Listing[i]][1],
                                           px |-> book[Listing[i]][2]]]]]
  /\ UNCHANGED <<today, runs, book, moves, straddled>>

\* today_date() for the ids of the synthetic fills.
Stamp(g) ==
  /\ ingest[g].at = "pulled"
  /\ ingest' = [ingest EXCEPT ![g].at = "stamped", ![g].day = today]
  /\ UNCHANGED <<today, runs, book, moves, straddled>>

\* Mutant: the quantity is part of the id.
Synthetic_ByQty(row, day) ==
  [id |-> <<day, row.symbol, row.qty>>, venue |-> Internal, symbol |-> row.symbol,
   side |-> IF row.qty > 0 THEN "BUY" ELSE "SELL", px |-> row.px,
   qty |-> IF row.qty > 0 THEN row.qty ELSE -row.qty, fee |-> 0]

\* The day-close fill of a position, whose id names its day and symbol only.
Synthetic(row, day) ==
  [id |-> <<day, row.symbol, 0>>, venue |-> Internal, symbol |-> row.symbol,
   side |-> IF row.qty > 0 THEN "BUY" ELSE "SELL", px |-> row.px,
   qty |-> IF row.qty > 0 THEN row.qty ELSE -row.qty, fee |-> 0]

\* ingest_from_positions: flat rows contribute nothing, the rest is one submission.
IngestRows(g) ==
  /\ ingest[g].at = "stamped"
  /\ LET pulled == ingest[g].rows
         rows == Picked(pulled, {i \in DOMAIN pulled : pulled[i].qty # 0})
         fills == [i \in DOMAIN rows |-> Synthetic(rows[i], ingest[g].day)] IN
     /\ IF fills = <<>> THEN UNCHANGED runs ELSE SettleRun(today, fills, <<>>)
     /\ straddled' = straddled \cup (IF ingest[g].day < today THEN {today} ELSE {})
  /\ ingest' = [ingest EXCEPT ![g] = IdleIngest]
  /\ UNCHANGED <<today, book, moves>>

\* POST /ingest and each pass of the loop; one that fails to pull, or whose run is sealed
\* or in conflict, has done nothing more than these steps.
Ingest(g) == Pull(g) \/ Stamp(g) \/ IngestRows(g)

SettleNext ==
  \/ Midnight
  \/ \E d \in Days : Finalize(d) \/ \E p \in Posts : Settle(d, p)
  \/ \E s \in Range(Listing) : PositionMoves(s)
  \/ \E g \in Ingesters : Ingest(g)

SettleSpec == SettleInit /\ [][SettleNext]_settleVars

---------------------------------------------------------------------------
(* Netting and reconciliation. *)

Signed(side, n) == IF side = "BUY" THEN n ELSE -n
Magnitude(n) == IF n < 0 THEN -n ELSE n

\* SideTotals of the entries at some indices: quantity with a sign, turnover, and worth with a sign.
SideTotals(entries, mine) ==
  [count |-> Cardinality(mine),
   net |-> SumAt([i \in DOMAIN entries |-> Signed(entries[i].side, entries[i].qty)], mine),
   gross |-> SumAt([i \in DOMAIN entries |-> entries[i].qty], mine),
   notional |-> SumAt([i \in DOMAIN entries |->
                         Signed(entries[i].side, entries[i].px * entries[i].qty)], mine)]

\* Mutant: sales are added to the quantity.
AggregateOf_Gross(entries, venue, symbol) ==
  LET mine == {i \in DOMAIN entries : entries[i].venue = venue /\ entries[i].symbol = symbol} IN
  [SideTotals(entries, mine) EXCEPT !.net = SumAt([i \in DOMAIN entries |-> entries[i].qty], mine)]

\* aggregate_fills and aggregate_statement: of one venue and symbol.
AggregateOf(entries, venue, symbol) ==
  SideTotals(entries, {i \in DOMAIN entries : entries[i].venue = venue /\ entries[i].symbol = symbol})

\* _avg_from is Magnitude(notional) / gross: whether two averages differ, without dividing.
AveragesDiffer(o, t) == Magnitude(o.notional) * t.gross # Magnitude(t.notional) * o.gross

\* matching_report, for one venue and symbol: quantity first, then price.
KindOf(o, t) ==
  IF o.count = 0 /\ t.count = 0 THEN "none"
  ELSE IF t.count = 0 THEN "MISSING_STATEMENT"
  ELSE IF o.count = 0 THEN "UNEXPECTED_SYMBOL"
  ELSE IF Magnitude(o.net - t.net) > QtyTolerance THEN "QTY_MISMATCH"
  ELSE IF AveragesDiffer(o, t) THEN "PRICE_MISMATCH"
  ELSE "none"

\* What is flagged for review, with its severity.
Discrepancy(kind, venue, symbol, o, t) ==
  [kind |-> kind, venue |-> venue, symbol |-> symbol, our_qty |-> o.net, stmt_qty |-> t.net,
   our_notional |-> o.notional, stmt_notional |-> t.notional,
   severity |-> IF kind \in {"QTY_MISMATCH", "MISSING_STATEMENT"} THEN "CRITICAL" ELSE "WARNING"]

\* matching_report: of every venue and symbol that either side has.
MatchingReport(run) ==
  LET keys == {<<e.venue, e.symbol>> : e \in Range(run.fills) \cup Range(run.lines)}
      o(k) == AggregateOf(run.fills, k[1], k[2])
      t(k) == AggregateOf(run.lines, k[1], k[2]) IN
  {Discrepancy(KindOf(o(k), t(k)), k[1], k[2], o(k), t(k)) :
     k \in {c \in keys : KindOf(o(c), t(c)) # "none"}}

\* One row of the netting: the quantity that is left and the cash that moved.
NetPosition(fills, symbol) ==
  LET totals == SideTotals(fills, {i \in DOMAIN fills : fills[i].symbol = symbol}) IN
  [symbol |-> symbol, fill_count |-> totals.count, net |-> totals.net, flow |-> -totals.notional]

\* Mutant: a symbol that is flat is dropped although it made cash.
NetPositions_DropsFlat(fills) ==
  LET all == [i \in DOMAIN Listing |-> NetPosition(fills, Listing[i])] IN
  Picked(all, {i \in DOMAIN all : all[i].net # 0})

\* compute_net_positions: per symbol, without the flat ones, in order and cut at the cap.
NetPositions(fills) ==
  LET all == [i \in DOMAIN Listing |-> NetPosition(fills, Listing[i])]
      rows == Picked(all, {i \in DOMAIN all :
                             all[i].fill_count > 0 /\ ~(all[i].net = 0 /\ all[i].flow = 0)}) IN
  IF Len(rows) > MaxRows THEN SubSeq(rows, 1, MaxRows) ELSE rows

\* compute_cash_summary.
CashSummary(fills) ==
  LET fees == SumAt([i \in DOMAIN fills |-> fills[i].fee], DOMAIN fills) IN
  [fees |-> fees, net_cash |-> -SideTotals(fills, DOMAIN fills).notional - fees]

RunSummary(run) ==
  [finalized |-> run.finalized, fill_count |-> Len(run.fills), content_hash |-> run.seal]

\* GET /reports/{date}: all of it is computed when it is read.
ReportOf(run) ==
  [run |-> RunSummary(run),
   net_positions |-> NetPositions(run.fills),
   cash_summary |-> CashSummary(run.fills),
   discrepancies |-> MatchingReport(run),
   revisions |-> run.revisions,
   verify_hash |-> IF run.finalized THEN SealDigest(run) ELSE <<>>]

---------------------------------------------------------------------------
\* The content hash of a sealed day verifies for ever: nothing a later submission, ingest
\* or conflict does reaches the run (settlement_engine.py:96, 249).
SealVerifies ==
  \A d \in Days : runs[d].finalized =>
    LET report == ReportOf(runs[d]) IN report.run.content_hash = report.verify_hash

\* Repeated pulls settle a position once: no run nets two day-close fills of one symbol,
\* whatever the position does, except that an ingest that straddles midnight settles the
\* fills of one day in the run of the next (settlement_engine.py:391, 429).
PositionSettledOnce ==
  \A d \in Days \ straddled :
    \A i, j \in DOMAIN runs[d].fills :
      LET f == runs[d].fills[i]
          g == runs[d].fills[j] IN
      f.venue = Internal /\ g.venue = Internal /\ f.symbol = g.symbol => i = j

\* The two views of a day's cash agree: the flows of the net positions less the fees are
\* the net cash, as long as no row was cut (netting.py:131, 157).
CashViewsAgree ==
  \A d \in Days :
    LET rows == NetPositions(runs[d].fills)
        cash == CashSummary(runs[d].fills) IN
    Len(rows) < MaxRows =>
      cash.net_cash = SumAt([i \in DOMAIN rows |-> rows[i].flow], DOMAIN rows) - cash.fees

OneSided(entries, venue, symbol) ==
  Cardinality({e.side : e \in {x \in Range(entries) : x.venue = venue /\ x.symbol = symbol}}) <= 1

\* What the report does not flag is worth the same on both sides, where each side only
\* bought or only sold and no tolerance is given (reconcile.py:150).
ReconciledIsWorthTheSame ==
  \A d \in Days : LET flagged == MatchingReport(runs[d]) IN
    \A e \in Range(runs[d].fills) \cup Range(runs[d].lines) :
      \/ \E f \in flagged : f.venue = e.venue /\ f.symbol = e.symbol
      \/ QtyTolerance > 0
      \/ ~OneSided(runs[d].fills, e.venue, e.symbol) \/ ~OneSided(runs[d].lines, e.venue, e.symbol)
      \/ AggregateOf(runs[d].fills, e.venue, e.symbol).notional
            = AggregateOf(runs[d].lines, e.venue, e.symbol).notional

===========================================================================
