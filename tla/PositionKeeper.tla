-------------------------- MODULE PositionKeeper --------------------------
(***************************************************************************)
(* S6, the position ledger: posk.position_engine.PositionEngine.           *)
(*                                                                         *)
(* Every mutation runs under one re-entrant lock, so an operation of the   *)
(* engine is one action here, whichever thread calls it: the ingest loop   *)
(* (fills, reference prices, snapshots) or an HTTP thread (adjustments,    *)
(* corporate actions, snapshots).  A position is keyed by its symbol: the  *)
(* fills of S4 carry no account, so all of them go to the default one.     *)
(***************************************************************************)
EXTENDS AverageCost, Sequences, FiniteSets

CONSTANTS
  Fills,              \* the fill records the execution gateway may report
  Symbols,
  MaxPositions,       \* accounting.max_positions
  SeenCap, SeenKeep,  \* 200_000 and 100_000 of apply_fill
  HistoryCap,         \* history.max_events_per_symbol
  SnapshotRetention,  \* history.snapshot_retention
  Deltas,             \* delta_qty of an adjustment
  Factors,            \* factors of a SPLIT
  Dividends,          \* per_share of a DIVIDEND
  BookMids,           \* mid prices the order book reports
  MaxEvents           \* bound: events ever recorded

FillRecord == [id : Nat \ {0}, symbol : Symbols, side : {"BUY", "SELL"},
               qty : Nat \ {0}, price : Nat]

FillIds == {f.id : f \in Fills}

ASSUME FillsAssumption ==
  /\ IsFiniteSet(Fills)
  /\ \A f \in Fills : f.id \in Nat \ {0} /\ f.symbol \in Symbols
                      /\ f.side \in {"BUY", "SELL"} /\ f.qty \in Nat \ {0} /\ f.price \in Nat
ASSUME SeenAssumption == SeenCap \in Nat /\ SeenKeep \in 0..SeenCap

\* validate_config.
ValidKeeperConfig ==
  MaxPositions \in Nat \ {0} /\ HistoryCap \in Nat \ {0} /\ SnapshotRetention \in Nat \ {0}

ASSUME CapsAssumption == ValidKeeperConfig /\ MaxEvents \in Nat

\* What from_dict accepts of the bodies of POST /adjust (without new_avg_price, which is
\* the subject of PositionAccounting) and of POST /corporate-action.
AdjustmentRecord == [symbol : Symbols, delta_qty : Int \ {0}]

CorporateAction ==
  [type : {"SPLIT"}, symbol : Symbols, factor : [num : Nat \ {0}, den : Nat \ {0}]]
    \cup [type : {"DIVIDEND"}, symbol : Symbols, per_share : Nat]

Adjustments == [symbol : Symbols, delta_qty : Deltas]
CorporateActions == [type : {"SPLIT"}, symbol : Symbols, factor : Factors]
                      \cup [type : {"DIVIDEND"}, symbol : Symbols, per_share : Dividends]

ASSUME InputsAssumption ==
  /\ Adjustments \subseteq AdjustmentRecord
  /\ CorporateActions \subseteq CorporateAction
  /\ BookMids \subseteq Int

VARIABLES
  positions,   \* symbol -> position, for the symbols ever filled
  seen,        \* _seen_fill_ids
  history,     \* symbol -> its bounded deque of events
  historySeq,  \* _history_seq
  refPrices,   \* symbol -> mark, for the symbols that have one
  snapshots,   \* bounded deque of snapshots
  fillsApplied,\* stats["fills_applied"]
  applied,     \* history: fill id -> how often it was applied
  trimmed      \* history: whether seen was ever cut back

ledger == <<positions, history, historySeq>>
dedup  == <<seen, fillsApplied, applied, trimmed>>
marks  == <<refPrices, snapshots>>
vars   == <<ledger, dedup, marks>>

---------------------------------------------------------------------------
\* f with key mapped to value, whether or not it was in the domain.
Put(f, key, value) == [k \in DOMAIN f \cup {key} |-> IF k = key THEN value ELSE f[k]]

\* Append to a deque that keeps the newest `cap` items.
Push(deque, item, cap) ==
  LET longer == Append(deque, item)
  IN  IF Len(longer) > cap THEN Tail(longer) ELSE longer

\* A history entry, reduced to what it did to the lots.
Event == [seq : Nat \ {0}, kind : {"FILL", "ADJUSTMENT", "SPLIT", "DIVIDEND"},
          lots : Int, factor : [num : Nat \ {0}, den : Nat \ {0}]]

Events(symbol) == IF symbol \in DOMAIN history THEN history[symbol] ELSE <<>>

\* _record_history
Record(symbol, kind, lots, factor) ==
  /\ historySeq < MaxEvents
  /\ historySeq' = historySeq + 1
  /\ history' = Put(history, symbol,
                    Push(Events(symbol), [seq |-> historySeq + 1, kind |-> kind,
                                          lots |-> lots, factor |-> factor], HistoryCap))

---------------------------------------------------------------------------
Init ==
  /\ positions = <<>>
  /\ seen = {}
  /\ history = <<>>
  /\ historySeq = 0
  /\ refPrices = <<>>
  /\ snapshots = <<>>
  /\ fillsApplied = 0
  /\ applied = [i \in FillIds |-> 0]
  /\ trimmed = FALSE

HasRoom(symbol) ==
  symbol \in DOMAIN positions \/ Cardinality(DOMAIN positions) < MaxPositions

\* list_positions, without the flat ones.
OpenPositions ==
  [symbol \in {s \in DOMAIN positions : positions[s].net # 0} |-> positions[symbol]]

PositionOf(symbol) ==
  IF symbol \in DOMAIN positions THEN positions[symbol] ELSE FlatPosition

\* Beyond the cap, an arbitrary part of the set is kept: `list` of a set has no
\* order the code could rely on.
MarkSeen(id) ==
  LET grown == seen \cup {id} IN
  IF Cardinality(grown) > SeenCap
  THEN /\ \E kept \in SUBSET grown : Cardinality(kept) = SeenKeep /\ seen' = kept
       /\ trimmed' = TRUE
  ELSE seen' = grown /\ UNCHANGED trimmed

\* apply_fill, its normal path.
AcceptFill(f) ==
  /\ f.id \notin seen
  /\ HasRoom(f.symbol)
  /\ positions' = Put(positions, f.symbol,
                      FillPosition(PositionOf(f.symbol), f.side, f.qty, f.price))
  /\ MarkSeen(f.id)
  /\ fillsApplied' = fillsApplied + 1
  /\ applied' = [applied EXCEPT ![f.id] = @ + 1]
  /\ Record(f.symbol, "FILL", Signed(f.side, f.qty), Whole(1))
  /\ UNCHANGED marks

\* Mutant: the id is marked before the capacity check, so a refused fill is lost.
RejectFill_MarksTheId(f) ==
  /\ f.id \in seen \/ ~HasRoom(f.symbol)
  /\ IF f.id \in seen THEN UNCHANGED <<seen, trimmed>> ELSE MarkSeen(f.id)
  /\ UNCHANGED <<ledger, fillsApplied, applied, marks>>

\* DuplicateFillError, and the capacity error, which leaves the id unmarked.
RejectFill(f) ==
  /\ f.id \in seen \/ ~HasRoom(f.symbol)
  /\ UNCHANGED vars

ApplyFill(f) == AcceptFill(f) \/ RejectFill(f)

\* An adjustment never creates a position, and nothing tells a repeated one from a new one.
ApplyAdjustment(record) ==
  /\ record.symbol \in DOMAIN positions
  /\ positions' = [positions EXCEPT ![record.symbol] = AdjustPosition(@, record.delta_qty, -1)]
  /\ Record(record.symbol, "ADJUSTMENT", record.delta_qty, Whole(1))
  /\ UNCHANGED <<dedup, marks>>

\* apply_split and apply_dividend.
Reshaped(p, action) ==
  IF action.type = "SPLIT" THEN SplitPosition(p, action.factor) ELSE PayDividend(p, action.per_share)

\* Mutant: the event is recorded without the factor that was applied.
FactorOf_Lost(action) == Whole(1)

\* The factor the history shows.
FactorOf(action) == IF action.type = "SPLIT" THEN action.factor ELSE Whole(1)

\* Refused when no open position is affected.
ApplyCorporateAction(action) ==
  /\ action.symbol \in DOMAIN OpenPositions
  /\ positions' = [positions EXCEPT ![action.symbol] = Reshaped(@, action)]
  /\ Record(action.symbol, action.type, 0, FactorOf(action))
  /\ UNCHANGED <<dedup, marks>>

\* The ingest loop asks S2 about the symbols it holds lots of; a price that is
\* not positive is ignored.
SetReferencePrice(symbol, mid) ==
  /\ symbol \in DOMAIN OpenPositions
  /\ mid > 0
  /\ refPrices' = Put(refPrices, symbol, mid)
  /\ UNCHANGED <<ledger, dedup, snapshots>>

\* What a snapshot holds.
Snapshot == [rows |-> positions, refs |-> refPrices]

TakeSnapshot ==
  /\ snapshots' = Push(snapshots, Snapshot, SnapshotRetention)
  /\ UNCHANGED <<ledger, dedup, refPrices>>

\* The process dies and starts again: the whole ledger was in memory.
Restart ==
  /\ positions' = <<>>
  /\ seen' = {}
  /\ history' = <<>>
  /\ historySeq' = 0
  /\ refPrices' = <<>>
  /\ snapshots' = <<>>
  /\ fillsApplied' = 0
  /\ applied' = [i \in FillIds |-> 0]
  /\ trimmed' = FALSE

\* POST /adjust and POST /corporate-action.
PostAdjustment == \E record \in Adjustments : ApplyAdjustment(record)

PostCorporateAction == \E action \in CorporateActions : ApplyCorporateAction(action)

Next ==
  \/ \E f \in Fills : ApplyFill(f)
  \/ PostAdjustment \/ PostCorporateAction
  \/ \E symbol \in Symbols, mid \in BookMids : SetReferencePrice(symbol, mid)
  \/ TakeSnapshot
  \/ Restart

Spec == Init /\ [][Next]_vars

---------------------------------------------------------------------------
\* Properties

\* "applied exactly once to the authoritative position ledger" (config.py:6-7), for
\* as long as the idempotency set has not been cut back: the ids it holds are the
\* ids applied, none was applied twice, and fills_applied counts them.
AppliedOnceUntilTrimmed ==
  ~trimmed =>
    /\ \A i \in FillIds : applied[i] = IF i \in seen THEN 1 ELSE 0
    /\ fillsApplied = Cardinality(seen)

\* Memory of the dedup set is bounded (position_engine.py:107-109).
SeenIsBounded == IsFiniteSet(seen) /\ Cardinality(seen) <= SeenCap

\* The lots held after the events of a history, oldest first.
Replay(events) ==
  LET net[k \in 0..Len(events)] ==
        IF k = 0 THEN 0
        ELSE LET e == events[k]
             IN  RoundHalfEven((net[k - 1] + e.lots) * e.factor.num, e.factor.den)
  IN  net[Len(events)]

\* GET /history is an audit trail: as long as a symbol's deque has dropped nothing,
\* replaying it gives the net quantity, whichever mix of fills, adjustments and
\* splits it went through (position_engine.py:111-116, 147-152, 183-189, 341-349).
HistoryReplays ==
  \A symbol \in DOMAIN positions :
    Len(Events(symbol)) < HistoryCap => Replay(Events(symbol)) = positions[symbol].net

===========================================================================
