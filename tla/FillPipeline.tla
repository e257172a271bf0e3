--------------------------- MODULE FillPipeline ---------------------------
(***************************************************************************)
(* S4 and S6 composed: the execution gateway reports fills, the position   *)
(* keeper's ingest loop polls them (posk/main.py).  One poll is one        *)
(* GET /fills?limit=max_fills_per_poll, answered with the newest fills     *)
(* first; the loop then applies that answer fill by fill while the gateway *)
(* goes on, and only then polls again.  Nothing is acknowledged: the loop  *)
(* relies on the dedup set of the ledger to tell old fills from new ones.  *)
(*                                                                         *)
(* A fill is followed here together with the incarnation of the gateway    *)
(* that reported it, which its id does not tell.                           *)
(***************************************************************************)
EXTENDS Integers, Sequences, FiniteSets

CONSTANTS
  Threads, Intents, OrderIds, Symbols, MaxOrderQty, MinPrice, FillsRetained,
  VenueVerdicts, ModifyQtys, NoOrder, MaxFills, MaxRejects, MaxRestarts,
  MaxPositions, SeenCap, SeenKeep, HistoryCap, SnapshotRetention,
  Deltas, Factors, Dividends, BookMids, MaxEvents,
  MaxFillsPerPoll,    \* ingest.max_fills_per_poll
  MaxKeeperRestarts   \* bound: restarts of the position keeper

ASSUME PollAssumption == MaxFillsPerPoll \in Nat \ {0} /\ MaxKeeperRestarts \in Nat

VARIABLES
  orders, fills, nextFillSeq, stats, pc, held, ticket, restarts, log,
  positions, seen, history, historySeq, refPrices, snapshots, fillsApplied, applied, trimmed,
  batch,          \* the rest of the poll answer the ingest loop is working through
  booked,         \* history: the reports the running ledger has booked
  keeperRestarts  \* incarnation of the position keeper

gatewayVars == <<orders, fills, nextFillSeq, stats, pc, held, ticket, restarts, log>>
keeperVars  == <<positions, seen, history, historySeq, refPrices, snapshots,
                 fillsApplied, applied, trimmed>>
loopVars    == <<batch, booked, keeperRestarts>>
vars        == <<gatewayVars, keeperVars, loopVars>>

Gateway == INSTANCE ExecutionGateway

ASSUME GatewayAssumption ==
  /\ Gateway!IntentsAssumption /\ Gateway!RetainedAssumption /\ Gateway!VerdictsAssumption
  /\ Gateway!CapsAssumption /\ Gateway!ModifyAssumption /\ Gateway!BoundsAssumption
  /\ Gateway!NoOrderAssumption

\* Every fill the bounded gateway can report.
PossibleFills == {Gateway!FillOf(seq, i) : seq \in 1..MaxFills, i \in Intents}

Keeper == INSTANCE PositionKeeper WITH Fills <- PossibleFills

ASSUME KeeperAssumption == Keeper!SeenAssumption /\ Keeper!CapsAssumption

Report(fill, epoch) == [fill |-> fill, epoch |-> epoch]

---------------------------------------------------------------------------
Init ==
  /\ Gateway!Init
  /\ Keeper!Init
  /\ batch = <<>>
  /\ booked = {}
  /\ keeperRestarts = 0

GatewayStep == Gateway!Next /\ UNCHANGED <<keeperVars, loopVars>>

\* Mutant: the answer is one fill short.
Newest_OneShort(limit) ==
  [k \in 1..Keeper!Lesser(limit, Len(fills) - 1) |-> Report(fills[Len(fills) + 1 - k], restarts)]

\* GET /fills: a copy of the vector, reversed and cut to the limit (core.rs:170-177).
Newest(limit) ==
  [k \in 1..Keeper!Lesser(limit, Len(fills)) |-> Report(fills[Len(fills) + 1 - k], restarts)]

\* A poll that fails changes nothing and is not modelled as a step.
Poll ==
  /\ batch = <<>>
  /\ fills # <<>>
  /\ batch' = Newest(MaxFillsPerPoll)
  /\ UNCHANGED <<gatewayVars, keeperVars, booked, keeperRestarts>>

\* Mutant: the fill is applied without a look at the ids seen.
BookNext_NoDedup ==
  LET r == Head(batch) IN
  /\ positions' = Keeper!Put(positions, r.fill.symbol,
                    Keeper!FillPosition(Keeper!PositionOf(r.fill.symbol),
                                        r.fill.side, r.fill.qty, r.fill.price))
  /\ booked' = booked \cup {r}
  /\ UNCHANGED <<seen, history, historySeq, refPrices, snapshots, fillsApplied, applied, trimmed>>

BookNext ==
  LET r == Head(batch) IN Keeper!AcceptFill(r.fill) /\ booked' = booked \cup {r}

\* A duplicate or a refused fill is skipped; the loop goes on with the next one.
SkipNext ==
  LET r == Head(batch) IN Keeper!RejectFill(r.fill) /\ UNCHANGED booked

\* One turn of the loop over the answer.
ApplyNext ==
  /\ batch # <<>>
  /\ BookNext \/ SkipNext
  /\ batch' = Tail(batch)
  /\ UNCHANGED <<gatewayVars, keeperRestarts>>

\* The position keeper dies and starts again with an empty ledger.
KeeperRestart ==
  /\ keeperRestarts < MaxKeeperRestarts
  /\ keeperRestarts' = keeperRestarts + 1
  /\ Keeper!Restart
  /\ batch' = <<>>
  /\ booked' = {}
  /\ UNCHANGED gatewayVars

Next == GatewayStep \/ Poll \/ ApplyNext \/ KeeperRestart

Spec == Init /\ [][Next]_vars

\* The ingest loop "must never die" (posk/main.py:209) and polls every
\* poll_interval_ms.  Weak fairness of Poll assumes that not every GET fails.
FairSpec == Spec /\ WF_vars(Poll) /\ WF_vars(ApplyNext)

---------------------------------------------------------------------------
\* Properties

Reported == {log[n] : n \in DOMAIN log}

PossibleReports == {Report(f, e) : f \in PossibleFills, e \in 0..MaxRestarts}

Ledger == INSTANCE ExactlyOnceLedger WITH
  Reports  <- PossibleReports,
  reported <- Reported,
  net      <- [s \in Symbols |-> Keeper!PositionOf(s).net]

\* Polling, dedup and restarts of either process never book a fill twice, never
\* book one that was not reported, and never move a net quantity otherwise: the
\* pipeline implements the exactly-once ledger's safety part.
ImplementsLedger == Ledger!Spec

\* "every fill reported by the execution gateway (S4) is applied exactly once"
\* (posk/config.py:6-7), the liveness half: a reported fill is booked eventually, by
\* a restarted ledger too, as long as the gateway is not restarted.
EveryFillIsBooked ==
  \A r \in PossibleReports : (r \in Reported) ~> (r \in booked \/ restarts > 0)

\* "apply_fill applies each S4 fill exactly once" (position_engine.py:10-11): what a
\* poll has fetched is booked eventually.
FetchedFillIsBooked ==
  \A r \in PossibleReports :
    (\E k \in DOMAIN batch : batch[k] = r) ~> (r \in booked)

===========================================================================
