------------------------ MODULE FillPipeline_proofs ------------------------
(***************************************************************************)
(* The fill pipeline implements the exactly-once ledger, for any number of *)
(* gateway threads, orders, fills, poll sizes and restarts of either       *)
(* process, as long as the dedup set is not cut back.                      *)
(*                                                                         *)
(* Two arguments meet.  The gateway reports no fill twice, because ids are *)
(* unique within an incarnation, and what it lists is what it has          *)
(* reported: this is taken from ExecutionGateway_proofs.  The ledger books *)
(* no report twice, because the ids of the reports it has booked are in    *)
(* the dedup set.                                                          *)
(***************************************************************************)
EXTENDS FillPipeline, SequenceTheorems, FiniteSetTheorems, TLAPS

\* The gateway of FillPipeline once more, with what is proved about it.
G == INSTANCE ExecutionGateway_proofs

\* What the loop works through has been reported.
BatchIsReported ==
  /\ batch \in Seq(PossibleReports)
  /\ \A k \in DOMAIN batch : batch[k] \in Reported

NetsAreLots ==
  /\ DOMAIN positions \subseteq Symbols
  /\ \A s \in DOMAIN positions : "net" \in DOMAIN positions[s] /\ positions[s].net \in Int

BookedIsSeen == ~trimmed => \A r \in booked : r.fill.id \in seen

PipeInv ==
  /\ G!PInv
  /\ Reported \subseteq PossibleReports
  /\ BatchIsReported /\ NetsAreLots /\ BookedIsSeen

Net == [s \in Symbols |-> Keeper!PositionOf(s).net]

---------------------------------------------------------------------------
\* The gateway of the two instances is one

LEMMA GatewayConfig ==
  /\ G!IntentsAssumption /\ G!RetainedAssumption /\ G!VerdictsAssumption /\ G!CapsAssumption
  /\ G!ModifyAssumption /\ G!BoundsAssumption /\ G!NoOrderAssumption
BY GatewayAssumption DEF Gateway!Intent, G!Intent, Gateway!Order, G!Order, Gateway!Sides, G!Sides,
                         Gateway!OrderStates, G!OrderStates

LEMMA SameInit == Gateway!Init => G!Init
BY DEF Gateway!Init, G!Init, Gateway!NoStats, G!NoStats

LEMMA SameCardinality ==
  ASSUME NEW S
  PROVE  Gateway!Cardinality(S) = G!Cardinality(S)
BY DEF Gateway!Cardinality, G!Cardinality

LEMMA SameSubmit ==
  ASSUME NEW t \in Threads, NEW i \in Intents, Gateway!Submit(t, i)
  PROVE  G!Submit(t, i)
<1>1. G!Acceptable(i)
  BY DEF Gateway!Submit, Gateway!Acceptable, G!Acceptable
<1>2. Gateway!RejectedOrder(i) = G!RejectedOrder(i) /\ Gateway!FilledOrder(i) = G!FilledOrder(i)
  BY DEF Gateway!RejectedOrder, G!RejectedOrder, Gateway!FilledOrder, G!FilledOrder
<1>3. Gateway!Filling = G!Filling
  BY DEF Gateway!Filling, G!Filling
<1>4. ASSUME NEW from, NEW to PROVE Gateway!Goto(t, from, to) => G!Goto(t, from, to)
  BY DEF Gateway!Goto, G!Goto
<1>5. PICK rejected \in VenueVerdicts :
        IF rejected
        THEN /\ stats.rejected + G!Cardinality({u \in Threads : pc[u] = "countReject"})
                  < MaxRejects
             /\ G!Goto(t, "idle", "countReject")
             /\ held' = [held EXCEPT ![t] = G!RejectedOrder(i)]
        ELSE /\ Len(log) + G!Cardinality(G!Filling) < MaxFills
             /\ G!Goto(t, "idle", "takeSeq")
             /\ held' = [held EXCEPT ![t] = G!FilledOrder(i)]
  BY <1>2, <1>3, <1>4, SameCardinality DEF Gateway!Submit
<1>6. UNCHANGED <<orders, fills, nextFillSeq, stats, ticket, restarts, log>>
  BY DEF Gateway!Submit
<1> QED BY <1>1, <1>5, <1>6 DEF G!Submit

LEMMA SameSubmitStep ==
  ASSUME NEW t \in Threads, Gateway!SubmitStep(t)
  PROVE  G!SubmitStep(t)
<1>1. Gateway!CountReject(t) => G!CountReject(t)
  BY DEF Gateway!CountReject, G!CountReject, Gateway!Goto, G!Goto, Gateway!Bump, G!Bump
<1>2. Gateway!TakeSeq(t) => G!TakeSeq(t)
  BY DEF Gateway!TakeSeq, G!TakeSeq, Gateway!Goto, G!Goto
<1>3. Gateway!PushFill(t) => G!PushFill(t)
  BY DEF Gateway!PushFill, G!PushFill, Gateway!Goto, G!Goto, Gateway!FillOf, G!FillOf,
         Gateway!PushRetained, G!PushRetained
<1>4. Gateway!CountEmitted(t) => G!CountEmitted(t)
  BY DEF Gateway!CountEmitted, G!CountEmitted, Gateway!Goto, G!Goto, Gateway!Bump, G!Bump
<1>5. Gateway!CountFilled(t) => G!CountFilled(t)
  BY DEF Gateway!CountFilled, G!CountFilled, Gateway!Goto, G!Goto, Gateway!Bump, G!Bump
<1>6. Gateway!InsertOrder(t) => G!InsertOrder(t)
  BY DEF Gateway!InsertOrder, G!InsertOrder, Gateway!Goto, G!Goto, Gateway!Put, G!Put
<1> QED BY <1>1, <1>2, <1>3, <1>4, <1>5, <1>6, SameSubmit DEF Gateway!SubmitStep, G!SubmitStep

LEMMA SameNext == Gateway!Next => G!Next
<1>1. ASSUME NEW id \in OrderIds, NEW qty \in ModifyQtys
      PROVE  Gateway!Modify(id, qty) => G!Modify(id, qty)
  BY DEF Gateway!Modify, G!Modify, Gateway!IsOpen, G!IsOpen, Gateway!Bump, G!Bump
<1>2. ASSUME NEW id \in OrderIds
      PROVE  Gateway!Cancel(id) => G!Cancel(id)
  BY DEF Gateway!Cancel, G!Cancel, Gateway!IsOpen, G!IsOpen, Gateway!Bump, G!Bump
<1>3. Gateway!Restart => G!Restart
  BY DEF Gateway!Restart, G!Restart, Gateway!NoStats, G!NoStats
<1> QED BY <1>1, <1>2, <1>3, SameSubmitStep DEF Gateway!Next, G!Next

\* Whatever else happens, the gateway takes one of its steps or none.
LEMMA GatewayMoves == [Next]_vars => [G!Next]_(G!vars)
BY SameNext DEF Next, GatewayStep, Poll, ApplyNext, KeeperRestart, vars, gatewayVars, G!vars

---------------------------------------------------------------------------
\* The history of the gateway

LEMMA LogType == G!PInv => log \in Seq([fill : G!Fill, epoch : Nat])
BY DEF G!PInv, G!WInv, G!IInv, G!TInv, G!TypeOK

\* A step of the pipeline adds at most one report, and a new one.
LEMMA ReportedGrows ==
  ASSUME PipeInv, [Next]_vars
  PROVE  /\ G!PInv' /\ Reported \subseteq Reported'
         /\ \/ UNCHANGED log
            \/ \E e \in PossibleReports : e \notin Reported /\ Reported' = Reported \cup {e}
<1>1. G!PInv /\ [G!Next]_(G!vars)
  BY GatewayMoves DEF PipeInv
<1>2. G!PInv'
  BY <1>1, GatewayConfig, G!NextPInv
<1>3. CASE UNCHANGED log
  BY <1>2, <1>3 DEF Reported
<1>4. CASE \E seq \in 1..MaxFills, i \in Intents :
             LET e == [fill |-> G!FillOf(seq, i), epoch |-> restarts] IN
             /\ log' = Append(log, e) /\ e.epoch \in 0..MaxRestarts
             /\ \A n \in DOMAIN log : log[n] # e
  <2>1. PICK seq \in 1..MaxFills, i \in Intents :
          LET e == [fill |-> G!FillOf(seq, i), epoch |-> restarts] IN
          /\ log' = Append(log, e) /\ e.epoch \in 0..MaxRestarts
          /\ \A n \in DOMAIN log : log[n] # e
    BY <1>4
  <2> DEFINE e == Report(Gateway!FillOf(seq, i), restarts)
  <2>2. e = [fill |-> G!FillOf(seq, i), epoch |-> restarts]
    BY DEF Report, Gateway!FillOf, G!FillOf
  <2>3. log' = Append(log, e) /\ restarts \in 0..MaxRestarts /\ \A n \in DOMAIN log : log[n] # e
    BY <2>1, <2>2
  <2>4. e \in PossibleReports
    BY <2>3 DEF PossibleReports, PossibleFills
  <2> HIDE DEF e
  <2>5. e \notin Reported
    BY <2>3 DEF Reported
  <2>6. /\ DOMAIN log = 1..Len(log) /\ Len(log) \in Nat /\ DOMAIN log' = 1..(Len(log) + 1)
        /\ log'[Len(log) + 1] = e /\ \A n \in 1..Len(log) : log'[n] = log[n]
    BY <1>1, <2>3, LogType
  <2>7. Reported' = Reported \cup {e}
    BY <2>6 DEF Reported
  <2> QED BY <1>2, <2>4, <2>5, <2>7
<1> QED BY <1>1, <1>3, <1>4, GatewayConfig, G!StepReports

\* What a poll is answered has been reported, by the running gateway.
LEMMA PollIsReported ==
  ASSUME PipeInv, Poll
  PROVE  BatchIsReported'
<1> DEFINE size == Keeper!Lesser(MaxFillsPerPoll, Len(fills))
           at(k) == Len(log) + 1 - k
<1>1. /\ fills \in Seq(G!Fill) /\ log \in Seq([fill : G!Fill, epoch : Nat])
      /\ Len(fills) \in Nat /\ Len(log) \in Nat
  BY LogType, LenProperties DEF PipeInv, G!PInv, G!WInv, G!IInv, G!TInv, G!TypeOK
<1>2. size \in 0..Len(fills)
  BY <1>1, PollAssumption DEF Keeper!Lesser
<1>3. ASSUME NEW k \in 1..size
      PROVE  at(k) \in DOMAIN log /\ Report(fills[Len(fills) + 1 - k], restarts) = log[at(k)]
  <2>1. /\ Len(fills) <= Len(log)
        /\ \A j \in 1..Len(fills) : fills[j] = log[Len(log) - Len(fills) + j].fill
        /\ (Len(log) - Len(fills) + 1)..Len(log) \subseteq G!Current
    BY DEF PipeInv, G!PInv, G!WInv, G!WindowIsCurrent
  <2>2. /\ Len(fills) + 1 - k \in 1..Len(fills)
        /\ Len(log) - Len(fills) + (Len(fills) + 1 - k) = at(k)
        /\ at(k) \in (Len(log) - Len(fills) + 1)..Len(log)
    BY <1>1, <1>2
  <2>3. fills[Len(fills) + 1 - k] = log[at(k)].fill /\ at(k) \in G!Current
    BY <2>1, <2>2
  <2>4. at(k) \in DOMAIN log /\ log[at(k)].epoch = restarts
    BY <2>3 DEF G!Current
  <2>5. log[at(k)] \in [fill : G!Fill, epoch : Nat]
    <3>1. at(k) \in 1..Len(log)
      BY <1>1, <2>4
    <3> HIDE DEF at
    <3> QED BY <1>1, <3>1, ElementOfSeq
  <2> QED BY <2>3, <2>4, <2>5 DEF Report
<1>4. batch' = [k \in 1..size |-> Report(fills[Len(fills) + 1 - k], restarts)] /\ log' = log
  BY DEF Poll, Newest, gatewayVars
<1> HIDE DEF size, at
<1>5. batch' = [k \in 1..size |-> log[at(k)]] /\ \A k \in 1..size : log[at(k)] \in Reported
  BY <1>3, <1>4 DEF Reported
<1>6. Reported \subseteq PossibleReports /\ Reported' = Reported
  BY <1>4 DEF PipeInv, Reported
<1>7. size \in Nat
  BY <1>1, <1>2
<1>8. batch' \in Seq(PossibleReports)
  BY <1>5, <1>6, <1>7
<1> QED BY <1>5, <1>6, <1>8 DEF BatchIsReported

---------------------------------------------------------------------------
\* The ledger

LEMMA ReportedFill ==
  ASSUME NEW r \in PossibleReports
  PROVE  r.fill \in PossibleFills /\ r.fill.symbol \in Symbols /\ r.fill.qty \in Int
<1>1. PICK seq \in 1..MaxFills, i \in Intents : r.fill = Gateway!FillOf(seq, i)
  BY DEF PossibleReports, PossibleFills, Report
<1>2. i.symbol \in Symbols /\ i.qty \in Int
  BY GatewayAssumption DEF Gateway!IntentsAssumption, Gateway!Intent
<1> QED BY <1>1, <1>2 DEF PossibleFills, Gateway!FillOf

\* Whatever a fill does to the entry price and the profit, it moves the lots by its own.
LEMMA FillMovesNet ==
  ASSUME NEW p, "net" \in DOMAIN p, NEW side, NEW qty, NEW price
  PROVE  /\ "net" \in DOMAIN Keeper!FillPosition(p, side, qty, price)
         /\ Keeper!FillPosition(p, side, qty, price).net = p.net + Keeper!Signed(side, qty)
BY DEF Keeper!FillPosition

\* The next report of the answer.
LEMMA NextReport ==
  ASSUME PipeInv, batch # <<>>
  PROVE  /\ Head(batch) \in PossibleReports /\ Head(batch) \in Reported
         /\ Tail(batch) \in Seq(PossibleReports)
         /\ \A k \in DOMAIN Tail(batch) : Tail(batch)[k] \in Reported
<1>1. batch \in Seq(PossibleReports) /\ \A k \in DOMAIN batch : batch[k] \in Reported
  BY DEF PipeInv, BatchIsReported
<1>2. /\ Len(batch) \in Nat \ {0} /\ Head(batch) = batch[1] /\ DOMAIN batch = 1..Len(batch)
      /\ Tail(batch) \in Seq(PossibleReports) /\ DOMAIN Tail(batch) = 1..(Len(batch) - 1)
      /\ \A k \in 1..(Len(batch) - 1) : Tail(batch)[k] = batch[k + 1]
  BY <1>1
<1>3. Head(batch) \in PossibleReports
  BY <1>1, HeadTailProperties
<1> QED BY <1>1, <1>2, <1>3

\* Booking a report moves the net quantity of its symbol by its lots and puts its id
\* among the ids seen.
LEMMA BookMoves ==
  ASSUME PipeInv, batch # <<>>, BookNext
  PROVE  LET r == Head(batch) IN
         /\ ~trimmed => r \notin booked
         /\ booked' = booked \cup {r}
         /\ Net' = [Net EXCEPT ![r.fill.symbol] = @ + Ledger!Lots(r)]
         /\ NetsAreLots' /\ BookedIsSeen'
<1> DEFINE r == Head(batch)
           sym == r.fill.symbol
           pos == Keeper!PositionOf(sym)
           new == Keeper!FillPosition(pos, r.fill.side, r.fill.qty, r.fill.price)
<1>1. sym \in Symbols /\ r.fill.qty \in Int
  BY NextReport, ReportedFill
<1>2. /\ r.fill.id \notin seen /\ Keeper!MarkSeen(r.fill.id) /\ booked' = booked \cup {r}
      /\ positions' = Keeper!Put(positions, sym, new)
  BY DEF BookNext, Keeper!AcceptFill
<1> HIDE DEF r
<1>3. "net" \in DOMAIN pos /\ pos.net \in Int
  BY DEF PipeInv, NetsAreLots, Keeper!PositionOf, Keeper!FlatPosition
<1>4. "net" \in DOMAIN new /\ new.net = pos.net + Ledger!Lots(r) /\ Ledger!Lots(r) \in Int
  BY <1>1, <1>3, FillMovesNet DEF Ledger!Lots, Keeper!Signed
<1> HIDE DEF new
<1>5. NetsAreLots'
  BY <1>1, <1>2, <1>3, <1>4 DEF PipeInv, NetsAreLots, Keeper!Put
<1>6. Net' = [Net EXCEPT ![sym] = @ + Ledger!Lots(r)]
  <2>1. \A s \in Symbols : Keeper!PositionOf(s)' = IF s = sym THEN new ELSE Keeper!PositionOf(s)
    BY <1>2 DEF Keeper!PositionOf, Keeper!Put
  <2> QED BY <1>1, <1>4, <2>1 DEF Net
<1>7. ~trimmed => r \notin booked
  BY <1>2 DEF PipeInv, BookedIsSeen
<1>8. BookedIsSeen'
  <2>1. ~trimmed' => ~trimmed /\ seen' = seen \cup {r.fill.id}
    BY <1>2 DEF Keeper!MarkSeen
  <2> QED BY <1>2, <2>1 DEF PipeInv, BookedIsSeen
<1> QED BY <1>2, <1>5, <1>6, <1>7, <1>8 DEF r

---------------------------------------------------------------------------
\* The invariant

LEMMA InitPipe == Init => PipeInv
<1> SUFFICES ASSUME Init PROVE PipeInv
  OBVIOUS
<1>1. G!PInv
  BY SameInit, GatewayConfig, G!InitPInv DEF Init
<1>2. log = <<>> /\ batch = <<>> /\ positions = <<>> /\ booked = {}
  BY DEF Init, Gateway!Init, Keeper!Init
<1>3. Reported \subseteq PossibleReports /\ BatchIsReported /\ NetsAreLots /\ BookedIsSeen
  BY <1>2 DEF Reported, BatchIsReported, NetsAreLots, BookedIsSeen
<1> QED BY <1>1, <1>3 DEF PipeInv

LEMMA NextPipe == PipeInv /\ [Next]_vars => PipeInv'
<1> SUFFICES ASSUME PipeInv, [Next]_vars PROVE PipeInv'
  OBVIOUS
<1>1. G!PInv' /\ Reported' \subseteq PossibleReports /\ Reported \subseteq Reported'
  <2>1. Reported \subseteq PossibleReports
    BY DEF PipeInv
  <2>2. CASE UNCHANGED log
    BY <2>1, <2>2, ReportedGrows DEF Reported
  <2> QED BY <2>1, <2>2, ReportedGrows
<1>2. ASSUME UNCHANGED batch PROVE BatchIsReported'
  BY <1>1, <1>2 DEF PipeInv, BatchIsReported
<1>3. ASSUME UNCHANGED positions PROVE NetsAreLots'
  BY <1>3 DEF PipeInv, NetsAreLots
<1>4. ASSUME UNCHANGED <<booked, seen, trimmed>> PROVE BookedIsSeen'
  BY <1>4 DEF PipeInv, BookedIsSeen
<1>5. CASE GatewayStep
  BY <1>1, <1>2, <1>3, <1>4, <1>5 DEF GatewayStep, keeperVars, loopVars, PipeInv
<1>6. CASE Poll
  BY <1>1, <1>3, <1>4, <1>6, PollIsReported DEF Poll, keeperVars, PipeInv
<1>7. CASE ApplyNext
  <2>1. BatchIsReported'
    <3>1. batch # <<>> /\ batch' = Tail(batch)
      BY <1>7 DEF ApplyNext
    <3>2. /\ Tail(batch) \in Seq(PossibleReports)
          /\ \A k \in DOMAIN Tail(batch) : Tail(batch)[k] \in Reported'
      BY <1>1, <3>1, NextReport
    <3> QED BY <3>1, <3>2 DEF BatchIsReported
  <2>2. CASE BookNext
    BY <1>1, <1>7, <2>1, <2>2, BookMoves DEF ApplyNext, PipeInv
  <2>3. CASE SkipNext
    BY <1>1, <1>3, <1>4, <2>1, <2>3 DEF SkipNext, Keeper!RejectFill, Keeper!vars, Keeper!ledger,
                                        Keeper!dedup, PipeInv
  <2> QED BY <1>7, <2>2, <2>3 DEF ApplyNext
<1>8. CASE KeeperRestart
  <2>1. batch' = <<>> /\ positions' = <<>> /\ booked' = {}
    BY <1>8 DEF KeeperRestart, Keeper!Restart
  <2>2. BatchIsReported' /\ NetsAreLots' /\ BookedIsSeen'
    BY <2>1 DEF BatchIsReported, NetsAreLots, BookedIsSeen
  <2> QED BY <1>1, <2>2 DEF PipeInv
<1>9. CASE UNCHANGED vars
  BY <1>1, <1>2, <1>3, <1>4, <1>9 DEF vars, keeperVars, loopVars, PipeInv
<1> QED BY <1>5, <1>6, <1>7, <1>8, <1>9 DEF Next

---------------------------------------------------------------------------
\* The refinement

LEMMA InitLedger == Init => Ledger!Init
<1> SUFFICES ASSUME Init PROVE Ledger!Init
  OBVIOUS
<1>1. log = <<>> /\ booked = {} /\ positions = <<>>
  BY DEF Init, Gateway!Init, Keeper!Init
<1> QED BY <1>1 DEF Ledger!Init, Ledger!Flat, Reported, Keeper!PositionOf, Keeper!FlatPosition

LEMMA StepLedger ==
  ASSUME PipeInv, ~trimmed, [Next]_vars
  PROVE  [Ledger!Next]_(Ledger!vars)
<1>1. ASSUME UNCHANGED log PROVE Reported' = Reported
  BY <1>1 DEF Reported
<1>2. ASSUME UNCHANGED positions PROVE Net' = Net
  BY <1>2 DEF Net, Keeper!PositionOf
<1>3. ASSUME UNCHANGED <<log, booked, positions>> PROVE UNCHANGED Ledger!vars
  BY <1>1, <1>2, <1>3 DEF Ledger!vars, Net
<1>4. CASE GatewayStep
  <2>1. UNCHANGED <<booked, positions>>
    BY <1>4 DEF GatewayStep, keeperVars, loopVars
  <2>2. CASE UNCHANGED log
    BY <1>3, <2>1, <2>2
  <2>3. CASE \E e \in PossibleReports : e \notin Reported /\ Reported' = Reported \cup {e}
    <3>1. PICK e \in PossibleReports : e \notin Reported /\ Reported' = Reported \cup {e}
      BY <2>3
    <3>2. Ledger!Report(e)
      BY <1>2, <2>1, <3>1 DEF Ledger!Report, Net
    <3> QED BY <3>1, <3>2 DEF Ledger!Next
  <2> QED BY <2>2, <2>3, ReportedGrows
<1>5. CASE Poll
  BY <1>3, <1>5 DEF Poll, gatewayVars, keeperVars
<1>6. CASE ApplyNext
  <2>1. batch # <<>> /\ UNCHANGED log
    BY <1>6 DEF ApplyNext, gatewayVars
  <2>2. CASE BookNext
    <3> DEFINE r == Head(batch)
    <3>1. r \in PossibleReports /\ r \in Reported
      BY <2>1, NextReport
    <3>2. /\ r \notin booked /\ booked' = booked \cup {r}
          /\ Net' = [Net EXCEPT ![r.fill.symbol] = @ + Ledger!Lots(r)]
      BY <2>1, <2>2, BookMoves
    <3>3. Ledger!Book(r)
      BY <1>1, <2>1, <3>1, <3>2 DEF Ledger!Book, Net
    <3> QED BY <3>1, <3>3 DEF Ledger!Next
  <2>3. CASE SkipNext
    BY <1>3, <2>1, <2>3 DEF SkipNext, Keeper!RejectFill, Keeper!vars, Keeper!ledger
  <2> QED BY <1>6, <2>2, <2>3 DEF ApplyNext
<1>7. CASE KeeperRestart
  <2>1. UNCHANGED log /\ booked' = {} /\ positions' = <<>>
    BY <1>7 DEF KeeperRestart, Keeper!Restart, gatewayVars
  <2>2. Net' = Ledger!Flat
    BY <2>1 DEF Net, Ledger!Flat, Keeper!PositionOf, Keeper!FlatPosition
  <2>3. Ledger!Forget
    BY <1>1, <2>1, <2>2 DEF Ledger!Forget, Net
  <2> QED BY <2>3 DEF Ledger!Next
<1>8. CASE UNCHANGED vars
  BY <1>3, <1>8 DEF vars, gatewayVars, keeperVars, loopVars
<1> QED BY <1>4, <1>5, <1>6, <1>7, <1>8 DEF Next

\* As long as the dedup set of apply_fill has not been cut back, polling the newest
\* fills again and again, and restarts of either process, book no fill twice, book no
\* fill that was not reported, and move a net quantity by booked fills alone
\* (posk/config.py:6-7, position_engine.py:83-123, core.rs:170-177).
THEOREM LedgerWhileUntrimmed == Spec /\ []~trimmed => ImplementsLedger
<1>1. PipeInv /\ ~trimmed /\ [Next]_vars => [Ledger!Next]_(Ledger!vars)
  BY StepLedger
<1> QED BY InitPipe, NextPipe, InitLedger, <1>1, PTL DEF Spec, ImplementsLedger, Ledger!Spec

\* The ids are numbers the gateway has drawn, so the set never outgrows them.
SeenFits == ~trimmed /\ seen \subseteq 1..MaxFills

LEMMA NextFits ==
  ASSUME MaxFills <= SeenCap, PipeInv, SeenFits, [Next]_vars
  PROVE  SeenFits'
<1>1. CASE UNCHANGED <<seen, trimmed>>
  BY <1>1 DEF SeenFits
<1>2. ASSUME ApplyNext, BookNext PROVE SeenFits'
  <2> DEFINE id == Head(batch).fill.id
             grown == seen \cup {id}
  <2>1. Keeper!MarkSeen(id)
    BY <1>2 DEF BookNext, Keeper!AcceptFill
  <2>2. id \in 1..MaxFills
    <3>1. Head(batch).fill \in PossibleFills
      BY <1>2, NextReport, ReportedFill DEF ApplyNext
    <3>2. PICK seq \in 1..MaxFills, i \in Intents : Head(batch).fill = Gateway!FillOf(seq, i)
      BY <3>1 DEF PossibleFills
    <3> QED BY <3>2 DEF Gateway!FillOf
  <2>3. IsFiniteSet(1..MaxFills) /\ Cardinality(1..MaxFills) = MaxFills
    BY GatewayAssumption, FS_Interval DEF Gateway!BoundsAssumption
  <2>4. grown \subseteq 1..MaxFills /\ Cardinality(grown) <= MaxFills
    BY <2>2, <2>3, FS_Subset DEF SeenFits
  <2>5. seen' = grown /\ trimmed' = trimmed
    <3>1. MaxFills \in Nat /\ SeenCap \in Nat /\ Cardinality(grown) \in Nat
      BY <2>3, <2>4, GatewayAssumption, KeeperAssumption, FS_Subset, FS_CardinalityType
      DEF Gateway!BoundsAssumption, Keeper!SeenAssumption
    <3>2. Keeper!Cardinality(grown) = Cardinality(grown)
      BY DEF Keeper!Cardinality, Cardinality
    <3> HIDE DEF grown
    <3> QED BY <2>1, <2>4, <3>1, <3>2 DEF Keeper!MarkSeen, grown
  <2> QED BY <2>4, <2>5 DEF SeenFits
<1> QED
  BY <1>1, <1>2 DEF Next, vars, GatewayStep, Poll, ApplyNext, SkipNext, KeeperRestart,
     keeperVars, Keeper!RejectFill, Keeper!vars, Keeper!dedup, Keeper!Restart, SeenFits

\* When the gateways together report no more fills than the dedup set may hold
\* (200_000, position_engine.py:107), the pipeline implements the exactly-once ledger.
THEOREM LedgerImplemented ==
  ASSUME MaxFills <= SeenCap
  PROVE  Spec => ImplementsLedger
<1>1. Init => SeenFits
  BY DEF Init, Keeper!Init, SeenFits
<1>2. PipeInv /\ SeenFits /\ [Next]_vars => SeenFits'
  BY NextFits
<1>3. SeenFits => ~trimmed
  BY DEF SeenFits
<1> QED BY InitPipe, NextPipe, <1>1, <1>2, <1>3, LedgerWhileUntrimmed, PTL DEF Spec

===========================================================================
