------------------------- MODULE Positions_proofs -------------------------
(***************************************************************************)
(* What the two ends of the trading loop believe to hold.  The ledger S6:  *)
(* a fill is applied at most once for as long as the set of ids seen has   *)
(* not been cut back, the set never outgrows its cap, and the history of a *)
(* symbol gives its lots.  The strategies S3: their position is limited,   *)
(* the signals they list are open, and no lot of an intent is forgotten.   *)
(* Between them the books of a position, which balance.                    *)
(***************************************************************************)
EXTENDS PositionKeeper, PositionAccounting, Strategy, Induction, SequenceTheorems, FiniteSetTheorems,
        TLAPS

---------------------------------------------------------------------------
(* The ledger: the dedup set.  The accounting plays no part, only          *)
(* AcceptFill and Restart write the variables of `dedup`.                  *)

DedupType ==
  /\ seen \subseteq FillIds
  /\ fillsApplied \in Nat
  /\ applied \in [FillIds -> Nat]
  /\ trimmed \in BOOLEAN

DedupInv == DedupType /\ SeenIsBounded /\ AppliedOnceUntilTrimmed

---------------------------------------------------------------------------
LEMMA InitDedup == Init => DedupInv
<1> SUFFICES ASSUME Init PROVE DedupInv
  OBVIOUS
<1>1. IsFiniteSet({}) /\ Cardinality({}) = 0
  BY FS_EmptySet
<1>2. DedupType
  BY DEF Init, DedupType
<1>3. SeenIsBounded
  BY <1>1, SeenAssumption DEF Init, SeenIsBounded
<1>4. AppliedOnceUntilTrimmed
  BY <1>1 DEF Init, AppliedOnceUntilTrimmed
<1> QED BY <1>2, <1>3, <1>4 DEF DedupInv

\* What MarkSeen leaves in the set, whether it trims or not.
LEMMA MarkSeenBounded ==
  ASSUME DedupInv, NEW id \in FillIds, MarkSeen(id)
  PROVE  /\ seen' \subseteq FillIds /\ trimmed' \in BOOLEAN /\ SeenIsBounded'
         /\ ~trimmed' => ~trimmed /\ seen' = seen \cup {id}
<1> DEFINE grown == seen \cup {id}
<1>1. /\ IsFiniteSet(seen) /\ IsFiniteSet(grown) /\ grown \subseteq FillIds
      /\ Cardinality(grown) \in Nat
  BY FS_AddElement, FS_CardinalityType DEF DedupInv, DedupType, SeenIsBounded
<1>2. CASE Cardinality(grown) > SeenCap
  <2>1. PICK kept \in SUBSET grown : Cardinality(kept) = SeenKeep /\ seen' = kept
    BY <1>2 DEF MarkSeen
  <2>2. IsFiniteSet(kept)
    BY <1>1, FS_Subset
  <2>3. trimmed' = TRUE
    BY <1>2 DEF MarkSeen
  <2> QED BY <1>1, <2>1, <2>2, <2>3, SeenAssumption DEF SeenIsBounded
<1>3. CASE ~(Cardinality(grown) > SeenCap)
  <2>1. seen' = grown /\ trimmed' = trimmed
    BY <1>3 DEF MarkSeen
  <2> QED BY <1>1, <1>3, <2>1, SeenAssumption DEF SeenIsBounded, DedupInv, DedupType
<1> QED BY <1>2, <1>3

LEMMA AcceptFillDedup ==
  ASSUME DedupInv, NEW f \in Fills, AcceptFill(f)
  PROVE  DedupInv'
<1>1. f.id \in FillIds /\ f.id \notin seen
  BY DEF FillIds, AcceptFill
<1>2. /\ seen' \subseteq FillIds /\ trimmed' \in BOOLEAN /\ SeenIsBounded'
      /\ ~trimmed' => ~trimmed /\ seen' = seen \cup {f.id}
  BY <1>1, MarkSeenBounded DEF AcceptFill
<1>3. fillsApplied' = fillsApplied + 1 /\ applied' = [applied EXCEPT ![f.id] = @ + 1]
  BY DEF AcceptFill
<1>4. DedupType'
  BY <1>1, <1>2, <1>3 DEF DedupInv, DedupType
<1>5. ASSUME ~trimmed' PROVE /\ \A i \in FillIds : applied'[i] = IF i \in seen' THEN 1 ELSE 0
                             /\ fillsApplied' = Cardinality(seen')
  <2>1. /\ \A i \in FillIds : applied[i] = IF i \in seen THEN 1 ELSE 0
        /\ fillsApplied = Cardinality(seen)
    BY <1>2, <1>5 DEF DedupInv, AppliedOnceUntilTrimmed
  <2>2. \A i \in FillIds : applied'[i] = IF i \in seen' THEN 1 ELSE 0
    BY <1>1, <1>2, <1>3, <1>5, <2>1 DEF DedupInv, DedupType
  <2>3. Cardinality(seen \cup {f.id}) = Cardinality(seen) + 1
    BY <1>1, FS_AddElement DEF DedupInv, SeenIsBounded
  <2> QED BY <1>2, <1>3, <1>5, <2>1, <2>2, <2>3
<1> QED BY <1>2, <1>4, <1>5 DEF DedupInv, AppliedOnceUntilTrimmed

LEMMA NextDedup == DedupInv /\ [Next]_vars => DedupInv'
<1> SUFFICES ASSUME DedupInv, [Next]_vars PROVE DedupInv'
  OBVIOUS
<1>1. ASSUME NEW f \in Fills, ApplyFill(f) PROVE DedupInv'
  <2>1. CASE AcceptFill(f)
    BY <2>1, AcceptFillDedup
  <2>2. CASE RejectFill(f)
    BY <2>2 DEF RejectFill, vars, dedup, DedupInv, DedupType, SeenIsBounded,
                AppliedOnceUntilTrimmed
  <2> QED BY <1>1, <2>1, <2>2 DEF ApplyFill
<1>2. CASE UNCHANGED dedup
  BY <1>2 DEF dedup, DedupInv, DedupType, SeenIsBounded, AppliedOnceUntilTrimmed
<1>3. ASSUME PostAdjustment PROVE UNCHANGED dedup
  BY <1>3 DEF PostAdjustment, ApplyAdjustment
<1>4. ASSUME PostCorporateAction PROVE UNCHANGED dedup
  BY <1>4 DEF PostCorporateAction, ApplyCorporateAction
<1>5. ASSUME NEW symbol \in Symbols, NEW mid \in BookMids, SetReferencePrice(symbol, mid)
      PROVE UNCHANGED dedup
  BY <1>5 DEF SetReferencePrice
<1>6. ASSUME TakeSnapshot PROVE UNCHANGED dedup
  BY <1>6 DEF TakeSnapshot
<1>7. ASSUME Restart PROVE DedupInv'
  <2>1. IsFiniteSet({}) /\ Cardinality({}) = 0
    BY FS_EmptySet
  <2>2. DedupType'
    BY <1>7 DEF Restart, DedupType
  <2>3. SeenIsBounded'
    BY <1>7, <2>1, SeenAssumption DEF Restart, SeenIsBounded
  <2>4. AppliedOnceUntilTrimmed'
    BY <1>7, <2>1 DEF Restart, AppliedOnceUntilTrimmed
  <2> QED BY <2>2, <2>3, <2>4 DEF DedupInv
<1>8. ASSUME UNCHANGED vars PROVE UNCHANGED dedup
  BY <1>8 DEF vars
<1> QED BY <1>1, <1>2, <1>3, <1>4, <1>5, <1>6, <1>7, <1>8 DEF Next

---------------------------------------------------------------------------
\* Until the dedup set is cut back, the ids it holds are exactly the ids applied,
\* each of them once (position_engine.py:83-123).
THEOREM AppliedOnce == Spec => []AppliedOnceUntilTrimmed
<1>1. DedupInv => AppliedOnceUntilTrimmed
  BY DEF DedupInv
<1> QED BY InitDedup, NextDedup, <1>1, PTL DEF Spec

\* The dedup set is finite and never outgrows its cap (position_engine.py:106-109).
THEOREM SeenBounded == Spec => []SeenIsBounded
<1>1. DedupInv => SeenIsBounded
  BY DEF DedupInv
<1> QED BY InitDedup, NextDedup, <1>1, PTL DEF Spec

---------------------------------------------------------------------------
(* Replaying a history. *)

\* What an event makes of the lots held before it.
After(net, e) == RoundHalfEven((net + e.lots) * e.factor.num, e.factor.den)

IsReplay(f, log, n) == f[0] = 0 /\ \A k \in 1..n : f[k] = After(f[k - 1], log[k])

LEMMA EventFields ==
  ASSUME NEW e \in Event
  PROVE  e.lots \in Int /\ e.factor.num \in Nat /\ e.factor.den \in Nat \ {0}
  BY DEF Event

LEMMA RoundedIsWhole ==
  ASSUME NEW n \in Int, NEW d \in Nat \ {0}
  PROVE  RoundHalfEven(n, d) \in Int
<1>1. n \div d \in Int
  OBVIOUS
<1> QED BY <1>1 DEF RoundHalfEven

LEMMA AfterIsWhole ==
  ASSUME NEW net \in Int, NEW e \in Event
  PROVE  After(net, e) \in Int
<1>1. (net + e.lots) * e.factor.num \in Int
  BY EventFields
<1> QED BY <1>1, EventFields, RoundedIsWhole DEF After

LEMMA ReplayExists ==
  ASSUME NEW log \in Seq(Event), NEW n \in 0..Len(log)
  PROVE  \E f \in [0..n -> Int] : IsReplay(f, log, n)
<1> DEFINE P == {m \in Nat : m <= n => \E f \in [0..m -> Int] : IsReplay(f, log, m)}
<1>0. Len(log) \in Nat /\ n \in Nat
  BY LenProperties
<1>1. 0 \in P
  <2>1. [k \in 0..0 |-> 0] \in [0..0 -> Int] /\ IsReplay([k \in 0..0 |-> 0], log, 0)
    BY DEF IsReplay
  <2> QED BY <2>1
<1>2. ASSUME NEW m \in Nat, m \in P PROVE m + 1 \in P
  <2> SUFFICES ASSUME m + 1 <= n PROVE \E f \in [0..(m + 1) -> Int] : IsReplay(f, log, m + 1)
    OBVIOUS
  <2>1. PICK f \in [0..m -> Int] : IsReplay(f, log, m)
    BY <1>0, <1>2
  <2>2. log[m + 1] \in Event /\ f[m] \in Int
    BY <1>0, <2>1, ElementOfSeq
  <2>3. PICK more \in Int : more = After(f[m], log[m + 1])
    BY <2>2, AfterIsWhole
  <2> DEFINE g == [k \in 0..(m + 1) |-> IF k = m + 1 THEN more ELSE f[k]]
  <2>4. g \in [0..(m + 1) -> Int]
    BY <2>1, <2>3
  <2>5. ASSUME NEW k \in 1..(m + 1) PROVE g[k] = After(g[k - 1], log[k])
    <3>1. CASE k = m + 1
      <4>1. g[k] = more /\ g[k - 1] = f[m]
        BY <3>1
      <4> QED BY <2>3, <3>1, <4>1
    <3>2. CASE k # m + 1
      <4>1. k \in 1..m /\ g[k] = f[k] /\ g[k - 1] = f[k - 1]
        BY <3>2
      <4> QED BY <2>1, <4>1 DEF IsReplay
    <3> QED BY <3>1, <3>2
  <2>6. g[0] = 0
    BY <2>1 DEF IsReplay
  <2> QED BY <2>4, <2>5, <2>6 DEF IsReplay
<1> HIDE DEF P
<1>3. n \in P
  BY <1>0, <1>1, <1>2, NatByInduction
<1> QED BY <1>0, <1>3 DEF P

LEMMA ReplayIsUnique ==
  ASSUME NEW log, NEW n \in Nat, NEW f, IsReplay(f, log, n), NEW g, IsReplay(g, log, n)
  PROVE  f[n] = g[n]
<1> DEFINE P == {m \in Nat : m <= n => f[m] = g[m]}
<1>1. 0 \in P
  BY DEF IsReplay
<1>2. ASSUME NEW m \in Nat, m \in P PROVE m + 1 \in P
  <2> SUFFICES ASSUME m + 1 <= n PROVE f[m + 1] = g[m + 1]
    OBVIOUS
  <2>1. f[m] = g[m] /\ m + 1 \in 1..n /\ (m + 1) - 1 = m
    BY <1>2
  <2>2. f[m + 1] = After(f[m], log[m + 1]) /\ g[m + 1] = After(g[m], log[m + 1])
    BY <2>1 DEF IsReplay
  <2> QED BY <2>1, <2>2
<1> HIDE DEF P
<1>3. n \in P
  BY <1>1, <1>2, NatByInduction
<1> QED BY <1>3 DEF P

\* Whatever satisfies the recursion gives the replay.
LEMMA ReplayIs ==
  ASSUME NEW log \in Seq(Event), NEW f, IsReplay(f, log, Len(log))
  PROVE  Replay(log) = f[Len(log)]
<1> DEFINE n == Len(log)
           Solves(net) == net = [k \in 0..n |->
             IF k = 0 THEN 0
             ELSE RoundHalfEven((net[k - 1] + log[k].lots) * log[k].factor.num, log[k].factor.den)]
           net == CHOOSE net : Solves(net)
<1>0. n \in Nat /\ n \in 0..n
  BY LenProperties
<1>1. PICK g \in [0..n -> Int] : IsReplay(g, log, n)
  BY <1>0, ReplayExists
<1>2. Solves(g)
  <2>1. \A k \in 0..n : g[k] = IF k = 0 THEN 0 ELSE After(g[k - 1], log[k])
    BY <1>0, <1>1 DEF IsReplay
  <2> QED BY <1>1, <2>1 DEF After
<1>3. Solves(net)
  BY <1>2
<1>4. Replay(log) = net[n]
  BY DEF Replay
<1> HIDE DEF net
<1>5. IsReplay(net, log, n)
  <2>1. \A k \in 0..n : net[k] = IF k = 0 THEN 0 ELSE After(net[k - 1], log[k])
    BY <1>3 DEF After
  <2> QED BY <1>0, <2>1 DEF IsReplay
<1>6. net[n] = f[n]
  BY <1>0, <1>5, ReplayIsUnique
<1> QED BY <1>4, <1>6

LEMMA ReplayOfNone == Replay(<<>>) = 0
<1>1. IsReplay([k \in 0..0 |-> 0], <<>>, 0) /\ <<>> \in Seq(Event) /\ Len(<<>>) = 0
  BY EmptySeq DEF IsReplay
<1> QED BY <1>1, ReplayIs

\* One event more.
LEMMA ReplayOfMore ==
  ASSUME NEW log \in Seq(Event), NEW e \in Event
  PROVE  Replay(Append(log, e)) = After(Replay(log), e) /\ Replay(log) \in Int
<1> DEFINE n == Len(log)
           more == Append(log, e)
<1>0. /\ n \in Nat /\ more \in Seq(Event) /\ Len(more) = n + 1 /\ more[n + 1] = e
      /\ \A k \in 1..n : more[k] = log[k]
  BY LenProperties, AppendProperties
<1> HIDE DEF more
<1>1. PICK f \in [0..(n + 1) -> Int] : IsReplay(f, more, n + 1)
  BY <1>0, ReplayExists
<1>2. IsReplay(f, log, n)
  BY <1>0, <1>1 DEF IsReplay
<1>3. Replay(more) = f[n + 1] /\ Replay(log) = f[n]
  BY <1>0, <1>1, <1>2, ReplayIs
<1>4. f[n + 1] = After(f[n], e)
  <2>1. n + 1 \in 1..(n + 1) /\ (n + 1) - 1 = n
    BY <1>0
  <2> QED BY <1>0, <1>1, <2>1 DEF IsReplay
<1> QED BY <1>0, <1>1, <1>3, <1>4 DEF more

---------------------------------------------------------------------------
(* The history of a symbol and its position. *)

HistoryType ==
  /\ DOMAIN history = DOMAIN positions
  /\ \A symbol \in DOMAIN history : history[symbol] \in Seq(Event)
  /\ \A symbol \in DOMAIN positions : "net" \in DOMAIN positions[symbol] /\ positions[symbol].net \in Int
  /\ historySeq \in Nat

HistoryInv == HistoryType /\ HistoryReplays

LEMMA InitHistory == Init => HistoryInv
  BY DEF Init, HistoryInv, HistoryType, HistoryReplays

\* A deque that is not full has dropped nothing.
LEMMA PushIs ==
  ASSUME NEW log \in Seq(Event), NEW e \in Event, NEW cap \in Nat
  PROVE  /\ Push(log, e, cap) \in Seq(Event)
         /\ Len(Push(log, e, cap)) < cap => /\ Push(log, e, cap) = Append(log, e)
                                               /\ Len(log) < cap
<1> DEFINE longer == Append(log, e)
<1>1. longer \in Seq(Event) /\ Len(longer) = Len(log) + 1 /\ Len(log) \in Nat
  BY AppendProperties, LenProperties
<1> HIDE DEF longer
<1>2. CASE Len(longer) > cap
  <2>1. longer # <<>>
    BY <1>1, EmptySeq
  <2>2. Tail(longer) \in Seq(Event) /\ Len(Tail(longer)) = Len(longer) - 1
    BY <1>1, <2>1, HeadTailProperties
  <2>3. Push(log, e, cap) = Tail(longer)
    BY <1>2 DEF Push, longer
  <2>4. ~(Len(Tail(longer)) < cap)
    BY <1>1, <1>2, <2>2
  <2> QED BY <2>2, <2>3, <2>4
<1>3. CASE ~(Len(longer) > cap)
  <2>1. Push(log, e, cap) = longer
    BY <1>3 DEF Push, longer
  <2> QED BY <1>1, <1>3, <2>1 DEF longer
<1> QED BY <1>2, <1>3

\* An operation that records what it does to the lots.
LEMMA RecordedHistory ==
  ASSUME HistoryInv, NEW symbol, NEW p, NEW kind \in {"FILL", "ADJUSTMENT", "SPLIT", "DIVIDEND"},
         NEW lots \in Int, NEW factor \in [num : Nat \ {0}, den : Nat \ {0}],
         Record(symbol, kind, lots, factor),
         DOMAIN positions' = DOMAIN positions \cup {symbol},
         \A s \in DOMAIN positions' : positions'[s] = IF s = symbol THEN p ELSE positions[s],
         "net" \in DOMAIN p,
         NEW before, before = IF symbol \in DOMAIN positions THEN positions[symbol].net ELSE 0,
         p.net = RoundHalfEven((before + lots) * factor.num, factor.den)
  PROVE  HistoryInv'
<1>1. PICK e : e = [seq |-> historySeq + 1, kind |-> kind, lots |-> lots, factor |-> factor]
  OBVIOUS
<1>2. PICK log : log = Events(symbol)
  OBVIOUS
<1>3. PICK pushed : pushed = Push(log, e, HistoryCap)
  OBVIOUS
<1>4. historySeq \in Nat /\ HistoryCap \in Nat
  BY CapsAssumption DEF HistoryInv, HistoryType, ValidKeeperConfig
<1>5. e \in Event /\ e.lots = lots /\ e.factor = factor
  BY <1>1, <1>4 DEF Event
<1>6. log \in Seq(Event)
  BY <1>2, EmptySeq DEF Events, HistoryInv, HistoryType
<1>7. /\ pushed \in Seq(Event)
      /\ Len(pushed) < HistoryCap => pushed = Append(log, e) /\ Len(log) < HistoryCap
  BY <1>3, <1>4, <1>5, <1>6, PushIs
<1>8. historySeq' = historySeq + 1 /\ history' = Put(history, symbol, pushed)
  BY <1>1, <1>2, <1>3 DEF Record
<1>9. /\ DOMAIN history' = DOMAIN history \cup {symbol}
      /\ \A s \in DOMAIN history' : history'[s] = IF s = symbol THEN pushed ELSE history[s]
  BY <1>8 DEF Put
<1>10. before \in Int
  BY DEF HistoryInv, HistoryType
<1>11. p.net \in Int
  <2>1. PICK n : n = (before + lots) * factor.num
    OBVIOUS
  <2>2. n \in Int /\ factor.den \in Nat \ {0}
    BY <1>10, <2>1
  <2> QED BY <2>1, <2>2, RoundedIsWhole
<1>12. HistoryType'
  BY <1>4, <1>7, <1>8, <1>9, <1>11 DEF HistoryInv, HistoryType
<1>13. ASSUME Len(pushed) < HistoryCap PROVE Replay(pushed) = p.net
  <2>1. Replay(log) = before
    <3>1. CASE symbol \in DOMAIN positions
      BY <1>2, <1>7, <1>13, <3>1 DEF HistoryInv, HistoryReplays
    <3>2. CASE symbol \notin DOMAIN positions
      BY <1>2, <3>2, ReplayOfNone DEF HistoryInv, HistoryType, Events
    <3> QED BY <3>1, <3>2
  <2>2. Replay(pushed) = After(before, e)
    BY <1>5, <1>6, <1>7, <1>13, <2>1, ReplayOfMore
  <2> QED BY <1>5, <2>2 DEF After
<1>14. HistoryReplays'
  <2> SUFFICES ASSUME NEW s \in DOMAIN positions', Len(Events(s)') < HistoryCap
               PROVE  Replay(Events(s)') = positions'[s].net
    BY DEF HistoryReplays
  <2>1. DOMAIN history = DOMAIN positions
    BY DEF HistoryInv, HistoryType
  <2>2. CASE s = symbol
    <3>1. Events(s)' = pushed
      BY <1>9, <2>2 DEF Events
    <3> QED BY <1>13, <2>2, <3>1
  <2>3. CASE s # symbol
    <3>1. s \in DOMAIN positions /\ Events(s)' = Events(s) /\ positions'[s] = positions[s]
      BY <1>9, <2>1, <2>3 DEF Events
    <3> QED BY <3>1 DEF HistoryInv, HistoryReplays
  <2> QED BY <2>2, <2>3
<1> QED BY <1>12, <1>14 DEF HistoryInv

\* A fill and an adjustment move the net quantity by their lots, a dividend does not.
LEMMA RoundedByOne == ASSUME NEW n \in Int PROVE RoundHalfEven(n * 1, 1) = n
<1>1. n * 1 = n /\ n \div 1 = n /\ n % 1 = 0
  OBVIOUS
<1> QED BY <1>1 DEF RoundHalfEven

LEMMA NetAfterFill ==
  ASSUME NEW old, "net" \in DOMAIN old, NEW side, NEW qty, NEW price
  PROVE  LET after == FillPosition(old, side, qty, price) IN
         "net" \in DOMAIN after /\ after.net = old.net + Signed(side, qty)
  BY Zenon DEF FillPosition

LEMMA NetAfterAdjustment ==
  ASSUME NEW old, "net" \in DOMAIN old, NEW delta, NEW avg
  PROVE  LET after == AdjustPosition(old, delta, avg) IN
         "net" \in DOMAIN after /\ after.net = old.net + delta
  BY Zenon DEF AdjustPosition

LEMMA NetAfterSplit ==
  ASSUME NEW old, "net" \in DOMAIN old, NEW factor
  PROVE  LET after == SplitPosition(old, factor) IN
         "net" \in DOMAIN after /\ after.net = RoundHalfEven(old.net * factor.num, factor.den)
  BY Zenon DEF SplitPosition

LEMMA NetAfterDividend ==
  ASSUME NEW old, "net" \in DOMAIN old, NEW perShare
  PROVE  LET after == PayDividend(old, perShare) IN
         "net" \in DOMAIN after /\ after.net = old.net
  BY Zenon DEF PayDividend

LEMMA AcceptFillHistory ==
  ASSUME HistoryInv, NEW f \in Fills, AcceptFill(f)
  PROVE  HistoryInv'
<1> DEFINE symbol == f.symbol
           old == PositionOf(symbol)
           p == FillPosition(old, f.side, f.qty, f.price)
<1>1. PICK lots : lots = Signed(f.side, f.qty)
  OBVIOUS
<1>2. lots \in Int
  BY <1>1, FillsAssumption DEF Signed
<1>3. PICK before : before = IF symbol \in DOMAIN positions THEN positions[symbol].net ELSE 0
  OBVIOUS
<1>4. "net" \in DOMAIN old /\ old.net = before /\ before \in Int
  BY <1>3 DEF PositionOf, FlatPosition, HistoryInv, HistoryType
<1>5. PICK after : after = p
  OBVIOUS
<1> HIDE DEF old
<1>6. "net" \in DOMAIN after /\ after.net = before + lots
  BY <1>1, <1>4, <1>5, NetAfterFill
<1>7. positions' = Put(positions, symbol, after)
  BY <1>5 DEF AcceptFill, old
<1>11. Record(symbol, "FILL", lots, Whole(1))
  BY <1>1 DEF AcceptFill
<1> HIDE DEF p
<1>8. /\ DOMAIN positions' = DOMAIN positions \cup {symbol}
      /\ \A s \in DOMAIN positions' : positions'[s] = IF s = symbol THEN after ELSE positions[s]
  BY <1>7 DEF Put
<1>9. Whole(1) \in [num : Nat \ {0}, den : Nat \ {0}] /\ Whole(1).num = 1 /\ Whole(1).den = 1
  BY DEF Whole
<1>10. after.net = RoundHalfEven((before + lots) * Whole(1).num, Whole(1).den)
  <2>1. PICK n \in Int : n = before + lots
    BY <1>2, <1>4
  <2> QED BY <1>6, <1>9, <2>1, RoundedByOne
<1> HIDE DEF symbol
<1> QED BY <1>2, <1>3, <1>6, <1>8, <1>9, <1>10, <1>11, RecordedHistory

LEMMA AdjustmentHistory ==
  ASSUME HistoryInv, NEW record \in Adjustments, ApplyAdjustment(record)
  PROVE  HistoryInv'
<1> DEFINE symbol == record.symbol
           old == positions[symbol]
<1>1. PICK lots : lots = record.delta_qty
  OBVIOUS
<1>2. lots \in Int
  BY <1>1, InputsAssumption DEF AdjustmentRecord
<1>3. symbol \in DOMAIN positions
  BY DEF ApplyAdjustment
<1>4. PICK before : before = IF symbol \in DOMAIN positions THEN positions[symbol].net ELSE 0
  OBVIOUS
<1>5. "net" \in DOMAIN old /\ old.net = before /\ before \in Int
  BY <1>3, <1>4 DEF HistoryInv, HistoryType
<1>6. PICK after : after = AdjustPosition(old, lots, -1)
  OBVIOUS
<1>7. "net" \in DOMAIN after /\ after.net = before + lots
  BY <1>5, <1>6, NetAfterAdjustment
<1>8. positions' = [positions EXCEPT ![symbol] = after]
  BY <1>1, <1>6 DEF ApplyAdjustment
<1>12. Record(symbol, "ADJUSTMENT", lots, Whole(1))
  BY <1>1 DEF ApplyAdjustment
<1>9. /\ DOMAIN positions' = DOMAIN positions \cup {symbol}
      /\ \A s \in DOMAIN positions' : positions'[s] = IF s = symbol THEN after ELSE positions[s]
  BY <1>3, <1>8
<1>10. Whole(1) \in [num : Nat \ {0}, den : Nat \ {0}] /\ Whole(1).num = 1 /\ Whole(1).den = 1
  BY DEF Whole
<1>11. after.net = RoundHalfEven((before + lots) * Whole(1).num, Whole(1).den)
  <2>1. PICK n \in Int : n = before + lots
    BY <1>2, <1>5
  <2> QED BY <1>7, <1>10, <2>1, RoundedByOne
<1> HIDE DEF symbol
<1> QED BY <1>2, <1>4, <1>7, <1>9, <1>10, <1>11, <1>12, RecordedHistory

LEMMA CorporateActionHistory ==
  ASSUME HistoryInv, NEW action \in CorporateActions, ApplyCorporateAction(action)
  PROVE  HistoryInv'
<1> DEFINE symbol == action.symbol
           old == positions[symbol]
<1>0. action \in CorporateAction
  BY InputsAssumption DEF CorporateActions
<1>1. PICK factor : factor = FactorOf(action)
  OBVIOUS
<1>2. /\ action.type \in {"SPLIT", "DIVIDEND"}
      /\ action.type = "SPLIT" => factor = action.factor
      /\ action.type # "SPLIT" => factor = Whole(1)
      /\ factor \in [num : Nat \ {0}, den : Nat \ {0}]
  BY <1>0, <1>1 DEF FactorOf, CorporateAction, Whole
<1>3. symbol \in DOMAIN positions
  BY DEF ApplyCorporateAction, OpenPositions
<1>4. PICK before : before = IF symbol \in DOMAIN positions THEN positions[symbol].net ELSE 0
  OBVIOUS
<1>5. "net" \in DOMAIN old /\ old.net = before /\ before \in Int
  BY <1>3, <1>4 DEF HistoryInv, HistoryType
<1>6. PICK after : after = Reshaped(old, action)
  OBVIOUS
<1>7. positions' = [positions EXCEPT ![symbol] = after]
  BY <1>1, <1>6 DEF ApplyCorporateAction
<1>12. Record(symbol, action.type, 0, factor)
  BY <1>1 DEF ApplyCorporateAction
<1>8. /\ DOMAIN positions' = DOMAIN positions \cup {symbol}
      /\ \A s \in DOMAIN positions' : positions'[s] = IF s = symbol THEN after ELSE positions[s]
  BY <1>3, <1>7
<1>9. before + 0 = before
  BY <1>5
<1>10. "net" \in DOMAIN after /\ after.net = RoundHalfEven((before + 0) * factor.num, factor.den)
  <2>1. CASE action.type = "SPLIT"
    <3>1. after = SplitPosition(old, factor)
      BY <1>2, <1>6, <2>1 DEF Reshaped
    <3>2. "net" \in DOMAIN after /\ after.net = RoundHalfEven(before * factor.num, factor.den)
      BY <1>5, <3>1, NetAfterSplit
    <3> QED BY <1>9, <3>2
  <2>2. CASE action.type # "SPLIT"
    <3>1. after = PayDividend(old, action.per_share) /\ factor = Whole(1)
      BY <1>2, <1>6, <2>2 DEF Reshaped
    <3>2. "net" \in DOMAIN after /\ after.net = before
      BY <1>5, <3>1, NetAfterDividend
    <3>3. factor.num = 1 /\ factor.den = 1
      BY <3>1 DEF Whole
    <3> QED BY <1>5, <1>9, <3>2, <3>3, RoundedByOne
  <2> QED BY <2>1, <2>2
<1>11. action.type \in {"FILL", "ADJUSTMENT", "SPLIT", "DIVIDEND"} /\ 0 \in Int
  BY <1>2
<1> HIDE DEF symbol
<1> QED BY <1>2, <1>4, <1>8, <1>10, <1>11, <1>12, RecordedHistory

LEMMA NextHistory == HistoryInv /\ [Next]_vars => HistoryInv'
<1> SUFFICES ASSUME HistoryInv, [Next]_vars PROVE HistoryInv'
  OBVIOUS
<1>1. ASSUME NEW f \in Fills, AcceptFill(f) PROVE HistoryInv'
  BY <1>1, AcceptFillHistory
<1>2. ASSUME NEW f \in Fills, RejectFill(f) PROVE UNCHANGED ledger
  BY <1>2 DEF RejectFill, vars
<1>3. ASSUME PostAdjustment PROVE HistoryInv'
  BY <1>3, AdjustmentHistory DEF PostAdjustment
<1>4. ASSUME PostCorporateAction PROVE HistoryInv'
  BY <1>4, CorporateActionHistory DEF PostCorporateAction
<1>5. ASSUME NEW symbol \in Symbols, NEW mid \in BookMids, SetReferencePrice(symbol, mid)
      PROVE  UNCHANGED ledger
  BY <1>5 DEF SetReferencePrice
<1>6. ASSUME TakeSnapshot PROVE UNCHANGED ledger
  BY <1>6 DEF TakeSnapshot
<1>7. ASSUME Restart PROVE HistoryInv'
  BY <1>7 DEF Restart, HistoryInv, HistoryType, HistoryReplays
<1>8. ASSUME UNCHANGED vars PROVE UNCHANGED ledger
  BY <1>8 DEF vars
<1>9. ASSUME UNCHANGED ledger PROVE HistoryInv'
  BY <1>9 DEF ledger, HistoryInv, HistoryType, HistoryReplays, Events
<1> QED BY <1>1, <1>2, <1>3, <1>4, <1>5, <1>6, <1>7, <1>8, <1>9 DEF Next, ApplyFill

\* While the deque of a symbol has dropped nothing, replaying it gives the lots the
\* position holds, whatever fills, adjustments, splits and dividends it went through
\* (position_engine.py:111-116, 147-152, 183-189, 341-349).
THEOREM HistoryIsAuditable == Spec => []HistoryReplays
<1>1. HistoryInv => HistoryReplays
  BY DEF HistoryInv
<1> QED BY InitHistory, NextHistory, <1>1, PTL DEF Spec

---------------------------------------------------------------------------
(* The strategies. *)

Limit == Max({MomMax, MrMax, ArbMax})

Contexts == [window : Seq(Nat), net : Int, listed : Seq(Nat), hot : BOOLEAN]

\* A tick in the making.
Ticks == [venue : BookVenues, ctx : Contexts, signals : Seq(Signal), intents : Seq(Intent),
          pending : Seq(Intent), exited : Int]

\* The listed signals of a context: open, all different, no more than the cap.
ListedIn(listed, sigs) ==
  /\ Len(listed) <= MaxOpen
  /\ \A i \in 1..Len(listed) : listed[i] \in 1..Len(sigs) /\ sigs[listed[i]].status = "OPEN"
  /\ \A i, j \in 1..Len(listed) : listed[i] = listed[j] => i = j

\* Two contexts list different signals.
Apart(one, other) == \A i \in 1..Len(one), j \in 1..Len(other) : one[i] # other[j]

LastId(kept) == IF kept = <<>> THEN 0 ELSE kept[Len(kept)].id

Unanswered(kept) == {i \in 1..Len(kept) : ~kept[i].acknowledged}

\* The intents kept, those still to push, and the pushes that have failed.
IntentsAgree(kept, left, failed) ==
  /\ Len(kept) <= MaxIntents /\ Len(left) <= 1
  /\ \A i \in 1..Len(kept) : kept[i].id = LastId(kept) - Len(kept) + i
  /\ Len(kept) <= LastId(kept)
  /\ LastId(kept) <= MaxIntents => Len(kept) = LastId(kept)
  /\ left # <<>> => /\ kept # <<>> /\ left[1].id = LastId(kept)
                    /\ ~kept[Len(kept)].acknowledged
  /\ Cardinality(Unanswered(kept)) <= Len(left) + failed
  /\ LastId(kept) <= MaxIntents => Cardinality(Unanswered(kept)) = Len(left) + failed

\* The lots on their way to a venue, of at most one intent.
InFlight(left, v) == IF left # <<>> /\ left[1].venue = v THEN left[1].lots ELSE 0

StrategyType ==
  /\ contexts \in [BookVenues -> Contexts]
  /\ signals \in Seq(Signal) /\ intents \in Seq(Intent) /\ pending \in Seq(Intent)
  /\ losses \in Nat
  /\ orders \in [BookVenues -> Int] /\ lost \in [BookVenues -> Int]
  /\ flattened \in [BookVenues -> Int]

ContextsAreSound ==
  /\ \A v \in BookVenues : Lots(contexts[v].net) <= Limit /\ ListedIn(contexts[v].listed, signals)
  /\ \A u, v \in BookVenues : u # v => Apart(contexts[u].listed, contexts[v].listed)

StrategyInv ==
  /\ StrategyType /\ ContextsAreSound
  /\ IntentsAgree(intents, pending, losses)
  /\ \A v \in BookVenues :
       contexts[v].net + flattened[v] = orders[v] + InFlight(pending, v) + lost[v]

\* The same of a tick in the making of venue v.
TickInv(at, v) ==
  /\ at \in Ticks /\ at.venue = v /\ losses \in Nat /\ contexts[v].net \in Int
  /\ Lots(at.ctx.net) <= Limit /\ ListedIn(at.ctx.listed, at.signals)
  /\ \A u \in BookVenues : u # v => /\ ListedIn(contexts[u].listed, at.signals)
                                    /\ Apart(contexts[u].listed, at.ctx.listed)
  /\ IntentsAgree(at.intents, at.pending, losses)
  /\ at.pending # <<>> => at.ctx.hot /\ at.pending[1].venue = v
  /\ at.ctx.net + at.exited = contexts[v].net + InFlight(at.pending, v)

---------------------------------------------------------------------------
LEMMA LimitIsLargest ==
  Limit \in Nat /\ MomMax <= Limit /\ MrMax <= Limit /\ ArbMax <= Limit
<1> DEFINE S == {MomMax, MrMax, ArbMax}
<1>1. MomMax \in Nat /\ MrMax \in Nat /\ ArbMax \in Nat
  BY StrategyAssumption DEF ValidStrategyConfig
<1>2. \E x \in S : \A y \in S : x >= y
  <2>1. CASE MomMax >= MrMax /\ MomMax >= ArbMax
    BY <1>1, <2>1
  <2>2. CASE MrMax >= MomMax /\ MrMax >= ArbMax
    BY <1>1, <2>2
  <2>3. CASE ArbMax >= MomMax /\ ArbMax >= MrMax
    BY <1>1, <2>3
  <2> QED BY <1>1, <2>1, <2>2, <2>3
<1>3. Limit \in S /\ \A y \in S : Limit >= y
  BY <1>2 DEF Limit, Max
<1> QED BY <1>1, <1>3

\* A bounded set of numbers that is not empty has a largest one.
LEMMA MaxOf ==
  ASSUME NEW n \in Nat, NEW S \in SUBSET (0..n), S # {}
  PROVE  Max(S) \in S
<1> DEFINE T == {n - k : k \in S}
<1>1. T \in SUBSET Nat /\ T # {}
  <2>1. \A k \in S : k \in Nat /\ n - k \in Nat
    OBVIOUS
  <2> QED BY <2>1
<1>2. PICK m \in T : \A k \in T : m <= k
  BY <1>1, NatMin
<1>3. PICK x \in S : m = n - x
  BY <1>2
<1>4. \A y \in S : x >= y
  BY <1>2, <1>3
<1> QED BY <1>3, <1>4 DEF Max

\* What a strategy may decide: an exit, or an entry that its limits leave room for.
Allowed(d, net) ==
  /\ d.px \in Nat /\ d.side \in {-1, 1} /\ d.qty \in Nat
  /\ \/ d.action = "EXIT"
     \/ d.action = "ENTER" /\ d.qty >= 1 /\ Lots(net) + d.qty <= Limit

LEMMA EntersAllowed ==
  ASSUME NEW ctx \in Contexts, NEW side \in {-1, 1}, NEW qty \in Nat, NEW limit \in Nat,
         limit <= Limit, NEW px \in Nat
  PROVE  \A d \in Enters(ctx, side, qty, limit, px) : Allowed(d, ctx.net)
<1>0. Limit \in Nat /\ Lots(ctx.net) \in Nat
  BY LimitIsLargest DEF Contexts, Lots
<1> DEFINE q == Smaller(limit - Lots(ctx.net), Larger(1, qty))
           entry == [action |-> "ENTER", side |-> side, qty |-> q, px |-> px]
<1> SUFFICES ASSUME ~(Lots(ctx.net) >= limit) PROVE Allowed(entry, ctx.net)
  BY DEF Enters
<1>1. q \in Nat /\ q >= 1 /\ q <= limit - Lots(ctx.net)
  BY <1>0 DEF Smaller, Larger
<1>2. Lots(ctx.net) + q <= Limit
  BY <1>0, <1>1
<1> HIDE DEF q
<1> QED BY <1>1, <1>2 DEF Allowed

LEMMA ExitsAllowed ==
  ASSUME NEW ctx \in Contexts, NEW px \in Nat
  PROVE  \A d \in Exits(ctx, px) : Allowed(d, ctx.net)
  BY DEF Exits, Allowed, Contexts, Lots, Sign

LEMMA WindowEnds ==
  ASSUME NEW w \in Seq(Nat), Len(w) >= 1
  PROVE  Len(w) \in Nat /\ Last(w) \in Nat /\ Head(w) \in Nat
<1>1. Len(w) \in Nat /\ \A i \in 1..Len(w) : w[i] \in Nat
  BY LenProperties, ElementOfSeq
<1>2. Last(w) = w[Len(w)] /\ Head(w) = w[1]
  BY DEF Last
<1> QED BY <1>1, <1>2

LEMMA MomentumAllowed ==
  ASSUME NEW ctx \in Contexts
  PROVE  \A d \in Momentum(ctx) : Allowed(d, ctx.net)
<1> SUFFICES ASSUME ~(Len(ctx.window) < 2)
             PROVE  \A d \in Momentum(ctx) : Allowed(d, ctx.net)
  BY DEF Momentum
<1>1. ctx.window \in Seq(Nat) /\ Len(ctx.window) \in Nat
  BY LenProperties DEF Contexts
<1>2. Last(ctx.window) \in Nat /\ Head(ctx.window) \in Nat
  BY <1>1, WindowEnds
<1> DEFINE move == Last(ctx.window) - Head(ctx.window)
<1>3. Sign(move) \in {-1, 1} /\ Lots(move) \in Nat
  BY <1>2 DEF Sign, Lots
<1>4. \A d \in Enters(ctx, Sign(move), Lots(move), MomMax, Last(ctx.window)) : Allowed(d, ctx.net)
  BY <1>2, <1>3, EntersAllowed, LimitIsLargest, StrategyAssumption DEF ValidStrategyConfig
<1>5. \A d \in Exits(ctx, Last(ctx.window)) : Allowed(d, ctx.net)
  BY <1>2, ExitsAllowed
<1> QED BY <1>4, <1>5 DEF Momentum

LEMMA MeanReversionAllowed ==
  ASSUME NEW ctx \in Contexts
  PROVE  \A d \in MeanReversion(ctx) : Allowed(d, ctx.net)
<1> DEFINE w == ctx.window
           dev == Deviation(w, Last(w))
           reaches(k) == dev * dev >= k * k * SquaredStdev(w)
           qty == Max({1} \cup {k \in 1..Len(w) : reaches(k)})
<1> SUFFICES ASSUME ~(Len(w) < 2)
             PROVE  \A d \in MeanReversion(ctx) : Allowed(d, ctx.net)
  BY DEF MeanReversion
<1>1. w \in Seq(Nat) /\ Len(w) \in Nat
  BY LenProperties DEF Contexts
<1>2. Last(w) \in Nat
  BY <1>1, WindowEnds
<1>3. Sign(dev) \in {-1, 1}
  BY DEF Sign
<1>4. qty \in Nat
  <2> DEFINE S == {1} \cup {k \in 1..Len(w) : reaches(k)}
  <2>1. S \in SUBSET (0..Len(w)) /\ S # {}
    BY <1>1
  <2> HIDE DEF S
  <2>2. Max(S) \in S
    BY <1>1, <2>1, MaxOf
  <2> QED BY <1>1, <2>1, <2>2 DEF S
<1> HIDE DEF qty
<1>5. \A d \in Enters(ctx, Sign(dev), qty, MrMax, Last(w)) : Allowed(d, ctx.net)
  BY <1>2, <1>3, <1>4, EntersAllowed, LimitIsLargest, StrategyAssumption DEF ValidStrategyConfig
<1>6. \A d \in Exits(ctx, Last(w)) : Allowed(d, ctx.net)
  BY <1>2, ExitsAllowed
<1>7. \/ MeanReversion(ctx) = {} \/ MeanReversion(ctx) = Exits(ctx, Last(w))
      \/ MeanReversion(ctx) = Enters(ctx, Sign(dev), qty, MrMax, Last(w))
  BY DEF MeanReversion, qty
<1> QED BY <1>5, <1>6, <1>7

LEMMA SpreadArbAllowed ==
  ASSUME NEW ctx \in Contexts, NEW view \in [bid : Nat, ask : Nat, mid : Nat, spread : Nat]
  PROVE  \A d \in SpreadArb(ctx, view) : Allowed(d, ctx.net)
<1> DEFINE bid == view.bid
           ask == view.ask
<1> SUFFICES ASSUME bid # 0, ask # 0
             PROVE  \A d \in SpreadArb(ctx, view) : Allowed(d, ctx.net)
  BY DEF SpreadArb
<1>1. bid \in Nat \ {0} /\ ask \in Nat \ {0} /\ view.mid \in Nat
  OBVIOUS
<1> HIDE DEF bid, ask
<1>2. bid \div ask \in Nat /\ ask \div bid \in Nat
  BY <1>1
<1>3. \A d \in Enters(ctx, 1, bid \div ask, ArbMax, view.mid) : Allowed(d, ctx.net)
  BY <1>1, <1>2, EntersAllowed, LimitIsLargest, StrategyAssumption DEF ValidStrategyConfig
<1>4. \A d \in Enters(ctx, -1, ask \div bid, ArbMax, view.mid) : Allowed(d, ctx.net)
  BY <1>1, <1>2, EntersAllowed, LimitIsLargest, StrategyAssumption DEF ValidStrategyConfig
<1>5. \A d \in Exits(ctx, view.mid) : Allowed(d, ctx.net)
  BY <1>1, ExitsAllowed
<1> QED BY <1>3, <1>4, <1>5 DEF SpreadArb, bid, ask

\* An order is of one lot at least and never of more than was suggested.
LEMMA OrderQtyIs ==
  ASSUME NEW net, NEW d, Allowed(d, net)
  PROVE  OrderQty(d) \in Nat /\ OrderQty(d) >= 1 /\ (d.qty >= 1 => OrderQty(d) <= d.qty)
<1>1. d.qty \in Nat /\ d.px \in Nat /\ MaxOrderQty \in Nat \ {0} /\ MaxNotional \in Nat \ {0}
  BY StrategyAssumption DEF Allowed, ValidStrategyConfig
<1> DEFINE qty == Larger(1, Smaller(d.qty, MaxOrderQty))
<1>2. qty \in Nat /\ qty >= 1 /\ (d.qty >= 1 => qty <= d.qty)
  BY <1>1 DEF Larger, Smaller
<1> HIDE DEF qty
<1>3. CASE ~(qty * d.px > MaxNotional)
  BY <1>2, <1>3 DEF OrderQty, qty
<1>4. CASE qty * d.px > MaxNotional
  <2>1. d.px # 0
    BY <1>1, <1>2, <1>4
  <2>2. MaxNotional \div d.px \in Nat
    BY <1>1, <2>1
  <2>3. OrderQty(d) = Smaller(qty, Larger(1, MaxNotional \div d.px))
    BY <1>4 DEF OrderQty, qty
  <2> DEFINE room == MaxNotional \div d.px
  <2> HIDE DEF room
  <2>4. room \in Nat /\ OrderQty(d) = Smaller(qty, Larger(1, room))
    BY <2>2, <2>3 DEF room
  <2>5. OrderQty(d) \in Nat /\ OrderQty(d) >= 1 /\ OrderQty(d) <= qty
    BY <1>2, <2>4 DEF Smaller, Larger
  <2> QED BY <1>1, <1>2, <2>5
<1> QED BY <1>3, <1>4

---------------------------------------------------------------------------
(* The intents. *)

LEMMA KeptIntents ==
  ASSUME NEW kept \in Seq(Intent)
  PROVE  /\ Len(kept) \in Nat /\ DOMAIN kept = 1..Len(kept) /\ (kept = <<>> <=> Len(kept) = 0)
         /\ \A i \in 1..Len(kept) : /\ kept[i] \in Intent /\ kept[i].id \in Nat \ {0}
                                    /\ kept[i].acknowledged \in BOOLEAN
         /\ LastId(kept) \in Nat
         /\ IsFiniteSet(Unanswered(kept)) /\ Cardinality(Unanswered(kept)) \in Nat
<1>1. Len(kept) \in Nat /\ DOMAIN kept = 1..Len(kept) /\ (kept = <<>> <=> Len(kept) = 0)
  BY LenProperties, EmptySeq
<1>2. \A i \in 1..Len(kept) : /\ kept[i] \in Intent /\ kept[i].id \in Nat \ {0}
                              /\ kept[i].acknowledged \in BOOLEAN
  <2> TAKE i \in 1..Len(kept)
  <2>1. kept[i] \in Intent
    BY ElementOfSeq
  <2>2. \A x \in Intent : x.id \in Nat \ {0} /\ x.acknowledged \in BOOLEAN
    BY DEF Intent
  <2> QED BY <2>1, <2>2
<1>3. LastId(kept) \in Nat
  BY <1>1, <1>2 DEF LastId
<1>4. IsFiniteSet(1..Len(kept)) /\ Unanswered(kept) \subseteq 1..Len(kept)
  BY <1>1, FS_Interval DEF Unanswered
<1>5. IsFiniteSet(Unanswered(kept))
  BY <1>4, FS_Subset
<1> QED BY <1>1, <1>2, <1>3, <1>5, FS_CardinalityType

\* The list with a new intent at its end, before the oldest goes.
LEMMA AppendedUnanswered ==
  ASSUME NEW kept \in Seq(Intent), NEW intent \in Intent, ~intent.acknowledged
  PROVE  LET all == Append(kept, intent) IN
         /\ all \in Seq(Intent) /\ Len(all) = Len(kept) + 1 /\ all[Len(kept) + 1] = intent
         /\ \A i \in 1..Len(kept) : all[i] = kept[i]
         /\ Cardinality(Unanswered(all)) = Cardinality(Unanswered(kept)) + 1
<1> DEFINE all == Append(kept, intent)
           n == Len(kept)
<1>1. /\ all \in Seq(Intent) /\ Len(all) = n + 1 /\ all[n + 1] = intent
      /\ \A i \in 1..n : all[i] = kept[i]
  BY AppendProperties
<1>2. n \in Nat /\ IsFiniteSet(Unanswered(kept))
  BY KeptIntents
<1> HIDE DEF all, n
<1>3. Unanswered(all) = Unanswered(kept) \cup {n + 1} /\ n + 1 \notin Unanswered(kept)
  <2>1. ASSUME NEW i \in 1..(n + 1)
        PROVE  i \in Unanswered(all) <=> i \in Unanswered(kept) \/ i = n + 1
    <3>1. CASE i = n + 1
      BY <1>1, <1>2, <3>1 DEF Unanswered
    <3>2. CASE i # n + 1
      <4>1. i \in 1..n /\ all[i] = kept[i]
        BY <1>1, <1>2, <3>2
      <4> QED BY <1>1, <3>2, <4>1 DEF Unanswered, n
    <3> QED BY <3>1, <3>2
  <2>2. Unanswered(all) \subseteq 1..(n + 1) /\ Unanswered(kept) \subseteq 1..n
    BY <1>1 DEF Unanswered, n
  <2>3. n + 1 \in 1..(n + 1) /\ n + 1 \notin 1..n /\ 1..n \subseteq 1..(n + 1)
    BY <1>2
  <2> QED BY <2>1, <2>2, <2>3
<1>4. Cardinality(Unanswered(all)) = Cardinality(Unanswered(kept)) + 1
  BY <1>2, <1>3, FS_AddElement
<1> QED BY <1>1, <1>4 DEF all, n

\* A list without its oldest intent has no more unanswered ones.
LEMMA ShiftedUnanswered ==
  ASSUME NEW all \in Seq(Intent), NEW after \in Seq(Intent), Len(all) = Len(after) + 1,
         \A i \in 1..Len(after) : after[i] = all[i + 1]
  PROVE  Cardinality(Unanswered(after)) <= Cardinality(Unanswered(all))
<1> DEFINE f == [i \in Unanswered(after) |-> i + 1]
<1>1. Len(after) \in Nat /\ Len(all) \in Nat /\ IsFiniteSet(Unanswered(all))
  BY KeptIntents
<1>2. \A i \in Unanswered(after) : i \in Nat /\ i + 1 \in Unanswered(all)
  BY <1>1 DEF Unanswered
<1>3. f \in Injection(Unanswered(after), Unanswered(all))
  BY <1>2 DEF Injection, IsInjective
<1> HIDE DEF f
<1> QED BY <1>1, <1>3, FS_Injection

\* The newest intents.
NewestIntents(all) == SubSeq(all, Larger(1, Len(all) - MaxIntents + 1), Len(all))

\* _build_intent, when nothing was on its way.
LEMMA BuiltAgrees ==
  ASSUME NEW kept \in Seq(Intent), NEW failed \in Nat, IntentsAgree(kept, <<>>, failed),
         NEW intent \in Intent, intent.id = LastId(kept) + 1, ~intent.acknowledged,
         NEW after, after = NewestIntents(Append(kept, intent))
  PROVE  after \in Seq(Intent) /\ IntentsAgree(after, <<intent>>, failed)
<1> DEFINE all == Append(kept, intent)
           n == Len(kept)
           left == <<intent>>
<1>0. /\ n \in Nat /\ LastId(kept) \in Nat /\ n <= MaxIntents /\ MaxIntents \in Nat \ {0}
      /\ Len(<<>>) = 0 /\ Cardinality(Unanswered(kept)) \in Nat /\ n <= LastId(kept)
      /\ LastId(kept) <= MaxIntents => n = LastId(kept)
      /\ Cardinality(Unanswered(kept)) <= failed
      /\ LastId(kept) <= MaxIntents => Cardinality(Unanswered(kept)) = failed
      /\ \A i \in 1..n : kept[i].id = LastId(kept) - n + i
  BY KeptIntents, StrategyAssumption, EmptySeq DEF IntentsAgree, ValidStrategyConfig
<1>1. /\ all \in Seq(Intent) /\ Len(all) = n + 1 /\ all[n + 1] = intent
      /\ \A i \in 1..n : all[i] = kept[i]
      /\ Cardinality(Unanswered(all)) = Cardinality(Unanswered(kept)) + 1
  BY AppendedUnanswered
<1>2. Len(left) = 1 /\ left[1] = intent /\ left # <<>>
  OBVIOUS
<1>3. after = SubSeq(all, Larger(1, (n + 1) - MaxIntents + 1), n + 1)
  BY <1>1 DEF NewestIntents
<1> HIDE DEF all, left, n
<1>4. \A i \in 1..(n + 1) : all[i].id = LastId(kept) - n + i
  <2> TAKE i \in 1..(n + 1)
  <2>1. CASE i \in 1..n
    BY <1>0, <1>1, <2>1
  <2>2. CASE i = n + 1
    BY <1>0, <1>1, <2>2
  <2> QED BY <1>0, <2>1, <2>2
<1>5. CASE n < MaxIntents
  <2>1. Larger(1, (n + 1) - MaxIntents + 1) = 1
    BY <1>0, <1>5 DEF Larger
  <2>2. \A i \in 1..(n + 1) : all[i] \in Intent
    BY <1>1, ElementOfSeq
  <2>3. after = SubSeq(all, 1, Len(all))
    BY <1>1, <1>3, <2>1
  <2>4. after \in Seq(Intent) /\ Len(after) = n + 1 /\ \A i \in 1..(n + 1) : after[i] = all[i]
    <3>1. /\ SubSeq(all, 1, n + 1) \in Seq(Intent)
          /\ Len(SubSeq(all, 1, n + 1)) = IF 1 <= n + 1 THEN (n + 1) - 1 + 1 ELSE 0
          /\ \A i \in 1..((n + 1) - 1 + 1) : SubSeq(all, 1, n + 1)[i] = all[1 + i - 1]
      BY <1>0, <1>1, <2>2, SubSeqProperties
    <3> QED BY <1>0, <1>1, <2>3, <3>1
  <2>5. after = all
    BY <1>1, <2>4, SeqEqual
  <2>6. LastId(all) = LastId(kept) + 1
    <3>1. all # <<>>
      BY <1>0, <1>1, EmptySeq
    <3> QED BY <1>1, <3>1 DEF LastId
  <2>7. \A i \in 1..(n + 1) : all[i].id = LastId(all) - (n + 1) + i
    BY <1>0, <1>4, <2>6
  <2>8. all # <<>>
    BY <1>0, <1>1, EmptySeq
  <2>9. /\ n + 1 <= MaxIntents /\ n + 1 <= LastId(all)
        /\ LastId(all) <= MaxIntents => n + 1 = LastId(all)
        /\ Cardinality(Unanswered(all)) <= 1 + failed
        /\ LastId(all) <= MaxIntents => Cardinality(Unanswered(all)) = 1 + failed
    BY <1>0, <1>1, <1>5, <2>6
  <2>10. IntentsAgree(all, left, failed)
    BY <1>1, <1>2, <2>6, <2>7, <2>8, <2>9 DEF IntentsAgree
  <2> QED BY <1>1, <2>5, <2>10 DEF left
<1>6. CASE n = MaxIntents
  <2>1. Larger(1, (n + 1) - MaxIntents + 1) = 2
    BY <1>0, <1>6 DEF Larger
  <2>2. \A i \in 2..(n + 1) : all[i] \in Intent
    BY <1>0, <1>1, ElementOfSeq
  <2>3. after = SubSeq(all, 2, n + 1)
    BY <1>3, <2>1
  <2>4. after \in Seq(Intent) /\ Len(after) = n /\ \A i \in 1..n : after[i] = all[i + 1]
    <3>1. /\ SubSeq(all, 2, n + 1) \in Seq(Intent)
          /\ Len(SubSeq(all, 2, n + 1)) = IF 2 <= n + 1 THEN (n + 1) - 2 + 1 ELSE 0
          /\ \A i \in 1..((n + 1) - 2 + 1) : SubSeq(all, 2, n + 1)[i] = all[2 + i - 1]
      BY <1>0, <1>1, <2>2, SubSeqProperties
    <3>2. (n + 1) - 2 + 1 = n /\ 2 <= n + 1 /\ \A i \in 1..n : 2 + i - 1 = i + 1
      BY <1>0, <1>6
    <3> QED BY <2>3, <3>1, <3>2
  <2>5. n >= 1 /\ after # <<>> /\ n \in 1..n
    BY <1>0, <1>6, <2>4, EmptySeq
  <2>6. after[n] = intent /\ LastId(after) = LastId(kept) + 1
    BY <1>1, <2>4, <2>5 DEF LastId
  <2>7. \A i \in 1..n : after[i].id = LastId(after) - n + i
    <3> TAKE i \in 1..n
    <3>1. i + 1 \in 1..(n + 1) /\ after[i] = all[i + 1]
      BY <1>0, <2>4
    <3>2. after[i].id = LastId(kept) - n + (i + 1)
      BY <1>4, <3>1
    <3> QED BY <1>0, <2>6, <3>2
  <2>8. Cardinality(Unanswered(after)) <= Cardinality(Unanswered(all))
    BY <1>1, <2>4, ShiftedUnanswered
  <2>9. /\ n <= LastId(after) /\ ~(LastId(after) <= MaxIntents)
        /\ Cardinality(Unanswered(after)) <= 1 + failed
    <3>1. Cardinality(Unanswered(after)) \in Nat
      BY <2>4, KeptIntents
    <3> QED BY <1>0, <1>1, <1>6, <2>6, <2>8, <3>1
  <2>10. IntentsAgree(after, left, failed)
    BY <1>0, <1>2, <2>4, <2>5, <2>6, <2>7, <2>9 DEF IntentsAgree
  <2> QED BY <2>4, <2>10 DEF left
<1> QED BY <1>0, <1>5, <1>6

\* A push that raises leaves the intent unanswered.
LEMMA RaisedAgrees ==
  ASSUME NEW kept \in Seq(Intent), NEW left, NEW failed \in Nat, IntentsAgree(kept, left, failed),
         Len(left) = 1
  PROVE  IntentsAgree(kept, <<>>, failed + 1)
<1>1. Len(<<>>) = 0 /\ Cardinality(Unanswered(kept)) \in Nat
  BY KeptIntents, EmptySeq
<1> QED BY <1>1 DEF IntentsAgree

\* mark_intent_acknowledged, of the one that was on its way.
LEMMA AcknowledgedAgrees ==
  ASSUME NEW kept \in Seq(Intent), NEW left, NEW failed \in Nat, IntentsAgree(kept, left, failed),
         Len(left) = 1, left # <<>>, NEW after,
         after = [i \in DOMAIN kept |-> IF kept[i].id = left[1].id
                                        THEN [kept[i] EXCEPT !.acknowledged = TRUE] ELSE kept[i]]
  PROVE  after \in Seq(Intent) /\ IntentsAgree(after, <<>>, failed)
<1> DEFINE n == Len(kept)
<1>0. /\ n \in Nat /\ DOMAIN kept = 1..n /\ n >= 1 /\ n \in 1..n
      /\ LastId(kept) \in Nat /\ IsFiniteSet(Unanswered(kept))
      /\ left[1].id = LastId(kept) /\ ~kept[n].acknowledged
      /\ \A i \in 1..n : kept[i].id = LastId(kept) - n + i
  BY KeptIntents DEF IntentsAgree
<1>1. \A i \in 1..n : kept[i] \in Intent
  BY KeptIntents
<1> HIDE DEF n
<1>2. ASSUME NEW i \in 1..n
      PROVE  /\ after[i] = IF i = n THEN [kept[i] EXCEPT !.acknowledged = TRUE] ELSE kept[i]
             /\ after[i] \in Intent /\ after[i].id = kept[i].id
             /\ i = n => after[i].acknowledged
             /\ i # n => after[i] = kept[i]
  <2>1. kept[i].id = left[1].id <=> i = n
    BY <1>0
  <2>2. after[i] = IF i = n THEN [kept[i] EXCEPT !.acknowledged = TRUE] ELSE kept[i]
    BY <1>0, <2>1
  <2>3. kept[i] \in Intent
    BY <1>1
  <2> DEFINE acked == [kept[i] EXCEPT !.acknowledged = TRUE]
  <2>4. acked \in Intent /\ acked.id = kept[i].id /\ acked.acknowledged
    BY <2>3 DEF Intent
  <2> HIDE DEF acked
  <2>5. i = n => after[i] = acked
    BY <2>2 DEF acked
  <2>6. i # n => after[i] = kept[i]
    BY <2>2
  <2> QED BY <2>2, <2>3, <2>4, <2>5, <2>6
<1>3. after \in Seq(Intent) /\ Len(after) = n
  <2>1. after \in [1..n -> Intent]
    <3>1. after = [i \in 1..n |-> after[i]]
      BY <1>0
    <3> QED BY <1>2, <3>1
  <2>2. after \in Seq(Intent)
    BY <1>0, <2>1, SeqDef
  <2>3. DOMAIN after = 1..Len(after) /\ Len(after) \in Nat
    BY <2>2, LenProperties
  <2> QED BY <1>0, <2>1, <2>2, <2>3
<1>4. LastId(after) = LastId(kept) /\ after # <<>> /\ kept # <<>>
  <2>1. after # <<>> /\ kept # <<>>
    BY <1>0, <1>3, EmptySeq DEF n
  <2>2. after[n].id = kept[n].id
    BY <1>0, <1>2
  <2> QED BY <1>3, <2>1, <2>2 DEF LastId, n
<1>5. Unanswered(after) = Unanswered(kept) \ {n} /\ n \in Unanswered(kept)
  BY <1>0, <1>2, <1>3 DEF Unanswered, n
<1>6. Cardinality(Unanswered(after)) = Cardinality(Unanswered(kept)) - 1
  BY <1>0, <1>5, FS_RemoveElement
<1>7. Len(<<>>) = 0 /\ Cardinality(Unanswered(kept)) \in Nat
  BY KeptIntents, EmptySeq
<1>8. /\ n <= MaxIntents /\ n <= LastId(kept)
      /\ LastId(kept) <= MaxIntents => n = LastId(kept)
      /\ Cardinality(Unanswered(kept)) <= 1 + failed
      /\ LastId(kept) <= MaxIntents => Cardinality(Unanswered(kept)) = 1 + failed
  BY DEF IntentsAgree, n
<1>9. \A i \in 1..n : after[i].id = LastId(after) - n + i
  BY <1>0, <1>2, <1>4
<1>10. /\ Cardinality(Unanswered(after)) <= 0 + failed
       /\ LastId(after) <= MaxIntents => Cardinality(Unanswered(after)) = 0 + failed
  BY <1>4, <1>6, <1>7, <1>8
<1>11. IntentsAgree(after, <<>>, failed)
  BY <1>3, <1>4, <1>7, <1>8, <1>9, <1>10 DEF IntentsAgree
<1> QED BY <1>3, <1>11

---------------------------------------------------------------------------
(* The steps of one tick. *)

LEMMA TickFields ==
  ASSUME NEW at \in Ticks
  PROVE  /\ at.venue \in BookVenues /\ at.ctx \in Contexts /\ at.signals \in Seq(Signal)
         /\ at.intents \in Seq(Intent) /\ at.pending \in Seq(Intent) /\ at.exited \in Int
         /\ at.ctx.window \in Seq(Nat) /\ at.ctx.net \in Int /\ at.ctx.listed \in Seq(Nat)
         /\ at.ctx.hot \in BOOLEAN
         /\ Len(at.signals) \in Nat /\ DOMAIN at.signals = 1..Len(at.signals)
         /\ Len(at.ctx.listed) \in Nat
<1>1. /\ at.venue \in BookVenues /\ at.ctx \in Contexts /\ at.signals \in Seq(Signal)
      /\ at.intents \in Seq(Intent) /\ at.pending \in Seq(Intent) /\ at.exited \in Int
  BY DEF Ticks
<1>2. \A ctx \in Contexts : /\ ctx.window \in Seq(Nat) /\ ctx.net \in Int
                            /\ ctx.listed \in Seq(Nat) /\ ctx.hot \in BOOLEAN
  BY DEF Contexts
<1> QED BY <1>1, <1>2, LenProperties

\* A signal more leaves the listed ones as they are.
LEMMA ListedStays ==
  ASSUME NEW sigs \in Seq(Signal), NEW sig \in Signal, NEW listed, ListedIn(listed, sigs)
  PROVE  ListedIn(listed, Append(sigs, sig))
<1>1. /\ Len(sigs) \in Nat /\ Len(Append(sigs, sig)) = Len(sigs) + 1
      /\ \A i \in 1..Len(sigs) : Append(sigs, sig)[i] = sigs[i]
  BY AppendProperties, LenProperties
<1>2. \A k \in 1..Len(sigs) : k \in 1..(Len(sigs) + 1)
  BY <1>1
<1> QED BY <1>1, <1>2 DEF ListedIn

\* What is left of a list after its first elements.
LEMMA RestOf ==
  ASSUME NEW s \in Seq(Nat), NEW n \in Nat, n = Len(s), NEW k \in 0..n
  PROVE  /\ SubSeq(s, k + 1, n) \in Seq(Nat) /\ Len(SubSeq(s, k + 1, n)) = n - k
         /\ \A i \in 1..(n - k) : SubSeq(s, k + 1, n)[i] = s[i + k]
<1>1. PICK m \in Nat : m = k + 1
  OBVIOUS
<1>2. \A i \in m..n : s[i] \in Nat
  BY <1>1, ElementOfSeq
<1>3. /\ SubSeq(s, m, n) \in Seq(Nat)
      /\ Len(SubSeq(s, m, n)) = IF m <= n THEN n - m + 1 ELSE 0
      /\ \A i \in 1..(n - m + 1) : SubSeq(s, m, n)[i] = s[m + i - 1]
  BY SMTT(30), <1>2, SubSeqProperties
<1>4. n - m + 1 = n - k /\ (~(m <= n) => n - k = 0) /\ \A i \in 1..(n - k) : m + i - 1 = i + k
  BY <1>1
<1> QED BY <1>1, <1>3, <1>4

LEMMA NoneListed == ASSUME NEW sigs PROVE ListedIn(<<>>, sigs)
<1>1. Len(<<>>) = 0 /\ MaxOpen \in Nat
  BY EmptySeq, StrategyAssumption DEF ValidStrategyConfig
<1> QED BY <1>1 DEF ListedIn

\* _enforce_open_cap makes room for one.
LEMMA CappedKeeps ==
  ASSUME NEW v \in BookVenues, NEW at, TickInv(at, v)
  PROVE  LET after == Capped(at) IN
         /\ TickInv(after, v) /\ Len(after.ctx.listed) < MaxOpen
         /\ after.pending = at.pending /\ after.ctx.hot = at.ctx.hot
         /\ after.ctx.net = at.ctx.net /\ after.intents = at.intents
<1> DEFINE listed == at.ctx.listed
           n == Len(listed)
           drop == Larger(0, n - MaxOpen + 1)
           gone == {listed[i] : i \in 1..drop}
           rest == SubSeq(listed, drop + 1, n)
           sigs == [i \in DOMAIN at.signals |-> IF i \in gone THEN [at.signals[i] EXCEPT !.status = "EXPIRED"]
                                                ELSE at.signals[i]]
           after == Capped(at)
           m == Len(at.signals)
<1>0. /\ at \in Ticks /\ ListedIn(listed, at.signals) /\ n \in Nat /\ m \in Nat
      /\ DOMAIN at.signals = 1..m /\ listed \in Seq(Nat) /\ at.signals \in Seq(Signal)
      /\ \A u \in BookVenues : u # v => /\ ListedIn(contexts[u].listed, at.signals)
                                        /\ Apart(contexts[u].listed, listed)
  BY TickFields DEF TickInv
<1>1. /\ after = [at EXCEPT !.ctx.listed = rest, !.signals = sigs]
  BY DEF Capped
<1> HIDE DEF sigs, rest, after
<1>2. /\ after.venue = at.venue /\ after.intents = at.intents /\ after.pending = at.pending
      /\ after.exited = at.exited /\ after.signals = sigs /\ after.ctx.listed = rest
      /\ after.ctx.net = at.ctx.net /\ after.ctx.hot = at.ctx.hot
      /\ after.ctx.window = at.ctx.window
      /\ after = [venue |-> at.venue, ctx |-> after.ctx, signals |-> sigs, intents |-> at.intents,
                  pending |-> at.pending, exited |-> at.exited]
      /\ after.ctx = [window |-> at.ctx.window, net |-> at.ctx.net, listed |-> rest, hot |-> at.ctx.hot]
  BY <1>0, <1>1 DEF Ticks, Contexts
<1>3. n <= MaxOpen /\ MaxOpen \in Nat \ {0} /\ drop \in {0, 1} /\ drop <= n /\ n - drop < MaxOpen
  <2>1. n <= MaxOpen /\ MaxOpen \in Nat \ {0}
    BY <1>0, StrategyAssumption DEF ListedIn, ValidStrategyConfig
  <2> HIDE DEF n
  <2> QED BY <1>0, <2>1 DEF Larger
<1> HIDE DEF n, drop
<1>4. /\ rest \in Seq(Nat) /\ Len(rest) = n - drop
      /\ \A i \in 1..(n - drop) : i + drop \in 1..n /\ rest[i] = listed[i + drop]
  <2>1. listed \in Seq(Nat) /\ n = Len(listed) /\ drop \in 0..n /\ n \in Nat
    BY <1>0, <1>3 DEF n
  <2>2. /\ rest \in Seq(Nat) /\ Len(rest) = n - drop
        /\ \A i \in 1..(n - drop) : rest[i] = listed[i + drop]
    BY <2>1, RestOf DEF rest, n
  <2>3. \A i \in 1..(n - drop) : i + drop \in 1..n
    BY <2>1
  <2> QED BY <2>2, <2>3
<1>5. /\ \A i \in 1..m : sigs[i] \in Signal /\ (i \notin gone => sigs[i] = at.signals[i])
      /\ sigs \in Seq(Signal) /\ Len(sigs) = m
  <2>1. \A i \in 1..m : at.signals[i] \in Signal
    BY <1>0, ElementOfSeq
  <2>2. \A s \in Signal : [s EXCEPT !.status = "EXPIRED"] \in Signal
    BY DEF Signal
  <2> HIDE DEF gone, m
  <2>3. \A i \in 1..m : sigs[i] \in Signal /\ (i \notin gone => sigs[i] = at.signals[i])
    BY <1>0, <2>1, <2>2 DEF sigs
  <2>4. sigs = [i \in 1..m |-> sigs[i]]
    BY <1>0 DEF sigs
  <2>5. sigs \in [1..m -> Signal]
    BY <2>3, <2>4
  <2>6. sigs \in Seq(Signal)
    BY <1>0, <2>5, SeqDef
  <2>7. DOMAIN sigs = 1..Len(sigs) /\ Len(sigs) \in Nat
    BY <2>6, LenProperties
  <2> QED BY <1>0, <2>3, <2>5, <2>6, <2>7
<1>6. after \in Ticks
  BY <1>0, <1>2, <1>4, <1>5, TickFields DEF Ticks, Contexts
<1>7. ListedIn(rest, sigs)
  <2>1. \A i \in 1..(n - drop) : rest[i] \notin gone
    <3> TAKE i \in 1..(n - drop)
    <3> SUFFICES ASSUME NEW j \in 1..drop, rest[i] = listed[j] PROVE FALSE
      OBVIOUS
    <3>1. i + drop \in 1..n /\ listed[i + drop] = listed[j] /\ j \in 1..n
      BY SMTT(30), <1>0, <1>3, <1>4
    <3>2. i + drop = j
      BY <1>0, <3>1 DEF ListedIn, n
    <3> QED BY <1>0, <1>3, <3>2
  <2>2. \A i \in 1..(n - drop) : rest[i] \in 1..m /\ sigs[rest[i]].status = "OPEN"
    <3> TAKE i \in 1..(n - drop)
    <3>1. i + drop \in 1..n /\ rest[i] = listed[i + drop]
      BY <1>4
    <3>2. rest[i] \in 1..m /\ at.signals[rest[i]].status = "OPEN"
      BY <1>0, <3>1 DEF ListedIn, n
    <3> QED BY <1>5, <2>1, <3>2
  <2>3. \A i, j \in 1..(n - drop) : rest[i] = rest[j] => i = j
    <3> SUFFICES ASSUME NEW i \in 1..(n - drop), NEW j \in 1..(n - drop), rest[i] = rest[j]
                 PROVE  i = j
      OBVIOUS
    <3>1. i + drop = j + drop
      <4>1. i + drop \in 1..n /\ j + drop \in 1..n /\ listed[i + drop] = listed[j + drop]
        BY <1>4
      <4> QED BY <1>0, <4>1 DEF ListedIn, n
    <3>2. i \in Int /\ j \in Int
      BY <1>0, <1>3
    <3> QED BY <1>3, <3>1, <3>2
  <2>4. n - drop <= MaxOpen
    BY <1>0, <1>3
  <2> QED BY <1>4, <1>5, <2>2, <2>3, <2>4 DEF ListedIn
<1>8. \A u \in BookVenues : u # v => ListedIn(contexts[u].listed, sigs) /\ Apart(contexts[u].listed, rest)
  <2> SUFFICES ASSUME NEW u \in BookVenues, u # v
               PROVE  ListedIn(contexts[u].listed, sigs) /\ Apart(contexts[u].listed, rest)
    OBVIOUS
  <2> DEFINE other == contexts[u].listed
  <2>1. ListedIn(other, at.signals) /\ Apart(other, listed)
    BY <1>0
  <2> HIDE DEF other
  <2>2. Apart(other, rest)
    BY <1>4, <2>1 DEF Apart, n
  <2>3. \A i \in 1..Len(other) : other[i] \notin gone
    <3>1. \A j \in 1..drop : j \in 1..n
      BY <1>0, <1>3
    <3> QED BY <2>1, <3>1 DEF Apart, n
  <2>4. ListedIn(other, sigs)
    BY <1>5, <2>1, <2>3 DEF ListedIn
  <2> QED BY <2>2, <2>4 DEF other
<1>9. TickInv(after, v)
  BY <1>2, <1>6, <1>7, <1>8 DEF TickInv
<1> QED BY <1>2, <1>3, <1>4, <1>9 DEF after

\* An exit: the position is written off and its signals are forgotten.
LEMMA ExitedKeeps ==
  ASSUME NEW v \in BookVenues, NEW at, TickInv(at, v), NEW by \in Range(Strategies),
         NEW d, Allowed(d, at.ctx.net)
  PROVE  TickInv(Exited(at, by, d), v)
<1> DEFINE qty == Larger(1, Smaller(d.qty, MaxOrderQty))
           sig == [by |-> by, side |-> d.side, qty |-> qty, status |-> "OPEN"]
           sigs == Append(at.signals, sig)
           after == Exited(at, by, d)
<1>0. at \in Ticks /\ at.venue = v
  BY DEF TickInv
<1>1. after = [[at EXCEPT !.signals = sigs, !.ctx.hot = TRUE]
                 EXCEPT !.exited = @ + at.ctx.net, !.ctx.net = 0, !.ctx.listed = <<>>]
  BY DEF Exited, Recorded
<1>2. sig \in Signal
  <2>1. d.qty \in Nat /\ MaxOrderQty \in Nat /\ d.side \in {-1, 1}
    BY StrategyAssumption DEF Allowed, ValidStrategyConfig
  <2>2. qty \in Nat
    BY <2>1 DEF Larger, Smaller
  <2> HIDE DEF qty
  <2> QED BY <2>1, <2>2 DEF Signal
<1> HIDE DEF sig
<1>3. sigs \in Seq(Signal)
  BY <1>0, <1>2, TickFields, AppendProperties
<1> HIDE DEF sigs, after
<1>4. after = [venue |-> at.venue, signals |-> sigs, intents |-> at.intents, pending |-> at.pending,
               exited |-> at.exited + at.ctx.net,
               ctx |-> [window |-> at.ctx.window, net |-> 0, listed |-> <<>>, hot |-> TRUE]]
  BY <1>0, <1>1 DEF Ticks, Contexts
<1>5. after \in Ticks
  BY <1>0, <1>3, <1>4, TickFields, EmptySeq DEF Ticks, Contexts
<1>6. Lots(after.ctx.net) <= Limit
  BY <1>4, LimitIsLargest DEF Lots
<1>7. ListedIn(after.ctx.listed, after.signals)
  <2>1. after.ctx.listed = <<>> /\ after.signals = sigs
    BY <1>4
  <2> QED BY <2>1, NoneListed
<1>8. ASSUME NEW u \in BookVenues, u # v
      PROVE  ListedIn(contexts[u].listed, sigs) /\ Apart(contexts[u].listed, <<>>)
  <2>1. ListedIn(contexts[u].listed, sigs)
    BY <1>0, <1>2, <1>8, ListedStays, TickFields DEF TickInv, sigs
  <2>2. Apart(contexts[u].listed, <<>>)
    BY EmptySeq DEF Apart
  <2> QED BY <2>1, <2>2
<1>9. after.ctx.net + after.exited = contexts[v].net + InFlight(after.pending, v)
  <2>1. at.ctx.net + at.exited = contexts[v].net + InFlight(at.pending, v)
    BY DEF TickInv
  <2>2. at.ctx.net \in Int /\ at.exited \in Int
    BY <1>0, TickFields
  <2> QED BY <1>4, <2>1, <2>2
<1> QED BY <1>0, <1>4, <1>5, <1>6, <1>7, <1>8, <1>9 DEF TickInv, after

NewSignal(by, side, qty) == [by |-> by, side |-> side, qty |-> qty, status |-> "OPEN"]

\* What _record_signal leaves of a tick.
IsRecorded(done, at, sig) ==
  /\ sig \in Signal /\ done \in Ticks
  /\ done.venue = at.venue /\ done.signals = Append(at.signals, sig)
  /\ done.intents = at.intents /\ done.pending = at.pending /\ done.exited = at.exited
  /\ done.ctx.net = at.ctx.net /\ done.ctx.listed = at.ctx.listed /\ done.ctx.hot = TRUE

LEMMA RecordedIs ==
  ASSUME NEW at \in Ticks, NEW by \in Range(Strategies), NEW side \in {-1, 1}, NEW qty \in Nat
  PROVE  IsRecorded(Recorded(at, by, side, qty), at, NewSignal(by, side, qty))
<1> DEFINE sig == NewSignal(by, side, qty)
           sigs == Append(at.signals, sig)
           ctx == [at.ctx EXCEPT !.hot = TRUE]
           done == Recorded(at, by, side, qty)
<1>0. sig \in Signal
  BY DEF Signal, NewSignal
<1>1. sigs \in Seq(Signal)
  BY <1>0, TickFields, AppendProperties
<1>2. ctx \in Contexts /\ ctx.net = at.ctx.net /\ ctx.listed = at.ctx.listed /\ ctx.hot
  BY TickFields DEF Contexts
<1>3. done = [[at EXCEPT !.signals = sigs] EXCEPT !.ctx = ctx]
  BY DEF Ticks, Recorded, NewSignal
<1> HIDE DEF sigs, ctx, done
<1>4. /\ done \in Ticks /\ done.ctx = ctx /\ done.signals = sigs
      /\ done.venue = at.venue /\ done.intents = at.intents /\ done.pending = at.pending
      /\ done.exited = at.exited
  BY <1>1, <1>2, <1>3 DEF Ticks
<1> QED BY <1>0, <1>2, <1>4 DEF sigs, done, sig, IsRecorded

NewIntent(at, lots) == [id |-> LastId(at.intents) + 1, signal |-> Len(at.signals),
                        venue |-> at.venue, lots |-> lots, acknowledged |-> FALSE]

LEMMA BuiltIs ==
  ASSUME NEW at \in Ticks, NEW lots \in Int, Len(at.signals) # 0, at.pending = <<>>,
         NewestIntents(Append(at.intents, NewIntent(at, lots))) \in Seq(Intent)
  PROVE  LET built == Built(at, lots)
             intent == NewIntent(at, lots) IN
         /\ intent \in Intent /\ built \in Ticks
         /\ built.venue = at.venue /\ built.signals = at.signals /\ built.ctx = at.ctx
         /\ built.intents = NewestIntents(Append(at.intents, intent))
         /\ built.pending = <<intent>> /\ built.exited = at.exited
<1> DEFINE intent == NewIntent(at, lots)
           kept == NewestIntents(Append(at.intents, intent))
           left == <<intent>>
           built == Built(at, lots)
<1>1. intent \in Intent
  <2>1. /\ LastId(at.intents) + 1 \in Nat \ {0} /\ Len(at.signals) \in Nat \ {0}
        /\ at.venue \in BookVenues
    BY KeptIntents, TickFields
  <2> QED BY <2>1 DEF Intent, NewIntent
<1>2. built = [at EXCEPT !.intents = kept, !.pending = Append(@, intent)]
  <2>1. (IF at.intents = <<>> THEN 1 ELSE Last(at.intents).id + 1) = LastId(at.intents) + 1
    BY DEF LastId, Last
  <2> QED BY <2>1 DEF Built, NewestIntents, NewIntent
<1> HIDE DEF intent, kept
<1>3. Append(<<>>, intent) = left /\ left \in Seq(Intent)
  BY <1>1
<1> HIDE DEF left, built
<1>4. built = [at EXCEPT !.intents = kept, !.pending = left]
  BY <1>2, <1>3
<1>5. kept \in Seq(Intent)
  BY DEF kept, intent
<1>6. /\ built \in Ticks /\ built.signals = at.signals /\ built.ctx = at.ctx
      /\ built.venue = at.venue /\ built.intents = kept /\ built.pending = left
      /\ built.exited = at.exited
  BY <1>3, <1>4, <1>5 DEF Ticks
<1> QED BY <1>1, <1>6 DEF intent, kept, left, built

\* The position moves and the newest signal is listed.
Moved(at, lots) ==
  [at EXCEPT !.ctx.net = @ + lots, !.ctx.listed = Append(@, Len(at.signals))]

LEMMA MovedIs ==
  ASSUME NEW at \in Ticks, NEW lots \in Int
  PROVE  LET after == Moved(at, lots) IN
         /\ after \in Ticks
         /\ after.venue = at.venue /\ after.signals = at.signals
         /\ after.intents = at.intents /\ after.pending = at.pending /\ after.exited = at.exited
         /\ after.ctx.net = at.ctx.net + lots /\ after.ctx.hot = at.ctx.hot
         /\ after.ctx.listed = Append(at.ctx.listed, Len(at.signals))
<1> DEFINE listed == Append(at.ctx.listed, Len(at.signals))
           net == at.ctx.net + lots
           ctx == [at.ctx EXCEPT !.net = net, !.listed = listed]
           after == Moved(at, lots)
<1>1. listed \in Seq(Nat) /\ net \in Int
  BY TickFields, AppendProperties
<1>2. after = [at EXCEPT !.ctx = ctx]
  BY DEF Ticks, Contexts, Moved
<1> HIDE DEF listed, net, after
<1>3. ctx \in Contexts /\ ctx.net = net /\ ctx.listed = listed /\ ctx.hot = at.ctx.hot
  BY <1>1, TickFields DEF Contexts
<1> HIDE DEF ctx
<1>4. /\ after \in Ticks /\ after.ctx = ctx /\ after.signals = at.signals
      /\ after.venue = at.venue /\ after.intents = at.intents
      /\ after.pending = at.pending /\ after.exited = at.exited
  BY <1>2, <1>3 DEF Ticks
<1> QED BY <1>3, <1>4 DEF listed, net, after

\* An entry: a signal is listed, the position moves and the intent is built.
LEMMA EnteredKeeps ==
  ASSUME NEW v \in BookVenues, NEW at, TickInv(at, v), NEW by \in Range(Strategies),
         NEW d, Allowed(d, at.ctx.net), d.action = "ENTER", ~at.ctx.hot,
         Len(at.ctx.listed) < MaxOpen
  PROVE  TickInv(Entered(at, by, d), v)
<1> DEFINE lots == d.side * OrderQty(d)
           sig == NewSignal(by, d.side, OrderQty(d))
           sigs == Append(at.signals, sig)
           recorded == Recorded(at, by, d.side, OrderQty(d))
           built == Built(recorded, lots)
           m == Len(at.signals)
           intent == NewIntent(recorded, lots)
           kept == NewestIntents(Append(at.intents, intent))
           after == Entered(at, by, d)
           listed == Append(at.ctx.listed, m + 1)
           n == Len(at.ctx.listed)
<1>0. at \in Ticks /\ at.venue = v /\ at.pending = <<>>
  BY DEF TickInv
<1>1. /\ at.signals \in Seq(Signal) /\ at.intents \in Seq(Intent) /\ m \in Nat /\ n \in Nat
      /\ at.ctx.listed \in Seq(Nat) /\ at.ctx.net \in Int /\ at.exited \in Int
  BY <1>0, TickFields
<1>2. /\ OrderQty(d) \in Nat /\ OrderQty(d) >= 1 /\ OrderQty(d) <= d.qty /\ d.side \in {-1, 1}
      /\ Lots(at.ctx.net) + d.qty <= Limit /\ d.qty \in Nat /\ lots \in Int
  BY OrderQtyIs DEF Allowed
<1>3. IsRecorded(recorded, at, sig) /\ sig.status = "OPEN"
  BY <1>0, <1>2, RecordedIs DEF NewSignal
<1> HIDE DEF sig
<1>4. /\ sig \in Signal /\ sigs \in Seq(Signal) /\ Len(sigs) = m + 1 /\ sigs[m + 1] = sig
      /\ \A i \in 1..m : sigs[i] = at.signals[i]
  <2>1. sig \in Signal
    BY <1>3 DEF IsRecorded
  <2> QED BY <1>1, <2>1, AppendProperties
<1> HIDE DEF recorded
<1>7. /\ recorded \in Ticks /\ recorded.venue = v /\ recorded.signals = sigs
      /\ recorded.intents = at.intents /\ recorded.pending = <<>>
      /\ recorded.exited = at.exited /\ recorded.ctx.net = at.ctx.net
      /\ recorded.ctx.listed = at.ctx.listed /\ recorded.ctx.hot = TRUE
  BY <1>0, <1>3 DEF IsRecorded
<1>9. after = Moved(built, lots)
  BY DEF Entered, Moved, recorded
<1> HIDE DEF sigs, recorded, lots, m, n, after, built
<1>6. /\ intent \in Intent /\ intent.id = LastId(at.intents) + 1 /\ ~intent.acknowledged
      /\ intent.venue = v /\ intent.lots = lots
  <2>1. Len(recorded.signals) \in Nat \ {0} /\ LastId(at.intents) + 1 \in Nat \ {0}
    BY <1>1, <1>4, <1>7, KeptIntents
  <2> QED BY <1>2, <1>7, <2>1 DEF Intent, NewIntent
<1> HIDE DEF intent
<1>12. kept \in Seq(Intent) /\ IntentsAgree(kept, <<intent>>, losses)
  <2>1. IntentsAgree(at.intents, <<>>, losses) /\ losses \in Nat
    BY <1>0 DEF TickInv
  <2> QED BY <1>1, <1>6, <2>1, BuiltAgrees
<1>8. /\ built \in Ticks /\ built.venue = v /\ built.signals = sigs /\ built.ctx = recorded.ctx
      /\ built.intents = kept /\ built.pending = <<intent>> /\ built.exited = at.exited
  <2>1. Len(recorded.signals) # 0
    BY <1>1, <1>4, <1>7
  <2> QED BY <1>2, <1>7, <1>12, <2>1, BuiltIs DEF intent, built
<1> HIDE DEF kept, listed
<1>13. listed \in Seq(Nat) /\ Len(listed) = n + 1 /\ listed[n + 1] = m + 1
       /\ \A i \in 1..n : listed[i] = at.ctx.listed[i]
  BY <1>1, AppendProperties DEF listed, n
<1>11. /\ after \in Ticks /\ after.venue = v /\ after.signals = sigs
       /\ after.intents = kept /\ after.pending = <<intent>> /\ after.exited = at.exited
       /\ after.ctx.net = at.ctx.net + lots /\ after.ctx.listed = listed /\ after.ctx.hot
  <2>1. /\ after \in Ticks
        /\ after.venue = built.venue /\ after.signals = built.signals
        /\ after.intents = built.intents /\ after.pending = built.pending
        /\ after.exited = built.exited
        /\ after.ctx.net = built.ctx.net + lots /\ after.ctx.hot = built.ctx.hot
        /\ after.ctx.listed = Append(built.ctx.listed, Len(built.signals))
    BY <1>2, <1>8, <1>9, MovedIs
  <2> QED BY <1>4, <1>7, <1>8, <2>1 DEF listed
<1>15. after \in Ticks
  BY <1>11
<1>16. Lots(at.ctx.net + lots) <= Limit
  <2> DEFINE q == OrderQty(d)
             net == at.ctx.net
  <2>1. net \in Int /\ q \in Nat /\ q <= d.qty /\ d.qty \in Nat /\ Lots(net) + d.qty <= Limit
        /\ Limit \in Nat /\ lots = IF d.side = 1 THEN q ELSE -q
    BY <1>1, <1>2, LimitIsLargest DEF lots
  <2> HIDE DEF q, net
  <2>2. Lots(net + lots) <= Limit
    BY <2>1 DEF Lots
  <2> QED BY <2>2 DEF net
<1>17. ListedIn(listed, sigs)
  <2>0. ListedIn(at.ctx.listed, at.signals) /\ n + 1 <= MaxOpen
    <3>1. ListedIn(at.ctx.listed, at.signals) /\ n < MaxOpen
      BY DEF TickInv, n
    <3>2. MaxOpen \in Nat
      BY StrategyAssumption DEF ValidStrategyConfig
    <3> QED BY <1>1, <3>1, <3>2
  <2>1. ASSUME NEW i \in 1..(n + 1)
        PROVE  listed[i] \in 1..(m + 1) /\ sigs[listed[i]].status = "OPEN" /\ (listed[i] = m + 1 => i = n + 1)
    <3>1. CASE i = n + 1
      BY <1>1, <1>3, <1>4, <1>13, <3>1
    <3>2. CASE i # n + 1
      <4>1. i \in 1..n /\ listed[i] = at.ctx.listed[i]
        BY SMTT(30), <1>1, <1>13, <3>2
      <4>2. listed[i] \in 1..m /\ at.signals[listed[i]].status = "OPEN"
        BY <2>0, <4>1 DEF ListedIn, n, m
      <4> QED BY <1>1, <1>4, <4>2
    <3> QED BY <3>1, <3>2
  <2>2. ASSUME NEW i \in 1..(n + 1), NEW j \in 1..(n + 1), listed[i] = listed[j]
        PROVE  i = j
    <3>1. CASE i = n + 1 \/ j = n + 1
      BY <1>13, <2>1, <2>2, <3>1
    <3>2. CASE i # n + 1 /\ j # n + 1
      <4>1. i \in 1..n /\ j \in 1..n /\ at.ctx.listed[i] = at.ctx.listed[j]
        BY <1>1, <1>13, <2>2, <3>2
      <4> QED BY <2>0, <4>1 DEF ListedIn, n
    <3> QED BY <3>1, <3>2
  <2> QED BY <1>4, <1>13, <2>0, <2>1, <2>2 DEF ListedIn
<1>18. ASSUME NEW u \in BookVenues, u # v
       PROVE  ListedIn(contexts[u].listed, sigs) /\ Apart(contexts[u].listed, listed)
  <2> DEFINE other == contexts[u].listed
  <2>1. ListedIn(other, at.signals) /\ Apart(other, at.ctx.listed)
    BY <1>18 DEF TickInv
  <2> HIDE DEF other
  <2>2. ListedIn(other, sigs)
    BY <1>1, <1>4, <2>1, ListedStays DEF sigs
  <2>3. ASSUME NEW i \in 1..Len(other), NEW j \in 1..(n + 1) PROVE other[i] # listed[j]
    <3>1. other[i] \in 1..m
      BY <2>1 DEF ListedIn, m
    <3>2. CASE j = n + 1
      BY <1>1, <1>13, <3>1, <3>2
    <3>3. CASE j # n + 1
      <4>1. j \in 1..n /\ listed[j] = at.ctx.listed[j]
        BY SMTT(30), <1>1, <1>13, <3>3
      <4> QED BY <2>1, <4>1 DEF Apart, n
    <3> QED BY <3>2, <3>3
  <2> QED BY <1>13, <2>2, <2>3 DEF Apart, other
<1>19. (at.ctx.net + lots) + at.exited = contexts[v].net + InFlight(<<intent>>, v)
  <2>1. at.ctx.net + at.exited = contexts[v].net + 0
    BY <1>0 DEF TickInv, InFlight
  <2>2. InFlight(<<intent>>, v) = lots
    BY <1>6 DEF InFlight
  <2>3. contexts[v].net \in Int
    BY DEF TickInv
  <2> DEFINE net == at.ctx.net
             exited == at.exited
             was == contexts[v].net
  <2>4. net + exited = was + 0 /\ net \in Int /\ exited \in Int /\ was \in Int /\ lots \in Int
    BY <1>1, <1>2, <2>1, <2>3
  <2> HIDE DEF net, exited, was
  <2>5. (net + lots) + exited = was + lots
    BY <2>4
  <2> QED BY <2>2, <2>5 DEF net, exited, was
<1> QED BY <1>11, <1>12, <1>15, <1>16, <1>17, <1>18, <1>19, <1>6 DEF TickInv, after

Views == [bid : Nat, ask : Nat, mid : Nat, spread : Nat]

\* _apply_decision.
LEMMA AppliedKeeps ==
  ASSUME NEW v \in BookVenues, NEW at, TickInv(at, v), NEW by \in Range(Strategies),
         NEW d, Allowed(d, at.ctx.net)
  PROVE  TickInv(Applied(at, by, d), v)
<1>1. CASE at.ctx.hot
  BY <1>1 DEF Applied
<1>2. CASE ~at.ctx.hot /\ d.action = "EXIT"
  BY <1>2, ExitedKeeps DEF Applied
<1>3. CASE ~at.ctx.hot /\ d.action # "EXIT"
  <2>1. PICK capped : capped = Capped(at)
    OBVIOUS
  <2>2. /\ TickInv(capped, v) /\ Len(capped.ctx.listed) < MaxOpen
        /\ capped.ctx.hot = at.ctx.hot /\ capped.ctx.net = at.ctx.net
    BY <2>1, CappedKeeps
  <2>3. Allowed(d, capped.ctx.net) /\ d.action = "ENTER" /\ ~capped.ctx.hot
    BY <1>3, <2>2 DEF Allowed
  <2>4. TickInv(Entered(capped, by, d), v)
    BY <2>2, <2>3, EnteredKeeps
  <2> QED BY <1>3, <2>1, <2>2, <2>4 DEF Applied
<1> QED BY <1>1, <1>2, <1>3

\* The turn of one strategy.
LEMMA RanKeeps ==
  ASSUME NEW v \in BookVenues, NEW at, TickInv(at, v), NEW by \in Range(Strategies),
         NEW view \in Views
  PROVE  TickInv(Ran(at, by, view), v)
<1> DEFINE ds == Decisions(by, at.ctx, view)
<1>1. at.ctx \in Contexts
  BY TickFields DEF TickInv
<1>2. \A d \in ds : Allowed(d, at.ctx.net)
  BY <1>1, MomentumAllowed, MeanReversionAllowed, SpreadArbAllowed DEF Decisions, Views
<1>3. CASE by \in paused \/ ds = {}
  BY <1>3 DEF Ran
<1>4. CASE by \notin paused /\ ds # {}
  <2>1. PICK d : d = CHOOSE x \in ds : TRUE
    OBVIOUS
  <2>2. d \in ds /\ Ran(at, by, view) = Applied(at, by, d)
    BY <1>4, <2>1 DEF Ran
  <2> QED BY <1>2, <2>2, AppliedKeeps
<1> QED BY <1>3, <1>4

\* The three strategies, one after the other.
LEMMA EvaluatedKeeps ==
  ASSUME StrategyInv, pending = <<>>, NEW v \in BookVenues, NEW ctx \in Contexts,
         ctx.net = contexts[v].net, ctx.listed = contexts[v].listed, NEW view \in Views
  PROVE  TickInv(Evaluated(v, ctx, view), v)
<1>1. PICK start : start = [venue |-> v, ctx |-> ctx, signals |-> signals, intents |-> intents,
                            pending |-> <<>>, exited |-> 0]
  OBVIOUS
<1>2. TickInv(start, v)
  <2>1. start \in Ticks /\ start.venue = v /\ losses \in Nat /\ contexts[v].net \in Int
    BY <1>1, EmptySeq DEF StrategyInv, StrategyType, Ticks, Contexts
  <2>2. /\ start.ctx = ctx /\ start.signals = signals /\ start.intents = intents
        /\ start.pending = <<>> /\ start.exited = 0
    BY <1>1
  <2>3. Lots(start.ctx.net) <= Limit /\ ListedIn(start.ctx.listed, start.signals)
    BY <2>2 DEF StrategyInv, ContextsAreSound
  <2>4. \A u \in BookVenues : u # v => /\ ListedIn(contexts[u].listed, start.signals)
                                      /\ Apart(contexts[u].listed, start.ctx.listed)
    BY <2>2 DEF StrategyInv, ContextsAreSound
  <2>5. IntentsAgree(start.intents, start.pending, losses)
    BY <2>2 DEF StrategyInv
  <2>6. start.ctx.net + start.exited = contexts[v].net + InFlight(start.pending, v)
    BY <2>1, <2>2 DEF InFlight
  <2> QED BY <2>1, <2>2, <2>3, <2>4, <2>5, <2>6 DEF TickInv
<1>3. \A i \in 1..3 : Strategies[i] \in Range(Strategies)
  BY DEF Strategies, Range
<1>4. PICK one : one = Ran(start, Strategies[1], view)
  OBVIOUS
<1>5. PICK two : two = Ran(one, Strategies[2], view)
  OBVIOUS
<1>6. TickInv(one, v)
  BY <1>2, <1>3, <1>4, RanKeeps
<1>7. TickInv(two, v)
  BY <1>3, <1>5, <1>6, RanKeeps
<1>8. TickInv(Ran(two, Strategies[3], view), v)
  BY <1>3, <1>7, RanKeeps
<1> QED BY <1>1, <1>4, <1>5, <1>8 DEF Evaluated

\* RollingWindow.push.
LEMMA PushedIs ==
  ASSUME NEW ctx \in Contexts, NEW px \in Nat
  PROVE  /\ Pushed(ctx, px) \in Contexts /\ Pushed(ctx, px).net = ctx.net
         /\ Pushed(ctx, px).listed = ctx.listed
<1> DEFINE w == ctx.window
           after == IF Len(w) < Larger(MomWindow, MrWindow) THEN Append(w, px) ELSE Append(Tail(w), px)
<1>1. w \in Seq(Nat)
  BY DEF Contexts
<1>2. Larger(MomWindow, MrWindow) \in Nat /\ Larger(MomWindow, MrWindow) >= 1
  BY StrategyAssumption DEF ValidStrategyConfig, Larger
<1>3. after \in Seq(Nat)
  <2>1. CASE Len(w) < Larger(MomWindow, MrWindow)
    BY <1>1, <2>1, AppendProperties
  <2>2. CASE ~(Len(w) < Larger(MomWindow, MrWindow))
    <3>1. w # <<>>
      BY <1>1, <1>2, <2>2, EmptySeq
    <3>2. Tail(w) \in Seq(Nat)
      BY <1>1, <3>1, HeadTailProperties
    <3> QED BY <2>2, <3>2, AppendProperties
  <2> QED BY <2>1, <2>2
<1>4. Pushed(ctx, px) = [ctx EXCEPT !.window = after]
  BY DEF Pushed
<1> HIDE DEF after
<1> QED BY <1>3, <1>4 DEF Contexts

---------------------------------------------------------------------------
(* The actions. *)

LEMMA InitStrategy == StrategyInit => StrategyInv
<1> SUFFICES ASSUME StrategyInit PROVE StrategyInv
  OBVIOUS
<1>1. /\ contexts = [v \in BookVenues |-> NewContext] /\ signals = <<>> /\ intents = <<>>
      /\ pending = <<>> /\ losses = 0 /\ orders = [v \in BookVenues |-> 0]
      /\ lost = orders /\ flattened = orders
  BY DEF StrategyInit
<1>2. /\ NewContext \in Contexts /\ NewContext.net = 0 /\ NewContext.listed = <<>>
  BY EmptySeq DEF NewContext, Contexts
<1>3. StrategyType
  BY <1>1, <1>2, EmptySeq DEF StrategyType
<1>4. \A v \in BookVenues : contexts[v].net = 0 /\ contexts[v].listed = <<>>
  BY <1>1, <1>2
<1>5. Lots(0) <= Limit /\ ListedIn(<<>>, signals) /\ Apart(<<>>, <<>>)
  BY LimitIsLargest, NoneListed, EmptySeq DEF Lots, Apart
<1>6. ContextsAreSound
  BY <1>4, <1>5 DEF ContextsAreSound
<1>7. IntentsAgree(intents, pending, losses)
  <2>1. Unanswered(<<>>) = {} /\ Cardinality({}) = 0 /\ LastId(<<>>) = 0 /\ Len(<<>>) = 0
    BY EmptySeq, FS_EmptySet DEF Unanswered, LastId
  <2>2. MaxIntents \in Nat
    BY StrategyAssumption DEF ValidStrategyConfig
  <2> QED BY <1>1, <2>1, <2>2 DEF IntentsAgree
<1>8. \A v \in BookVenues :
        contexts[v].net + flattened[v] = orders[v] + InFlight(pending, v) + lost[v]
  BY <1>1, <1>4 DEF InFlight
<1> QED BY <1>3, <1>6, <1>7, <1>8 DEF StrategyInv

LEMMA TickKeeps ==
  ASSUME StrategyInv, NEW v \in BookVenues, NEW view \in Views, Tick(v, view)
  PROVE  StrategyInv'
<1>1. PICK ctx : ctx = Pushed(contexts[v], view.mid)
  OBVIOUS
<1>2. contexts \in [BookVenues -> Contexts] /\ contexts[v] \in Contexts /\ view.mid \in Nat
  BY DEF StrategyInv, StrategyType, Views
<1>3. ctx \in Contexts /\ ctx.net = contexts[v].net /\ ctx.listed = contexts[v].listed
  BY <1>1, <1>2, PushedIs
<1>4. PICK at : at = Evaluated(v, ctx, view)
  OBVIOUS
<1>5. pending = <<>>
  BY DEF Tick
<1>6. TickInv(at, v)
  BY <1>3, <1>4, <1>5, EvaluatedKeeps
<1>7. /\ contexts' = [contexts EXCEPT ![v] = at.ctx] /\ signals' = at.signals
      /\ intents' = at.intents /\ pending' = at.pending
      /\ flattened' = [flattened EXCEPT ![v] = @ + at.exited]
      /\ paused' = paused /\ orders' = orders /\ losses' = losses /\ lost' = lost
  BY <1>1, <1>4 DEF Tick
<1>8. /\ at.ctx \in Contexts /\ at.signals \in Seq(Signal) /\ at.intents \in Seq(Intent)
      /\ at.pending \in Seq(Intent) /\ at.exited \in Int /\ at.ctx.net \in Int
  BY <1>6, TickFields DEF TickInv
<1>9. StrategyType'
  <2>1. contexts' \in [BookVenues -> Contexts] /\ signals' \in Seq(Signal)
    BY <1>2, <1>7, <1>8
  <2>2. intents' \in Seq(Intent) /\ pending' \in Seq(Intent)
    BY <1>7, <1>8
  <2>3. flattened' \in [BookVenues -> Int]
    <3>1. flattened \in [BookVenues -> Int]
      BY DEF StrategyInv, StrategyType
    <3> QED BY <1>7, <1>8, <3>1
  <2>4. losses' \in Nat /\ orders' \in [BookVenues -> Int] /\ lost' \in [BookVenues -> Int]
    BY <1>7 DEF StrategyInv, StrategyType
  <2> QED BY <2>1, <2>2, <2>3, <2>4 DEF StrategyType
<1>10. ContextsAreSound'
  <2>1. \A u \in BookVenues : contexts'[u] = IF u = v THEN at.ctx ELSE contexts[u]
    BY <1>2, <1>7
  <2>2. ASSUME NEW u \in BookVenues
        PROVE  Lots(contexts'[u].net) <= Limit /\ ListedIn(contexts'[u].listed, signals')
    BY <1>6, <1>7, <2>1 DEF TickInv, StrategyInv, ContextsAreSound
  <2>3. ASSUME NEW u \in BookVenues, NEW w \in BookVenues, u # w
        PROVE  Apart(contexts'[u].listed, contexts'[w].listed)
    <3>1. CASE u = v
      <4>1. Apart(contexts[w].listed, at.ctx.listed)
        BY <1>6, <2>3, <3>1 DEF TickInv
      <4> QED BY <2>1, <2>3, <3>1, <4>1 DEF Apart
    <3>2. CASE w = v
      BY <1>6, <2>1, <2>3, <3>2 DEF TickInv
    <3>3. CASE u # v /\ w # v
      BY <2>1, <2>3, <3>3 DEF StrategyInv, ContextsAreSound
    <3> QED BY <3>1, <3>2, <3>3
  <2> QED BY <2>2, <2>3 DEF ContextsAreSound
<1>11. IntentsAgree(intents', pending', losses')
  BY <1>6, <1>7 DEF TickInv
<1>12. ASSUME NEW u \in BookVenues
       PROVE  contexts'[u].net + flattened'[u] = orders'[u] + InFlight(pending', u) + lost'[u]
  <2>1. /\ contexts[u].net + flattened[u] = orders[u] + 0 + lost[u]
        /\ contexts[u].net \in Int /\ flattened[u] \in Int /\ orders[u] \in Int /\ lost[u] \in Int
        /\ flattened \in [BookVenues -> Int]
    <3>1. contexts[u] \in Contexts
      BY DEF StrategyInv, StrategyType
    <3> QED BY <1>5, <3>1 DEF StrategyInv, StrategyType, InFlight, Contexts
  <2>2. CASE u = v
    <3>1. contexts'[u].net = at.ctx.net /\ flattened'[u] = flattened[u] + at.exited
      BY <1>2, <1>7, <2>1, <2>2
    <3>2. at.ctx.net + at.exited = contexts[u].net + InFlight(at.pending, u)
      BY <1>6, <2>2 DEF TickInv
    <3>3. InFlight(at.pending, u) \in Int
      <4>1. at.pending # <<>> => at.pending[1] \in Intent
        BY <1>8, EmptySeq, ElementOfSeq, LenProperties
      <4> QED BY <4>1 DEF InFlight, Intent
    <3>4. at.ctx.net + (flattened[u] + at.exited) = orders[u] + InFlight(at.pending, u) + lost[u]
      <4> DEFINE net == contexts[u].net
                 written == flattened[u]
                 sent == orders[u]
                 failed == lost[u]
                 after == at.ctx.net
                 exited == at.exited
                 way == InFlight(at.pending, u)
      <4>1. /\ net + written = sent + 0 + failed /\ after + exited = net + way
            /\ net \in Int /\ written \in Int /\ sent \in Int /\ failed \in Int
            /\ after \in Int /\ exited \in Int /\ way \in Int
        BY <1>8, <2>1, <3>2, <3>3
      <4> HIDE DEF net, written, sent, failed, after, exited, way
      <4>2. after + (written + exited) = sent + way + failed
        BY <4>1
      <4> QED BY <4>2 DEF net, written, sent, failed, after, exited, way
    <3> QED BY <1>7, <3>1, <3>4
  <2>3. CASE u # v
    <3>1. contexts'[u].net = contexts[u].net /\ flattened'[u] = flattened[u]
      BY <1>2, <1>7, <2>1, <2>3
    <3>2. InFlight(at.pending, u) = 0
      BY <1>6, <2>3 DEF TickInv, InFlight
    <3> QED BY <1>7, <2>1, <3>1, <3>2
  <2> QED BY <2>2, <2>3
<1> QED BY <1>9, <1>10, <1>11, <1>12 DEF StrategyInv

\* The one intent on its way.
LEMMA OneInFlight ==
  ASSUME StrategyInv, pending # <<>>
  PROVE  /\ Len(pending) = 1 /\ Head(pending) = pending[1] /\ Tail(pending) = <<>>
         /\ pending[1] \in Intent
<1>1. pending \in Seq(Intent) /\ Len(pending) <= 1
  BY DEF StrategyInv, StrategyType, IntentsAgree
<1>2. Len(pending) \in Nat /\ Len(pending) # 0
  BY <1>1, EmptySeq, LenProperties
<1>3. Len(pending) = 1
  BY <1>1, <1>2
<1>4. Tail(pending) \in Seq(Intent) /\ Len(Tail(pending)) = Len(pending) - 1
  BY <1>1, HeadTailProperties
<1>5. Tail(pending) = <<>>
  <2>1. PICK rest : rest = Tail(pending)
    OBVIOUS
  <2>2. rest \in Seq(Intent) /\ Len(rest) = 0
    BY <1>1, <1>3, <1>4, <2>1
  <2> QED BY <2>1, <2>2, EmptySeq
<1>6. pending[1] \in Intent
  BY <1>1, <1>3, ElementOfSeq
<1> QED BY <1>3, <1>5, <1>6

LEMMA PushIntentKeeps ==
  ASSUME StrategyInv, NEW push \in Pushes, PushIntent(push)
  PROVE  StrategyInv'
<1>1. PICK intent : intent = Head(pending)
  OBVIOUS
<1>2. /\ pending # <<>> /\ pending' = Tail(pending)
      /\ losses' = IF push.raises THEN losses + 1 ELSE losses
      /\ intents' = IF push.raises THEN intents ELSE Acknowledged(intent.id)
      /\ orders' = IF push.taken THEN [orders EXCEPT ![intent.venue] = @ + intent.lots] ELSE orders
      /\ lost' = IF ~push.taken THEN [lost EXCEPT ![intent.venue] = @ + intent.lots] ELSE lost
      /\ contexts' = contexts /\ signals' = signals /\ paused' = paused /\ flattened' = flattened
  BY <1>1 DEF PushIntent
<1>3. Len(pending) = 1 /\ intent = pending[1] /\ pending' = <<>> /\ intent \in Intent
  BY <1>1, <1>2, OneInFlight
<1>4. intent.venue \in BookVenues /\ intent.lots \in Int
  BY <1>3 DEF Intent
<1>5. /\ contexts \in [BookVenues -> Contexts] /\ signals \in Seq(Signal) /\ intents \in Seq(Intent)
      /\ losses \in Nat /\ orders \in [BookVenues -> Int] /\ lost \in [BookVenues -> Int]
      /\ flattened \in [BookVenues -> Int] /\ IntentsAgree(intents, pending, losses)
  BY DEF StrategyInv, StrategyType
<1>6. intents' \in Seq(Intent) /\ IntentsAgree(intents', pending', losses') /\ losses' \in Nat
  <2>1. CASE push.raises
    <3>1. PICK more : more = losses + 1
      OBVIOUS
    <3>2. IntentsAgree(intents, <<>>, more) /\ more \in Nat
      BY <1>3, <1>5, <3>1, RaisedAgrees
    <3>3. intents' = intents /\ pending' = <<>> /\ losses' = more
      BY <1>2, <1>3, <2>1, <3>1
    <3> QED BY <1>5, <3>2, <3>3
  <2>2. CASE ~push.raises
    <3>1. PICK kept : kept = intents
      OBVIOUS
    <3>2. PICK left : left = pending
      OBVIOUS
    <3>3. PICK after : after = [i \in DOMAIN kept |->
              IF kept[i].id = left[1].id THEN [kept[i] EXCEPT !.acknowledged = TRUE] ELSE kept[i]]
      OBVIOUS
    <3>4. kept \in Seq(Intent) /\ IntentsAgree(kept, left, losses) /\ Len(left) = 1 /\ left # <<>>
      BY <1>2, <1>3, <1>5, <3>1, <3>2
    <3>5. after \in Seq(Intent) /\ IntentsAgree(after, <<>>, losses)
      BY <1>5, <3>3, <3>4, AcknowledgedAgrees
    <3>6. intents' = after
      <4>1. intents' = Acknowledged(left[1].id)
        BY <1>2, <1>3, <2>2, <3>2
      <4> QED BY <3>1, <3>3, <4>1 DEF Acknowledged
    <3>7. losses' = losses /\ pending' = <<>>
      BY <1>2, <1>3, <2>2
    <3>8. intents' \in Seq(Intent)
      BY <3>5, <3>6
    <3>9. IntentsAgree(intents', pending', losses')
      BY <3>5, <3>6, <3>7
    <3> QED BY <1>5, <3>7, <3>8, <3>9
  <2> QED BY <2>1, <2>2
<1>7. orders' \in [BookVenues -> Int] /\ lost' \in [BookVenues -> Int]
  BY SMTT(30), <1>2, <1>4, <1>5
<1>8. StrategyType'
  BY <1>2, <1>3, <1>5, <1>6, <1>7, EmptySeq DEF StrategyType
<1>9. ContextsAreSound'
  BY <1>2 DEF StrategyInv, ContextsAreSound
<1>10. ASSUME NEW v \in BookVenues
       PROVE  contexts'[v].net + flattened'[v] = orders'[v] + InFlight(pending', v) + lost'[v]
  <2>1. /\ contexts[v].net + flattened[v] = orders[v] + InFlight(pending, v) + lost[v]
        /\ contexts'[v].net = contexts[v].net /\ flattened'[v] = flattened[v]
        /\ orders[v] \in Int /\ lost[v] \in Int
    BY <1>2, <1>5 DEF StrategyInv
  <2>2. InFlight(pending', v) = 0
    BY <1>3 DEF InFlight
  <2>3. InFlight(pending, v) = IF v = intent.venue THEN intent.lots ELSE 0
    BY <1>2, <1>3 DEF InFlight
  <2>4. orders'[v] + lost'[v] = orders[v] + lost[v] + InFlight(pending, v)
    <3>1. CASE push.taken
      BY <1>2, <1>4, <1>5, <2>1, <2>3, <3>1
    <3>2. CASE ~push.taken
      BY <1>2, <1>4, <1>5, <2>1, <2>3, <3>2
    <3> QED BY <3>1, <3>2
  <2>5. orders'[v] \in Int /\ lost'[v] \in Int /\ InFlight(pending, v) \in Int
    BY <1>4, <1>7, <2>3
  <2> QED BY <2>1, <2>2, <2>4, <2>5
<1> QED BY <1>6, <1>8, <1>9, <1>10 DEF StrategyInv

\* What leaves positions, signals and intents alone.
LEMMA CoolsKeeps ==
  ASSUME StrategyInv, NEW v \in BookVenues, Cools(v)
  PROVE  StrategyInv'
<1>1. /\ contexts' = [contexts EXCEPT ![v].hot = FALSE] /\ signals' = signals
      /\ intents' = intents /\ pending' = pending /\ orders' = orders /\ losses' = losses
      /\ lost' = lost /\ flattened' = flattened
  BY DEF Cools
<1>2. contexts \in [BookVenues -> Contexts]
  BY DEF StrategyInv, StrategyType
<1>3. ASSUME NEW u \in BookVenues
      PROVE  /\ contexts'[u] \in Contexts
             /\ contexts'[u].net = contexts[u].net /\ contexts'[u].listed = contexts[u].listed
  BY <1>1, <1>2 DEF Contexts
<1>4. contexts' \in [BookVenues -> Contexts]
  <2>1. contexts' = [u \in BookVenues |-> contexts'[u]]
    BY <1>1, <1>2
  <2> QED BY <1>3, <2>1
<1>5. StrategyType'
  BY <1>1, <1>4 DEF StrategyInv, StrategyType
<1>6. ContextsAreSound'
  BY <1>1, <1>3 DEF StrategyInv, ContextsAreSound
<1> QED BY <1>1, <1>3, <1>5, <1>6 DEF StrategyInv

LEMMA StrategyNextKeeps == StrategyInv /\ [StrategyNext]_strategyVars => StrategyInv'
<1> SUFFICES ASSUME StrategyInv, [StrategyNext]_strategyVars PROVE StrategyInv'
  OBVIOUS
<1> DEFINE Still == UNCHANGED <<contexts, signals, intents, pending, orders, losses, lost, flattened>>
<1>1. ASSUME NEW v \in BookVenues, Cools(v) PROVE StrategyInv'
  BY <1>1, CoolsKeeps
<1>2. ASSUME NEW v \in BookVenues, NEW tob \in Tobs, ApplyBookView(v, tob) PROVE StrategyInv'
  <2>1. FromTob(tob) \in Views
    BY StrategyAssumption DEF FromTob, Views, Tob
  <2> QED BY <1>2, <2>1, TickKeeps DEF ApplyBookView
<1>3. ASSUME NEW v \in BookVenues, NEW px \in QuotePrices, ApplyRawQuote(v, px) PROVE StrategyInv'
  <2>1. FromQuote(px) \in Views
    BY StrategyAssumption DEF FromQuote, Views
  <2> QED BY <1>3, <2>1, TickKeeps DEF ApplyRawQuote
<1>4. ASSUME NEW push \in Pushes, PushIntent(push) PROVE StrategyInv'
  BY <1>4, PushIntentKeeps
<1>5. ASSUME Still PROVE StrategyInv'
  BY <1>5 DEF StrategyInv, StrategyType, ContextsAreSound
<1>6. ASSUME NEW s \in Range(Strategies), PauseOne(s) \/ ResumeOne(s) PROVE Still
  BY <1>6 DEF PauseOne, ResumeOne, Pause, Resume
<1>7. ASSUME PauseAll \/ ResumeAll PROVE Still
  BY <1>7 DEF PauseAll, ResumeAll, Pause, Resume
<1>8. ASSUME UNCHANGED strategyVars PROVE Still
  BY <1>8 DEF strategyVars
<1> QED BY <1>1, <1>2, <1>3, <1>4, <1>5, <1>6, <1>7, <1>8 DEF StrategyNext

---------------------------------------------------------------------------
\* The sum over at most one intent.
LEMMA LotsInFlightIs ==
  ASSUME StrategyInv, NEW v \in BookVenues
  PROVE  LotsInFlight(v) = InFlight(pending, v)
<1> DEFINE x(k) == IF pending[k].venue = v THEN pending[k].lots ELSE 0
           n == Len(pending)
           IsSum(f) == f = [k \in 0..n |-> IF k = 0 THEN 0 ELSE f[k - 1] + x(k)]
           g == [k \in 0..n |-> IF k = 0 THEN 0 ELSE x(1)]
           sum == CHOOSE f : IsSum(f)
<1>1. (n = 0 /\ pending = <<>>) \/ (n = 1 /\ pending # <<>> /\ pending[1] \in Intent)
  <2>1. pending = <<>> => n = 0
    BY EmptySeq
  <2> QED BY <2>1, OneInFlight
<1>2. n = 1 => x(1) \in Int
  BY <1>1 DEF Intent
<1>3. IsSum(g)
  BY <1>1, <1>2
<1>4. IsSum(sum)
  BY <1>3
<1>5. LotsInFlight(v) = sum[n]
  BY DEF LotsInFlight
<1> HIDE DEF sum
<1>6. sum[n] = IF n = 0 THEN 0 ELSE x(1)
  <2>1. CASE n = 0
    BY <1>4, <2>1
  <2>2. CASE n = 1
    <3>1. sum[0] = 0 /\ sum[1] = sum[1 - 1] + x(1)
      BY <1>4, <2>2
    <3>2. sum[1 - 1] = sum[0]
      OBVIOUS
    <3> QED BY <1>2, <2>2, <3>1, <3>2
  <2> QED BY <1>1, <2>1, <2>2
<1> QED BY <1>1, <1>5, <1>6 DEF InFlight

LEMMA StrategyInvHolds == StrategySpec => []StrategyInv
  BY InitStrategy, StrategyNextKeeps, PTL DEF StrategySpec

\* However the three strategies take turns, none of them, each knowing its own limit only,
\* moves the shared position past the largest of the limits (strategies.py:132, 191, 239;
\* signal_engine.py:170-189).
THEOREM PositionsAreLimited == StrategySpec => []PositionIsLimited
<1>1. StrategyInv => PositionIsLimited
  BY DEF StrategyInv, ContextsAreSound, PositionIsLimited, Limit
<1> QED BY <1>1, StrategyInvHolds, PTL

\* What a context lists is open, and no more than the cap: a signal that expires has left the
\* list, of its context and of every other (signal_engine.py:247).
THEOREM ListedSignalsAreOpen == StrategySpec => []ListedAreOpen
<1>1. ASSUME StrategyInv PROVE ListedAreOpen
  <2> SUFFICES ASSUME NEW v \in BookVenues
               PROVE  /\ Len(contexts[v].listed) <= MaxOpen
                      /\ \A i \in Range(contexts[v].listed) : signals[i].status = "OPEN"
    BY DEF ListedAreOpen
  <2>1. ListedIn(contexts[v].listed, signals) /\ contexts[v].listed \in Seq(Nat)
    <3>1. contexts[v] \in Contexts
      BY <1>1 DEF StrategyInv, StrategyType
    <3> QED BY <1>1, <3>1 DEF StrategyInv, ContextsAreSound, Contexts
  <2>2. DOMAIN contexts[v].listed = 1..Len(contexts[v].listed)
    BY <2>1, LenProperties
  <2> QED BY <2>1, <2>2 DEF ListedIn, Range
<1> QED BY <1>1, StrategyInvHolds, PTL

\* Every lot of a position was ordered, is on its way, was lost with a push that failed or was
\* written off by an exit, and the intents left unanswered are those still to push and those
\* whose push failed (signal_engine.py:199, 221, 231; main.py:145).
THEOREM EveryLotIsAccounted == StrategySpec => []LotsAreAccounted
<1>1. ASSUME StrategyInv PROVE LotsAreAccounted
  <2>1. \A v \in BookVenues :
          contexts[v].net + flattened[v] = orders[v] + LotsInFlight(v) + lost[v]
    BY <1>1, LotsInFlightIs DEF StrategyInv
  <2> DEFINE open == {i \in DOMAIN intents : ~intents[i].acknowledged}
  <2>2. intents \in Seq(Intent) /\ IntentsAgree(intents, pending, losses)
    BY <1>1 DEF StrategyInv, StrategyType
  <2>3. /\ open = Unanswered(intents) /\ LastId(intents) \in Nat /\ MaxIntents \in Nat
        /\ Last(intents) = intents[Len(intents)]
    BY <2>2, KeptIntents, StrategyAssumption DEF Unanswered, Last, ValidStrategyConfig
  <2>4. IF intents # <<>> /\ Last(intents).id > MaxIntents
        THEN Cardinality(open) <= Len(pending) + losses
        ELSE Cardinality(open) = Len(pending) + losses
    <3>1. /\ Cardinality(open) <= Len(pending) + losses
          /\ LastId(intents) <= MaxIntents => Cardinality(open) = Len(pending) + losses
      BY <2>2, <2>3 DEF IntentsAgree
    <3>2. LastId(intents) = IF intents = <<>> THEN 0 ELSE Last(intents).id
      BY <2>3 DEF LastId
    <3> HIDE DEF open
    <3>3. CASE intents # <<>> /\ Last(intents).id > MaxIntents
      BY <3>1, <3>3
    <3>4. CASE ~(intents # <<>> /\ Last(intents).id > MaxIntents)
      <4>1. LastId(intents) <= MaxIntents
        BY <2>3, <3>2, <3>4
      <4> QED BY <3>1, <3>4, <4>1
    <3> QED BY <3>3, <3>4
  <2> QED BY <2>1, <2>4 DEF LotsAreAccounted
<1> QED BY <1>1, StrategyInvHolds, PTL

---------------------------------------------------------------------------
(***************************************************************************)
(* The books of one position, for any sizes, prices, corrections, splits   *)
(* and dividends in any order: double entry.                               *)
(*                                                                         *)
(* The amounts are fractions in lowest terms.  Over a common denominator   *)
(* the books balance exactly when the numerators do, so each step is shown *)
(* on integers: the average that a fill makes, the gain of what it closes  *)
(* and the outlay get their numerators over one denominator, and these add *)
(* up.                                                                     *)
(***************************************************************************)

\* Integers: what can be cancelled, and what is divided without a rest.
LEMMA Cancel ==
  ASSUME NEW a \in Int, NEW b \in Int, NEW c \in Nat \ {0}, a * c = b * c
  PROVE  a = b
<1>1. (a - b) * c = 0
  OBVIOUS
<1>2. CASE a > b
  <2>1. a - b >= 1
    BY <1>2
  <2>2. PICK x \in Nat : x = a - b /\ x >= 1
    BY <2>1
  <2>3. x * c >= 1
    BY <2>2
  <2> QED BY <1>1, <2>2, <2>3
<1>3. CASE a < b
  <2>2. PICK x \in Nat : x = b - a /\ x >= 1
    BY <1>3
  <2>3. x * c >= 1
    BY <2>2
  <2> QED BY <1>1, <2>2, <2>3
<1> QED BY <1>2, <1>3

LEMMA Multiple ==
  ASSUME NEW k \in Int, NEW d \in Nat \ {0}, NEW x, x = k * d
  PROVE  x % d = 0 /\ x \div d = k
<1>0. x \in Int
  OBVIOUS
<1>1. PICK q \in Int : q = x \div d
  BY <1>0, Division
<1>2. PICK r \in Int : r = x % d
  BY <1>0, Division
<1>3. x = d * q + r /\ 0 <= r /\ r < d
  BY <1>0, <1>1, <1>2, Division
<1>4. (k - q) * d = r
  BY <1>3
<1>5. PICK y \in Int : y = k - q
  OBVIOUS
<1>6. y * d = r
  BY <1>4, <1>5
<1>7. ~(y >= 1)
  <2> SUFFICES ASSUME y >= 1 PROVE FALSE
    OBVIOUS
  <2>1. y * d >= d
    OBVIOUS
  <2> QED BY <1>3, <1>6, <2>1
<1>8. ~(y <= -1)
  <2> SUFFICES ASSUME y <= -1 PROVE FALSE
    OBVIOUS
  <2>1. y * d <= -d
    OBVIOUS
  <2> QED BY <1>3, <1>6, <2>1
<1>9. y = 0
  BY <1>7, <1>8
<1>10. r = 0 /\ q = k
  BY <1>5, <1>6, <1>9
<1> QED BY <1>1, <1>2, <1>10

\* k / b and l / a are the same ratio, and e makes a whole number of k / b.
SameRatio(k, b, l, a) == k * a = l * b
Clears(e, k, b) == (k * e) % b = 0

\* The fraction a is worth n / d.
Worth(a, n, d) == a.num * d = n * a.den

LEMMA ReducedIs ==
  ASSUME NEW n \in Int, NEW d \in Nat \ {0}
  PROVE  /\ Reduced(n, d) \in Fraction /\ Worth(Reduced(n, d), n, d)
         /\ Clears(Reduced(n, d).den, n, d)
         /\ \A e \in Nat \ {0} : Clears(e, n, d) => Reduced(n, d).den <= e
<1> DEFINE fits == {e \in 1..d : (n * e) % d = 0}
           den  == CHOOSE e \in fits : \A f \in fits : e <= f
<1>1. d \in fits
  <2>1. (n * d) % d = 0
    BY Multiple
  <2> QED BY <2>1
<1>2. PICK m \in fits : \A f \in fits : m <= f
  <2>1. fits \in SUBSET Nat
    OBVIOUS
  <2>0. fits # {}
    BY <1>1
  <2> HIDE DEF fits
  <2> QED BY <2>0, <2>1, NatMin
<1>3. den \in fits /\ \A f \in fits : den <= f
  BY <1>2
<1>4. PICK c : c = den
  OBVIOUS
<1>5. c \in 1..d /\ (n * c) % d = 0
  BY <1>3, <1>4
<1>6. Reduced(n, d) = [num |-> (n * c) \div d, den |-> c]
  <2>1. PICK f \in Fraction : f = [num |-> n, den |-> d]
    BY DEF Fraction
  <2>2. f.num = n /\ f.den = d
    BY <2>1
  <2> QED BY <1>4, <2>1, <2>2 DEF Reduced, InLowestTerms
<1>7. PICK q \in Int : q = (n * c) \div d
  BY <1>5, Division
<1>8. n * c = d * q
  BY <1>5, <1>7, Division
<1>9. ASSUME NEW e \in Nat \ {0}, (n * e) % d = 0 PROVE c <= e
  <2>1. CASE e \in 1..d
    BY <1>3, <1>4, <1>9, <2>1
  <2>2. CASE e \notin 1..d
    BY <1>5, <2>2
  <2> QED BY <2>1, <2>2
<1>10. /\ Reduced(n, d).num = q /\ Reduced(n, d).den = c
       /\ Reduced(n, d) \in Fraction
  BY <1>5, <1>6, <1>7 DEF Fraction
<1> QED BY <1>5, <1>8, <1>9, <1>10 DEF Worth, Clears

\* What makes a whole number of one makes a whole number of the other.
LEMMA SameMultiples ==
  ASSUME NEW k \in Int, NEW b \in Nat \ {0}, NEW l \in Int, NEW a \in Nat \ {0},
         SameRatio(k, b, l, a), NEW e \in Nat \ {0}, Clears(e, k, b)
  PROVE  Clears(e, l, a)
<1>0. k * a = l * b /\ (k * e) % b = 0
  BY DEF SameRatio, Clears
<1>1. PICK q \in Int : q = (k * e) \div b
  BY Division
<1>2. k * e = b * q
  <2>1. k * e \in Int
    OBVIOUS
  <2> QED BY <1>0, <1>1, <2>1, Division
<1>3. (l * e) * b = (q * a) * b
  <2>1. (l * e) * b = (l * b) * e
    OBVIOUS
  <2>2. (l * b) * e = (k * a) * e
    BY <1>0
  <2>3. (k * a) * e = (k * e) * a
    OBVIOUS
  <2>4. (k * e) * a = (b * q) * a
    BY <1>2
  <2>5. (b * q) * a = (q * a) * b
    OBVIOUS
  <2> QED BY <2>1, <2>2, <2>3, <2>4, <2>5
<1>4. l * e \in Int /\ q * a \in Int
  OBVIOUS
<1>5. l * e = q * a
  BY <1>3, <1>4, Cancel
<1> QED BY <1>5, Multiple DEF Clears

\* Fractions that are reduced and worth the same are the same.
LEMMA SameWorth ==
  ASSUME NEW n \in Int, NEW d \in Nat \ {0}, NEW m \in Int, NEW c \in Nat \ {0}, n * c = m * d
  PROVE  Reduced(n, d) = Reduced(m, c)
<1>1. SameRatio(m, c, n, d) /\ SameRatio(n, d, m, c)
  BY DEF SameRatio
<1>2. PICK r \in Fraction : r = Reduced(n, d)
  BY ReducedIs
<1>3. PICK s \in Fraction : s = Reduced(m, c)
  BY ReducedIs
<1>4. r.den \in Nat \ {0} /\ s.den \in Nat \ {0} /\ r.num \in Int /\ s.num \in Int
  BY DEF Fraction
<1>5. r.den <= s.den
  <2>1. Clears(s.den, m, c)
    BY <1>3, ReducedIs
  <2>2. Clears(s.den, n, d)
    BY <1>1, <1>4, <2>1, SameMultiples
  <2> QED BY <1>2, <1>4, <2>2, ReducedIs
<1>6. s.den <= r.den
  <2>1. Clears(r.den, n, d)
    BY <1>2, ReducedIs
  <2>2. Clears(r.den, m, c)
    BY <1>1, <1>4, <2>1, SameMultiples
  <2> QED BY <1>3, <1>4, <2>2, ReducedIs
<1>7. r.den = s.den
  BY <1>4, <1>5, <1>6
<1>8. r.num = s.num
  <2>1. r.num * d = n * r.den /\ s.num * c = m * r.den
    BY <1>2, <1>3, <1>7, ReducedIs DEF Worth
  <2>2. (r.num * d) * c = (s.num * d) * c
    <3>1. (r.num * d) * c = (n * r.den) * c
      BY <2>1
    <3>2. (n * r.den) * c = (n * c) * r.den
      BY <1>4
    <3>3. (n * c) * r.den = (m * d) * r.den
      OBVIOUS
    <3>4. (m * d) * r.den = (m * r.den) * d
      BY <1>4
    <3>5. (m * r.den) * d = (s.num * c) * d
      BY <2>1
    <3>6. (s.num * c) * d = (s.num * d) * c
      BY <1>4
    <3> QED BY <3>1, <3>2, <3>3, <3>4, <3>5, <3>6
  <2>3. r.num * d = s.num * d
    BY <1>4, <2>2, Cancel
  <2> QED BY <1>4, <2>3, Cancel
<1>9. r = s
  BY <1>7, <1>8 DEF Fraction
<1> QED BY <1>2, <1>3, <1>9

\* Arithmetic on what fractions are worth over a common denominator.
LEMMA WorthOfPlus ==
  ASSUME NEW a \in Fraction, NEW b \in Fraction, NEW n \in Int, NEW m \in Int, NEW d \in Nat \ {0},
         Worth(a, n, d), Worth(b, m, d)
  PROVE  Plus(a, b) \in Fraction /\ Plus(a, b) = Reduced(n + m, d)
<1>1. a.num \in Int /\ b.num \in Int /\ a.den \in Nat \ {0} /\ b.den \in Nat \ {0}
  BY DEF Fraction
<1>2. PICK x : x = a.num * b.den + b.num * a.den
  OBVIOUS
<1>3. PICK y : y = a.den * b.den
  OBVIOUS
<1>4. x \in Int /\ y \in Nat \ {0}
  <2>1. a.den * b.den # 0
    BY <1>1
  <2> QED BY <1>1, <1>2, <1>3, <2>1
<1>5. x * d = (n + m) * y
  <2>1. a.num * d = n * a.den /\ b.num * d = m * b.den
    BY DEF Worth
  <2>2. x * d = (a.num * d) * b.den + (b.num * d) * a.den
    BY <1>1, <1>2
  <2>3. x * d = (n * a.den) * b.den + (m * b.den) * a.den
    BY <2>1, <2>2
  <2>4. (n * a.den) * b.den + (m * b.den) * a.den = (n + m) * y
    BY <1>1, <1>3
  <2> QED BY <2>3, <2>4
<1>6. Reduced(x, y) = Reduced(n + m, d)
  <2>1. n + m \in Int
    OBVIOUS
  <2> QED BY <1>4, <1>5, <2>1, SameWorth
<1>7. Plus(a, b) = Reduced(x, y)
  BY <1>2, <1>3 DEF Plus
<1> QED BY <1>4, <1>6, <1>7, ReducedIs

LEMMA WorthOfTimes ==
  ASSUME NEW a \in Fraction, NEW n \in Int, NEW d \in Nat \ {0}, Worth(a, n, d), NEW k \in Int
  PROVE  Times(k, a) \in Fraction /\ Times(k, a) = Reduced(k * n, d)
<1>1. a.num \in Int /\ a.den \in Nat \ {0}
  BY DEF Fraction
<1>2. (k * a.num) * d = (k * n) * a.den
  <2>1. (k * a.num) * d = k * (a.num * d)
    BY <1>1
  <2>2. k * (a.num * d) = k * (n * a.den)
    BY DEF Worth
  <2>3. k * (n * a.den) = (k * n) * a.den
    BY <1>1
  <2> QED BY <2>1, <2>2, <2>3
<1>3. k * a.num \in Int /\ k * n \in Int
  BY <1>1
<1>4. Reduced(k * a.num, a.den) = Reduced(k * n, d)
  BY <1>1, <1>2, <1>3, SameWorth
<1>5. Times(k, a) = Reduced(k * a.num, a.den)
  BY DEF Times
<1> QED BY <1>1, <1>3, <1>4, <1>5, ReducedIs

LEMMA WorthOfOver ==
  ASSUME NEW a \in Fraction, NEW n \in Int, NEW d \in Nat \ {0}, Worth(a, n, d), NEW k \in Nat \ {0}
  PROVE  Over(a, k) \in Fraction /\ Over(a, k) = Reduced(n, d * k)
<1>1. a.num \in Int /\ a.den \in Nat \ {0}
  BY DEF Fraction
<1>2. PICK x \in Nat \ {0} : x = a.den * k
  <2>1. a.den * k \in Nat /\ a.den * k # 0
    BY <1>1
  <2> QED BY <2>1
<1>3. PICK y \in Nat \ {0} : y = d * k
  <2>1. d * k \in Nat /\ d * k # 0
    OBVIOUS
  <2> QED BY <2>1
<1>4. a.num * y = n * x
  <2>1. a.num * y = (a.num * d) * k
    BY <1>1, <1>3
  <2>2. (a.num * d) * k = (n * a.den) * k
    BY DEF Worth
  <2>3. (n * a.den) * k = n * x
    BY <1>1, <1>2
  <2> QED BY <2>1, <2>2, <2>3
<1>5. Reduced(a.num, x) = Reduced(n, y)
  BY <1>1, <1>4, SameWorth
<1>6. Over(a, k) = Reduced(a.num, x)
  BY <1>2 DEF Over
<1> QED BY <1>1, <1>3, <1>5, <1>6, ReducedIs

LEMMA WorthOfWhole ==
  ASSUME NEW k \in Int, NEW d \in Nat \ {0}
  PROVE  Whole(k) \in Fraction /\ Worth(Whole(k), k * d, d)
BY DEF Whole, Fraction, Worth

\* A fraction is worth the same over a larger denominator, and only one number is its
\* numerator over a given one.
LEMMA WorthOverMore ==
  ASSUME NEW a \in Fraction, NEW n \in Int, NEW d \in Nat \ {0}, Worth(a, n, d), NEW k \in Nat \ {0}
  PROVE  Worth(a, n * k, d * k)
<1>1. a.num \in Int /\ a.den \in Nat \ {0} /\ a.num * d = n * a.den
  BY DEF Fraction, Worth
<1>2. a.num * (d * k) = (a.num * d) * k
  BY <1>1
<1>3. (n * a.den) * k = (n * k) * a.den
  BY <1>1
<1> QED BY <1>1, <1>2, <1>3 DEF Worth

LEMMA OneWorth ==
  ASSUME NEW a \in Fraction, NEW n \in Int, NEW m \in Int, NEW d \in Nat \ {0},
         Worth(a, n, d), Worth(a, m, d)
  PROVE  n = m
<1>1. a.den \in Nat \ {0} /\ n * a.den = m * a.den
  BY DEF Fraction, Worth
<1> QED BY <1>1, Cancel

LEMMA WorthItself ==
  ASSUME NEW a \in Fraction
  PROVE  Worth(a, a.num, a.den) /\ a.num \in Int /\ a.den \in Nat \ {0}
BY DEF Fraction, Worth

\* The sign of a fraction is that of its numerator.
LEMMA WorthSign ==
  ASSUME NEW a \in Fraction, NEW n \in Int, NEW d \in Nat \ {0}, Worth(a, n, d)
  PROVE  n >= 0 <=> a.num >= 0
<1>1. a.num \in Int /\ a.den \in Nat \ {0} /\ a.num * d = n * a.den
  BY DEF Fraction, Worth
<1>2. ASSUME NEW x \in Int, NEW y \in Nat \ {0} PROVE x >= 0 <=> x * y >= 0
  <2>1. CASE x >= 0
    BY <2>1
  <2>2. CASE x < 0
    <3>1. PICK z \in Nat \ {0} : x = -z
      <4>1. -x \in Nat \ {0} /\ x = -(-x)
        BY <2>2
      <4> QED BY <4>1
    <3>2. z * y > 0
      BY <1>2
    <3>3. x * y = -(z * y)
      BY <3>1
    <3> QED BY <2>2, <3>2, <3>3
  <2> QED BY <2>1, <2>2
<1>3. a.num >= 0 <=> a.num * d >= 0
  BY <1>1, <1>2
<1>4. n >= 0 <=> n * a.den >= 0
  BY <1>1, <1>2
<1> QED BY <1>1, <1>3, <1>4

\* Over a common denominator the books balance exactly when their numerators do.
LEMMA CommonDenominator ==
  ASSUME NEW a \in Fraction, NEW r \in Fraction, NEW o \in Fraction
  PROVE  \E d \in Nat \ {0}, n, m, k \in Int : Worth(a, n, d) /\ Worth(r, m, d) /\ Worth(o, k, d)
<1>1. PICK x \in Nat \ {0}, y \in Nat \ {0}, z \in Nat \ {0} : x = a.den /\ y = r.den /\ z = o.den
  BY WorthItself
<1>2. /\ a.num \in Int /\ r.num \in Int /\ o.num \in Int
      /\ Worth(a, a.num, x) /\ Worth(r, r.num, y) /\ Worth(o, o.num, z)
  BY <1>1, WorthItself
<1>3. ASSUME NEW u \in Nat \ {0}, NEW v \in Nat \ {0} PROVE u * v \in Nat \ {0} /\ u * v = v * u
  <2>1. u * v # 0
    OBVIOUS
  <2> QED BY <2>1
<1>4. PICK yz \in Nat \ {0}, xz \in Nat \ {0}, xy \in Nat \ {0} : yz = y * z /\ xz = x * z /\ xy = x * y
  BY <1>3
<1>5. PICK d \in Nat \ {0} : d = x * yz /\ d = y * xz /\ d = z * xy
  <2>1. x * yz = y * xz /\ x * yz = z * xy
    BY <1>4
  <2> QED BY <1>3, <2>1
<1>6. Worth(a, a.num * yz, d) /\ Worth(r, r.num * xz, d) /\ Worth(o, o.num * xy, d)
  BY <1>2, <1>5, WorthOverMore
<1>7. a.num * yz \in Int /\ r.num * xz \in Int /\ o.num * xy \in Int
  BY <1>2
<1> QED BY <1>6, <1>7

LEMMA BalanceIs ==
  ASSUME NEW a \in Fraction, NEW r \in Fraction, NEW o \in Fraction, NEW d \in Nat \ {0},
         NEW n \in Int, NEW m \in Int, NEW k \in Int, Worth(a, n, d), Worth(r, m, d), Worth(o, k, d),
         NEW net \in Int
  PROVE  Plus(r, o) = Times(net, a) <=> m + k = net * n
<1>1. Plus(r, o) = Reduced(m + k, d) /\ Times(net, a) = Reduced(net * n, d)
  BY WorthOfPlus, WorthOfTimes
<1>2. m + k \in Int /\ net * n \in Int
  OBVIOUS
<1>3. ASSUME Reduced(m + k, d) = Reduced(net * n, d) PROVE m + k = net * n
  <2>1. PICK x \in Fraction : x = Reduced(m + k, d)
    BY <1>2, ReducedIs
  <2>2. Worth(x, m + k, d) /\ Worth(x, net * n, d)
    BY <1>2, <1>3, <2>1, ReducedIs
  <2> QED BY <1>2, <2>2, OneWorth
<1> QED BY <1>1, <1>3

\* The worth of what an operation returns.
LEMMA PlusWorth ==
  ASSUME NEW a \in Fraction, NEW b \in Fraction, NEW n \in Int, NEW m \in Int, NEW d \in Nat \ {0},
         Worth(a, n, d), Worth(b, m, d)
  PROVE  Plus(a, b) \in Fraction /\ Worth(Plus(a, b), n + m, d)
<1>1. n + m \in Int
  OBVIOUS
<1> QED BY <1>1, WorthOfPlus, ReducedIs

LEMMA TimesWorth ==
  ASSUME NEW a \in Fraction, NEW n \in Int, NEW d \in Nat \ {0}, Worth(a, n, d), NEW k \in Int
  PROVE  Times(k, a) \in Fraction /\ Worth(Times(k, a), k * n, d)
<1>1. k * n \in Int
  OBVIOUS
<1> QED BY <1>1, WorthOfTimes, ReducedIs

LEMMA OverWorth ==
  ASSUME NEW a \in Fraction, NEW n \in Int, NEW d \in Nat \ {0}, Worth(a, n, d), NEW k \in Nat \ {0}
  PROVE  Over(a, k) \in Fraction /\ Worth(Over(a, k), n, d * k)
<1>1. d * k \in Nat \ {0}
  <2>1. d * k # 0
    OBVIOUS
  <2> QED BY <2>1
<1> QED BY <1>1, WorthOfOver, ReducedIs

---------------------------------------------------------------------------
(* A fill that adds, and one that takes away *)

\* What a fill that adds does to the numerators.
AddsUp(net, lots, n, p) ==
  (net * n + lots * p) * Magnitude(net + lots) = (net + lots) * (Magnitude(net) * n + Magnitude(lots) * p)

LEMMA AddingBalances ==
  ASSUME NEW net \in Int, NEW lots \in Int, lots # 0, SameDirection(net, lots),
         NEW n \in Int, NEW p \in Int
  PROVE  /\ Magnitude(net + lots) \in Nat \ {0} /\ Magnitude(net) \in Nat /\ Magnitude(lots) \in Nat
         /\ AddsUp(net, lots, n, p)
<1>1. CASE net >= 0 /\ lots > 0
  <2>1. Magnitude(net + lots) = net + lots /\ Magnitude(net) = net /\ Magnitude(lots) = lots
    BY <1>1 DEF Magnitude
  <2>2. (net * n + lots * p) * (net + lots) = (net + lots) * (net * n + lots * p)
    OBVIOUS
  <2> QED BY <1>1, <2>1, <2>2 DEF AddsUp
<1>2. CASE net <= 0 /\ lots < 0
  <2>1. Magnitude(net + lots) = -(net + lots) /\ Magnitude(net) = -net /\ Magnitude(lots) = -lots
    BY <1>2 DEF Magnitude
  <2>2. (net * n + lots * p) * (-(net + lots)) = (net + lots) * ((-net) * n + (-lots) * p)
    OBVIOUS
  <2> QED BY <1>2, <2>1, <2>2 DEF AddsUp
<1> QED BY <1>1, <1>2 DEF SameDirection

LEMMA TakingAway ==
  ASSUME NEW net \in Int, NEW lots \in Int, lots # 0, ~SameDirection(net, lots)
  PROVE  LET closed == Closing(net, lots) * Direction(net)
             rest   == RemainingSigned(net, lots) IN
         /\ closed \in Int /\ rest \in Int /\ rest # 0
         /\ Magnitude(lots) < Magnitude(net) =>
              /\ closed = -lots
              /\ ~HalvesOrMore(net, lots) => Magnitude(rest) < Magnitude(net)
         /\ ~(Magnitude(lots) < Magnitude(net)) => closed = net /\ ~(Magnitude(rest) < Magnitude(net))
<1>1. CASE net > 0 /\ lots < 0
  BY <1>1 DEF SameDirection, Closing, Direction, RemainingSigned, Magnitude, Lesser, HalvesOrMore
<1>2. CASE net < 0 /\ lots > 0
  BY <1>2 DEF SameDirection, Closing, Direction, RemainingSigned, Magnitude, Lesser, HalvesOrMore
<1> QED BY <1>1, <1>2 DEF SameDirection

---------------------------------------------------------------------------
(* The steps *)

AccountType ==
  /\ pos = [net |-> pos.net, avg |-> pos.avg, realized |-> pos.realized, lastPx |-> pos.lastPx,
            fillsApplied |-> pos.fillsApplied, adjustments |-> pos.adjustments]
  /\ pos.net \in Int /\ pos.avg \in Fraction /\ pos.avg.num >= 0 /\ pos.realized \in Fraction
  /\ outlay \in Fraction /\ leaky \in BOOLEAN

AccountInv == AccountType /\ BooksBalance

LEMMA InitAccount == AccountInit => AccountInv
<1> SUFFICES ASSUME AccountInit PROVE AccountInv
  OBVIOUS
<1>1. pos = FlatPosition /\ outlay = Whole(0) /\ leaky = FALSE
  BY DEF AccountInit
<1>2. Whole(0) \in Fraction /\ Whole(0).num = 0 /\ Worth(Whole(0), 0, 1)
  BY DEF Whole, Fraction, Worth
<1>3. pos.net = 0 /\ pos.avg = Whole(0) /\ pos.realized = Whole(0)
  BY <1>1 DEF FlatPosition
<1>4. Plus(Whole(0), Whole(0)) = Times(0, Whole(0))
  <2>1. 0 + 0 = 0 * 0 /\ 1 \in Nat \ {0}
    OBVIOUS
  <2> QED BY <1>2, <2>1, BalanceIs
<1>5. BooksBalance
  BY <1>1, <1>3, <1>4 DEF BooksBalance, BookValue
<1>6. AccountType
  <2>1. pos = [net |-> 0, avg |-> Whole(0), realized |-> Whole(0), lastPx |-> 0, fillsApplied |-> 0,
               adjustments |-> 0]
    BY <1>1 DEF FlatPosition
  <2>2. pos = [net |-> pos.net, avg |-> pos.avg, realized |-> pos.realized, lastPx |-> pos.lastPx,
               fillsApplied |-> pos.fillsApplied, adjustments |-> pos.adjustments]
    BY <2>1
  <2>3. /\ pos.net \in Int /\ pos.avg \in Fraction /\ pos.avg.num >= 0 /\ pos.realized \in Fraction
        /\ outlay \in Fraction
    BY <1>1, <1>2, <1>3
  <2>4. leaky \in BOOLEAN
    BY <1>1
  <2> QED BY <2>2, <2>3, <2>4 DEF AccountType
<1> QED BY <1>5, <1>6 DEF AccountInv

\* The numerators of the books: of the average, of what was realized and of the outlay.
AreNumerators(n, m, k, d) ==
  /\ d \in Nat \ {0} /\ n \in Nat /\ m \in Int /\ k \in Int
  /\ Worth(pos.avg, n, d) /\ Worth(pos.realized, m, d) /\ Worth(outlay, k, d)
  /\ ~leaky => m + k = pos.net * n

LEMMA Numerators ==
  ASSUME AccountInv
  PROVE  \E n, m, k, d : AreNumerators(n, m, k, d)
<1>1. /\ pos.net \in Int /\ pos.avg \in Fraction /\ pos.avg.num >= 0 /\ pos.realized \in Fraction
      /\ outlay \in Fraction
  BY DEF AccountInv, AccountType
<1>2. PICK d \in Nat \ {0}, n \in Int, m \in Int, k \in Int :
        Worth(pos.avg, n, d) /\ Worth(pos.realized, m, d) /\ Worth(outlay, k, d)
  BY <1>1, CommonDenominator
<1>3. n \in Nat
  BY <1>1, <1>2, WorthSign
<1>4. ~leaky => m + k = pos.net * n
  <2> SUFFICES ASSUME ~leaky PROVE m + k = pos.net * n
    OBVIOUS
  <2>1. Plus(pos.realized, outlay) = Times(pos.net, pos.avg)
    BY DEF AccountInv, BooksBalance, BookValue
  <2>2. PICK net \in Int, avg \in Fraction, gain \in Fraction :
          net = pos.net /\ avg = pos.avg /\ gain = pos.realized
    BY <1>1
  <2>3. Worth(avg, n, d) /\ Worth(gain, m, d)
    BY <1>2, <2>2
  <2>4. Plus(gain, outlay) = Times(net, avg) <=> m + k = net * n
    BY SMTT(30), <1>1, <1>2, <2>3, BalanceIs
  <2> QED BY <2>1, <2>2, <2>4
<1>5. AreNumerators(n, m, k, d)
  BY <1>2, <1>3, <1>4 DEF AreNumerators
<1> QED BY <1>5

\* What a step has to show: the new numerators balance unless it is leaky.
LEMMA StepBalances ==
  ASSUME NEW d \in Nat \ {0}, NEW n \in Nat, NEW m \in Int, NEW k \in Int,
         NEW p, p = [net |-> p.net, avg |-> p.avg, realized |-> p.realized, lastPx |-> p.lastPx,
                     fillsApplied |-> p.fillsApplied, adjustments |-> p.adjustments],
         p.net \in Int, p.avg \in Fraction, p.realized \in Fraction, NEW paid \in Fraction,
         Worth(p.avg, n, d), Worth(p.realized, m, d), Worth(paid, k, d),
         NEW leak \in BOOLEAN, ~leak => m + k = p.net * n,
         pos' = p, outlay' = paid, leaky' = leak
  PROVE  AccountInv'
<1>1. p.avg.num >= 0
  BY WorthSign
<1>2. ~leak => Plus(p.realized, paid) = Times(p.net, p.avg)
  BY BalanceIs
<1>3. AccountType'
  BY <1>1 DEF AccountType
<1>4. BooksBalance'
  BY <1>2 DEF BooksBalance, BookValue
<1> QED BY <1>3, <1>4 DEF AccountInv

LEMMA FillBalances ==
  ASSUME AccountInv, NEW side \in {"BUY", "SELL"}, NEW qty \in Quantities, NEW price \in Prices,
         Fill(side, qty, price)
  PROVE  AccountInv'
<1>1. PICK lots \in Int : lots = Signed(side, qty) /\ lots # 0
  BY AccountInputsAssumption DEF Signed
<1>2. price \in Nat
  BY AccountInputsAssumption
<1>3. /\ pos.net \in Int /\ pos.avg \in Fraction /\ pos.realized \in Fraction
      /\ outlay \in Fraction /\ leaky \in BOOLEAN
  BY DEF AccountInv, AccountType
<1>4. PICK n, m, k, d : AreNumerators(n, m, k, d)
  BY Numerators
<1>5. /\ d \in Nat \ {0} /\ n \in Nat /\ m \in Int /\ k \in Int
      /\ Worth(pos.avg, n, d) /\ Worth(pos.realized, m, d) /\ Worth(outlay, k, d)
      /\ ~leaky => m + k = pos.net * n
      /\ n \in Int
  BY <1>4 DEF AreNumerators
<1>6. PICK p : p = FillPosition(pos, side, qty, price)
  OBVIOUS
<1>7. PICK avg : avg = AvgAfterFill(pos.net, pos.avg, lots, price)
  OBVIOUS
<1>8. PICK gain : gain = RealizedByFill(pos.net, pos.avg, lots, price)
  OBVIOUS
<1>9. PICK net \in Int : net = pos.net + lots
  BY <1>3
<1>10. /\ p = [net |-> p.net, avg |-> p.avg, realized |-> p.realized, lastPx |-> p.lastPx,
               fillsApplied |-> p.fillsApplied, adjustments |-> p.adjustments]
       /\ p.net = net /\ p.avg = avg /\ p.realized = Plus(pos.realized, gain)
  BY <1>1, <1>6, <1>7, <1>8, <1>9 DEF AccountInv, AccountType, FillPosition
<1>11. PICK paid : paid = Plus(outlay, Whole(lots * price))
  OBVIOUS
<1>12. PICK leak \in BOOLEAN : leak = (leaky \/ HalvesOrMore(pos.net, lots))
  OBVIOUS
<1>13. pos' = p /\ outlay' = paid /\ leaky' = leak
  BY <1>1, <1>6, <1>11, <1>12 DEF Fill
<1>14. PICK x \in Int : x = price * d /\ x \in Nat
  BY <1>2, <1>5
<1>15. Whole(price) \in Fraction /\ Worth(Whole(price), x, d)
  BY <1>2, <1>5, <1>14, WorthOfWhole
<1>16. paid \in Fraction /\ Worth(paid, k + lots * x, d)
  <2>1. lots * price \in Int /\ (lots * price) * d = lots * x
    BY <1>2, <1>5, <1>14
  <2>2. Whole(lots * price) \in Fraction /\ Worth(Whole(lots * price), lots * x, d)
    BY <1>5, <2>1, WorthOfWhole
  <2>3. lots * x \in Int
    OBVIOUS
  <2> QED BY <1>3, <1>5, <1>11, <2>2, <2>3, PlusWorth
<1>17. k + lots * x \in Int
  BY <1>5
<1>18. CASE SameDirection(pos.net, lots)
  <2>0. /\ Magnitude(pos.net + lots) \in Nat \ {0} /\ Magnitude(pos.net) \in Nat /\ Magnitude(lots) \in Nat
        /\ AddsUp(pos.net, lots, n, x)
    BY <1>1, <1>3, <1>5, <1>18, AddingBalances
  <2>a. PICK a \in Int : a = Magnitude(pos.net) /\ a \in Nat
    BY <2>0
  <2>b. PICK b \in Int : b = Magnitude(lots) /\ b \in Nat
    BY <2>0
  <2>1. PICK z \in Nat \ {0} : /\ z = Magnitude(pos.net + lots)
                             /\ (pos.net * n + lots * x) * z = (pos.net + lots) * (a * n + b * x)
    BY <2>0, <2>a, <2>b DEF AddsUp
  <2>2. avg \in Fraction /\ Worth(avg, a * n + b * x, d * z)
    <3>1. Times(a, pos.avg) \in Fraction /\ Worth(Times(a, pos.avg), a * n, d)
      BY <1>3, <1>5, TimesWorth
    <3>2. Times(b, Whole(price)) \in Fraction /\ Worth(Times(b, Whole(price)), b * x, d)
      BY <1>5, <1>15, TimesWorth
    <3>3. PICK sum : sum = Plus(Times(a, pos.avg), Times(b, Whole(price)))
      OBVIOUS
    <3>4. a * n \in Int /\ b * x \in Int /\ a * n + b * x \in Int
      BY <1>5
    <3>5. sum \in Fraction /\ Worth(sum, a * n + b * x, d)
      BY <1>5, <3>1, <3>2, <3>3, <3>4, PlusWorth
    <3>6. avg = Over(sum, z)
      BY <1>7, <1>18, <2>1, <2>a, <2>b, <3>3 DEF AvgAfterFill
    <3> QED BY <1>5, <3>4, <3>5, <3>6, OverWorth
  <2>3. p.realized \in Fraction /\ Worth(p.realized, m, d)
    <3>1. gain = Whole(0)
      BY <1>8, <1>18 DEF RealizedByFill
    <3>2. PICK zero \in Int : zero = 0
      OBVIOUS
    <3>3. Whole(0) \in Fraction /\ Worth(Whole(0), zero, d)
      <4>1. Whole(zero) \in Fraction /\ Worth(Whole(zero), zero * d, d)
        BY <1>5, WorthOfWhole
      <4>2. zero * d = zero
        BY <1>5, <3>2
      <4> QED BY <3>2, <4>1, <4>2
    <3>4. p.realized \in Fraction /\ Worth(p.realized, m + zero, d)
      BY <1>3, <1>5, <1>10, <3>1, <3>3, PlusWorth
    <3>5. m + zero = m
      BY <1>5, <3>2
    <3> QED BY <3>4, <3>5
  <2>4. PICK dz \in Nat \ {0} : dz = d * z
    <3>1. d * z # 0 /\ d * z \in Nat
      BY <1>5
    <3> QED BY <3>1
  <2>5. Worth(p.realized, m * z, dz) /\ Worth(paid, (k + lots * x) * z, dz)
    BY <1>5, <1>16, <1>17, <2>3, <2>4, WorthOverMore
  <2>6. m * z \in Int /\ (k + lots * x) * z \in Int /\ a * n + b * x \in Nat
    BY <1>5, <1>14, <2>a, <2>b
  <2>7. ~leak => m * z + (k + lots * x) * z = net * (a * n + b * x)
    <3> SUFFICES ASSUME ~leak PROVE m * z + (k + lots * x) * z = net * (a * n + b * x)
      OBVIOUS
    <3>1. m + k = pos.net * n
      BY <1>5, <1>12
    <3>2. m * z + (k + lots * x) * z = ((m + k) + lots * x) * z
      BY <1>5
    <3>3. ((m + k) + lots * x) * z = (pos.net * n + lots * x) * z
      BY <3>1
    <3> QED BY <1>9, <2>1, <3>2, <3>3
  <2> QED BY <1>10, <1>13, <1>16, <2>2, <2>3, <2>4, <2>5, <2>6, <2>7, StepBalances
<1>19. CASE ~SameDirection(pos.net, lots)
  <2>1. PICK closed \in Int, rest \in Int :
          /\ closed = Closing(pos.net, lots) * Direction(pos.net)
          /\ rest = RemainingSigned(pos.net, lots) /\ rest # 0
          /\ Magnitude(lots) < Magnitude(pos.net) =>
               closed = -lots /\ (~HalvesOrMore(pos.net, lots) => Magnitude(rest) < Magnitude(pos.net))
          /\ ~(Magnitude(lots) < Magnitude(pos.net)) =>
               closed = pos.net /\ ~(Magnitude(rest) < Magnitude(pos.net))
    BY <1>1, <1>3, <1>19, TakingAway
  <2>2. p.realized \in Fraction /\ Worth(p.realized, m + closed * (x + (-1) * n), d)
    <3>1. Times(-1, pos.avg) \in Fraction /\ Worth(Times(-1, pos.avg), (-1) * n, d)
      BY <1>3, <1>5, TimesWorth
    <3>2. PICK diff : diff = Plus(Whole(price), Times(-1, pos.avg))
      OBVIOUS
    <3>3. x + (-1) * n \in Int /\ (-1) * n \in Int /\ closed * (x + (-1) * n) \in Int
      BY <1>5
    <3>4. diff \in Fraction /\ Worth(diff, x + (-1) * n, d)
      BY <1>5, <1>15, <3>1, <3>2, <3>3, PlusWorth
    <3>5. gain = Times(closed, diff)
      BY <1>8, <1>19, <2>1, <3>2 DEF RealizedByFill
    <3>6. gain \in Fraction /\ Worth(gain, closed * (x + (-1) * n), d)
      BY <1>5, <3>3, <3>4, <3>5, TimesWorth
    <3> QED BY <1>3, <1>5, <1>10, <3>3, <3>6, PlusWorth
  <2>3. m + closed * (x + (-1) * n) \in Int
    BY <1>5
  <2>4. avg = IF Magnitude(rest) < Magnitude(pos.net) THEN pos.avg ELSE Whole(price)
    BY <1>7, <1>19, <2>1 DEF AvgAfterFill
  <2>5. CASE Magnitude(rest) < Magnitude(pos.net)
    <3>1. closed = -lots
      BY <2>1, <2>5
    <3>2. ~leak => (m + closed * (x + (-1) * n)) + (k + lots * x) = net * n
      <4> SUFFICES ASSUME ~leak PROVE (m + closed * (x + (-1) * n)) + (k + lots * x) = net * n
        OBVIOUS
      <4>1. m + k = pos.net * n
        BY <1>5, <1>12
      <4>2. (m + (-lots) * (x + (-1) * n)) + (k + lots * x) = (m + k) + lots * n
        BY <1>5
      <4>3. pos.net * n + lots * n = (pos.net + lots) * n
        BY <1>3, <1>5
      <4> QED BY <1>9, <3>1, <4>1, <4>2, <4>3
    <3> QED BY <1>3, <1>5, <1>10, <1>13, <1>16, <1>17, <2>2, <2>3, <2>4, <2>5, <3>2, StepBalances
  <2>6. CASE ~(Magnitude(rest) < Magnitude(pos.net))
    <3>1. ~leak => closed = pos.net
      BY <1>12, <2>1, <2>6
    <3>2. ~leak => (m + closed * (x + (-1) * n)) + (k + lots * x) = net * x
      <4> SUFFICES ASSUME ~leak PROVE (m + closed * (x + (-1) * n)) + (k + lots * x) = net * x
        OBVIOUS
      <4>1. m + k = pos.net * n
        BY <1>5, <1>12
      <4>2. (m + pos.net * (x + (-1) * n)) + (k + lots * x) = (m + k) + (pos.net * x - pos.net * n) + lots * x
        BY <1>3, <1>5
      <4>3. pos.net * n + (pos.net * x - pos.net * n) + lots * x = (pos.net + lots) * x
        BY <1>3, <1>5
      <4> QED BY <1>9, <3>1, <4>1, <4>2, <4>3
    <3> QED BY <1>5, <1>10, <1>13, <1>14, <1>15, <1>16, <1>17, <2>2, <2>3, <2>4, <2>6, <3>2, StepBalances
  <2> QED BY <2>5, <2>6
<1> QED BY <1>18, <1>19

LEMMA AdjustBalances ==
  ASSUME AccountInv, NEW delta \in Corrections, NEW newAvg \in NewAverages, Adjust(delta, newAvg)
  PROVE  AccountInv'
<1>1. /\ pos.net \in Int /\ pos.avg \in Fraction /\ pos.realized \in Fraction
      /\ outlay \in Fraction /\ leaky \in BOOLEAN /\ delta \in Int /\ newAvg \in Int
  BY AccountInputsAssumption DEF AccountInv, AccountType
<1>2. PICK n, m, k, d : AreNumerators(n, m, k, d)
  BY Numerators
<1>3. /\ d \in Nat \ {0} /\ n \in Nat /\ n \in Int /\ m \in Int /\ k \in Int
      /\ Worth(pos.avg, n, d) /\ Worth(pos.realized, m, d) /\ Worth(outlay, k, d)
      /\ ~leaky => m + k = pos.net * n
  BY <1>2 DEF AreNumerators
<1>4. PICK p : p = AdjustPosition(pos, delta, newAvg)
  OBVIOUS
<1>5. PICK avg : avg = IF newAvg >= 0 THEN Whole(newAvg)
                       ELSE IF pos.net + delta = 0 THEN Whole(0) ELSE pos.avg
  OBVIOUS
<1>6. PICK net \in Int : net = pos.net + delta
  BY <1>1
<1>7. /\ p = [net |-> p.net, avg |-> p.avg, realized |-> p.realized, lastPx |-> p.lastPx,
              fillsApplied |-> p.fillsApplied, adjustments |-> p.adjustments]
      /\ p.net = net /\ p.avg = avg /\ p.realized = pos.realized
  BY <1>4, <1>5, <1>6 DEF AccountInv, AccountType, AdjustPosition
<1>8. PICK x \in Int : x \in Nat /\ avg \in Fraction /\ Worth(avg, x, d)
  <2>1. ASSUME NEW y \in Nat PROVE Whole(y) \in Fraction /\ Worth(Whole(y), y * d, d) /\ y * d \in Nat
    <3>1. y \in Int /\ y * d \in Nat
      BY <1>3
    <3> QED BY <1>3, <3>1, WorthOfWhole
  <2>2. CASE newAvg >= 0
    <3>1. newAvg \in Nat
      BY <1>1, <2>2
    <3>2. PICK z \in Int : z = newAvg * d
      BY <1>1, <1>3
    <3>3. z \in Nat /\ avg \in Fraction /\ Worth(avg, z, d)
      BY <1>5, <2>1, <2>2, <3>1, <3>2
    <3> QED BY <3>3
  <2>3. CASE ~(newAvg >= 0) /\ pos.net + delta = 0
    <3>1. PICK zero \in Nat : zero = 0
      OBVIOUS
    <3>2. avg = Whole(zero)
      BY <1>5, <2>3, <3>1
    <3>3. PICK z \in Int : z = zero * d
      BY <1>3
    <3>4. z \in Nat /\ avg \in Fraction /\ Worth(avg, z, d)
      BY <2>1, <3>2, <3>3
    <3> QED BY <3>4
  <2>4. CASE ~(newAvg >= 0) /\ pos.net + delta # 0
    BY <1>1, <1>3, <1>5, <2>4
  <2> QED BY <2>2, <2>3, <2>4
<1>9. PICK paid : paid = Plus(outlay, Plus(Times(net, avg), Times(-1, Times(pos.net, pos.avg))))
  OBVIOUS
<1>10. pos' = p /\ outlay' = paid /\ leaky' = leaky
  BY <1>4, <1>7, <1>9 DEF Adjust, BookValue, Negative
<1>11. paid \in Fraction /\ Worth(paid, k + (net * x + (-1) * (pos.net * n)), d)
  <2>1. Times(net, avg) \in Fraction /\ Worth(Times(net, avg), net * x, d)
    BY <1>3, <1>8, TimesWorth
  <2>2. Times(pos.net, pos.avg) \in Fraction /\ Worth(Times(pos.net, pos.avg), pos.net * n, d)
    BY <1>1, <1>3, TimesWorth
  <2>3. PICK u \in Int : u = pos.net * n
    BY <1>1, <1>3
  <2>4. PICK v : v = Times(-1, Times(pos.net, pos.avg))
    OBVIOUS
  <2>5. v \in Fraction /\ Worth(v, (-1) * u, d)
    BY <1>3, <2>2, <2>3, <2>4, TimesWorth
  <2>6. PICK w \in Int : w = (-1) * u
    OBVIOUS
  <2>7. PICK y \in Int : y = net * x
    OBVIOUS
  <2>8. PICK sum : sum = Plus(Times(net, avg), v)
    OBVIOUS
  <2>9. sum \in Fraction /\ Worth(sum, y + w, d)
    BY <1>3, <2>1, <2>5, <2>6, <2>7, <2>8, PlusWorth
  <2>10. PICK t \in Int : t = y + w
    OBVIOUS
  <2>11. Worth(sum, t, d)
    BY <2>9, <2>10
  <2>12. paid \in Fraction /\ Worth(paid, k + t, d)
    BY <1>1, <1>3, <1>9, <2>4, <2>8, <2>9, <2>11, PlusWorth
  <2>13. k + t = k + (net * x + (-1) * (pos.net * n))
    BY <2>3, <2>6, <2>7, <2>10
  <2> QED BY <2>12, <2>13
<1>12. PICK l \in Int : l = k + (net * x + (-1) * (pos.net * n))
  BY <1>1, <1>3
<1>13. ~leaky => m + l = net * x
  BY <1>1, <1>3, <1>12
<1>14. Worth(paid, l, d)
  BY <1>11, <1>12
<1> QED BY <1>1, <1>3, <1>7, <1>8, <1>10, <1>11, <1>13, <1>14, StepBalances

LEMMA SplitBalances ==
  ASSUME AccountInv, NEW factor \in SplitFactors, Split(factor)
  PROVE  AccountInv'
<1>1. /\ pos.net \in Int /\ pos.avg \in Fraction /\ pos.avg.num >= 0 /\ pos.realized \in Fraction
      /\ outlay \in Fraction /\ leaky \in BOOLEAN
      /\ factor.num \in Nat \ {0} /\ factor.den \in Nat \ {0}
  BY AccountInputsAssumption DEF AccountInv, AccountType
<1>2. PICK n, m, k, d : AreNumerators(n, m, k, d)
  BY Numerators
<1>3. /\ d \in Nat \ {0} /\ n \in Nat /\ n \in Int /\ m \in Int /\ k \in Int
      /\ Worth(pos.avg, n, d) /\ Worth(pos.realized, m, d) /\ Worth(outlay, k, d)
      /\ ~leaky => m + k = pos.net * n
  BY <1>2 DEF AreNumerators
<1>4. PICK u \in Nat \ {0}, v \in Nat \ {0} : u = factor.num /\ v = factor.den
  BY <1>1
<1>5. PICK p : p = SplitPosition(pos, factor)
  OBVIOUS
<1>6. PICK avg : avg = IF pos.avg.num > 0 THEN Over(Times(v, pos.avg), u) ELSE pos.avg
  OBVIOUS
<1>7. PICK lots \in Int : lots = pos.net * u
  BY <1>1
<1>8. PICK q \in Int, r \in Int : q = lots \div v /\ r = lots % v /\ lots = v * q + r
  BY Division
<1>9. PICK net \in Int : net = RoundHalfEven(lots, v)
  BY <1>8 DEF RoundHalfEven
<1>10. /\ p = [net |-> p.net, avg |-> p.avg, realized |-> p.realized, lastPx |-> p.lastPx,
               fillsApplied |-> p.fillsApplied, adjustments |-> p.adjustments]
       /\ p.net = net /\ p.avg = avg /\ p.realized = pos.realized
  BY <1>4, <1>5, <1>6, <1>7, <1>9 DEF AccountInv, AccountType, SplitPosition
<1>11. PICK leak \in BOOLEAN : leak = (leaky \/ r # 0)
  OBVIOUS
<1>12. pos' = p /\ outlay' = outlay /\ leaky' = leak
  BY <1>4, <1>5, <1>7, <1>8, <1>11 DEF Split
<1>13. ~leak => net = q /\ v * net = pos.net * u
  <2> SUFFICES ASSUME ~leak PROVE net = q /\ v * net = pos.net * u
    OBVIOUS
  <2>1. r = 0
    BY <1>11
  <2>2. net = q
    BY <1>8, <1>9, <2>1 DEF RoundHalfEven
  <2> QED BY <1>7, <1>8, <2>1, <2>2
<1>14. CASE pos.avg.num > 0
  <2>1. PICK w \in Nat \ {0} : w = d * u
    <3>1. d * u \in Nat /\ d * u # 0
      BY <1>3
    <3> QED BY <3>1
  <2>2. PICK x \in Int : x \in Nat /\ x = v * n
    BY <1>3
  <2>3. avg \in Fraction /\ Worth(avg, x, w)
    <3>1. PICK t : t = Times(v, pos.avg)
      OBVIOUS
    <3>0. PICK f \in Int : f = v
      OBVIOUS
    <3>2. t \in Fraction /\ Worth(t, f * n, d)
      BY <1>1, <1>3, <3>0, <3>1, TimesWorth
    <3>3. Worth(t, x, d)
      BY <2>2, <3>0, <3>2
    <3> QED BY <1>3, <1>6, <1>14, <2>1, <3>1, <3>2, <3>3, OverWorth
  <2>4. PICK a \in Int, b \in Int : a = m * u /\ b = k * u
    BY <1>3
  <2>5. Worth(pos.realized, a, w) /\ Worth(outlay, b, w)
    BY <1>1, <1>3, <2>1, <2>4, WorthOverMore
  <2>6. ~leak => a + b = net * x
    <3> SUFFICES ASSUME ~leak PROVE a + b = net * x
      OBVIOUS
    <3>1. m + k = pos.net * n /\ v * net = pos.net * u
      BY <1>3, <1>11, <1>13
    <3>2. a + b = (m + k) * u
      BY <1>3, <2>4
    <3>3. (m + k) * u = (pos.net * n) * u
      BY <3>1
    <3>4. (pos.net * n) * u = (pos.net * u) * n
      BY <1>1, <1>3
    <3>5. (pos.net * u) * n = (v * net) * n
      BY <3>1
    <3>6. (v * net) * n = net * x
      BY <1>3, <2>2
    <3> QED BY <3>2, <3>3, <3>4, <3>5, <3>6
  <2> QED BY <1>1, <1>10, <1>12, <2>1, <2>2, <2>3, <2>4, <2>5, <2>6, StepBalances
<1>15. CASE ~(pos.avg.num > 0)
  <2>1. n = 0
    <3>1. pos.avg.num = 0 /\ pos.avg.num * d = n * pos.avg.den /\ pos.avg.den \in Nat \ {0}
      BY <1>1, <1>3, <1>15 DEF Worth, Fraction
    <3>2. n * pos.avg.den = 0 * pos.avg.den
      BY <1>3, <3>1
    <3> QED BY <1>3, <3>1, <3>2, Cancel
  <2>2. avg = pos.avg
    BY <1>6, <1>15
  <2>3. ~leak => m + k = net * n
    <3>1. pos.net * n = 0 /\ net * n = 0
      BY <1>1, <2>1
    <3> QED BY <1>3, <1>11, <3>1
  <2> QED BY <1>1, <1>3, <1>10, <1>12, <2>2, <2>3, StepBalances
<1> QED BY <1>14, <1>15

LEMMA DividendBalances ==
  ASSUME AccountInv, NEW perShare \in PerShares, Dividend(perShare)
  PROVE  AccountInv'
<1>1. /\ pos.net \in Int /\ pos.avg \in Fraction /\ pos.realized \in Fraction
      /\ outlay \in Fraction /\ leaky \in BOOLEAN /\ perShare \in Nat
  BY AccountInputsAssumption DEF AccountInv, AccountType
<1>2. PICK n, m, k, d : AreNumerators(n, m, k, d)
  BY Numerators
<1>3. /\ d \in Nat \ {0} /\ n \in Nat /\ n \in Int /\ m \in Int /\ k \in Int
      /\ Worth(pos.avg, n, d) /\ Worth(pos.realized, m, d) /\ Worth(outlay, k, d)
      /\ ~leaky => m + k = pos.net * n
  BY <1>2 DEF AreNumerators
<1>4. PICK long \in Int : long = Greater(0, pos.net)
  BY <1>1 DEF Greater
<1>5. PICK x \in Int : x = long * perShare
  BY <1>1
<1>6. PICK y \in Int : y = -long * perShare /\ y = -x
  BY <1>1, <1>5
<1>7. PICK p : p = PayDividend(pos, perShare)
  OBVIOUS
<1>8. /\ p = [net |-> p.net, avg |-> p.avg, realized |-> p.realized, lastPx |-> p.lastPx,
              fillsApplied |-> p.fillsApplied, adjustments |-> p.adjustments]
      /\ p.net = pos.net /\ p.avg = pos.avg /\ p.realized = Plus(pos.realized, Whole(x))
  BY <1>4, <1>5, <1>7 DEF AccountInv, AccountType, PayDividend
<1>9. PICK paid : paid = Plus(outlay, Whole(y))
  OBVIOUS
<1>10. pos' = p /\ outlay' = paid /\ leaky' = leaky
  BY <1>4, <1>6, <1>7, <1>9 DEF Dividend
<1>11. PICK a \in Int, b \in Int : a = m + x * d /\ b = k + y * d
  BY <1>3
<1>12. p.realized \in Fraction /\ Worth(p.realized, a, d)
  <2>1. Whole(x) \in Fraction /\ Worth(Whole(x), x * d, d)
    BY <1>3, WorthOfWhole
  <2>2. PICK z \in Int : z = x * d
    BY <1>3
  <2>3. Plus(pos.realized, Whole(x)) \in Fraction /\ Worth(Plus(pos.realized, Whole(x)), m + z, d)
    BY <1>1, <1>3, <2>1, <2>2, PlusWorth
  <2> QED BY <1>8, <1>11, <2>2, <2>3
<1>13. paid \in Fraction /\ Worth(paid, b, d)
  <2>1. Whole(y) \in Fraction /\ Worth(Whole(y), y * d, d)
    BY <1>3, WorthOfWhole
  <2>2. PICK z \in Int : z = y * d
    BY <1>3
  <2>3. Plus(outlay, Whole(y)) \in Fraction /\ Worth(Plus(outlay, Whole(y)), k + z, d)
    BY <1>1, <1>3, <2>1, <2>2, PlusWorth
  <2> QED BY <1>9, <1>11, <2>2, <2>3
<1>14. ~leaky => a + b = pos.net * n
  <2>1. PICK w \in Int, z \in Int : w = x * d /\ z = y * d
    BY <1>3
  <2>2. (-x) * d = -(x * d)
    BY <1>3
  <2>3. z = -w
    BY <1>6, <2>1, <2>2
  <2>4. a + b = m + k
    BY <1>3, <1>11, <2>1, <2>3
  <2> QED BY <1>3, <2>4
<1> QED BY <1>1, <1>3, <1>8, <1>10, <1>12, <1>13, <1>14, StepBalances

LEMMA NextAccount == AccountInv /\ [AccountNext]_accountVars => AccountInv'
<1> SUFFICES ASSUME AccountInv, [AccountNext]_accountVars PROVE AccountInv'
  OBVIOUS
<1>1. CASE UNCHANGED accountVars
  BY <1>1 DEF accountVars, AccountInv, AccountType, BooksBalance, BookValue
<1>2. CASE AccountNext
  BY <1>2, FillBalances, AdjustBalances, SplitBalances, DividendBalances DEF AccountNext, AnyFill
<1> QED BY <1>1, <1>2

\* Double entry, for any sizes, prices, corrections, splits and dividends in any order: what
\* was realized and what was paid is what the open lots are carried at, until a fill
\* takes away half of a position or more and leaves some, or a split rounds lots
\* (posk/models.py:295-379).
THEOREM BooksAlwaysBalance == AccountSpec => []BooksBalance
<1>1. AccountInv => BooksBalance
  BY DEF AccountInv
<1> QED BY <1>1, InitAccount, NextAccount, PTL DEF AccountSpec

===========================================================================
