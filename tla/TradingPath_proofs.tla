------------------------- MODULE TradingPath_proofs -------------------------
(***************************************************************************)
(* The position cap of the risk manager at the venue, for any number of    *)
(* clients, requests, fills, restarts and overlapping polls, as long as    *)
(* the dedup set of the ingest loop has room for every fill.               *)
(*                                                                         *)
(* What carries the argument is a sum: the exposure of S5 is the total of  *)
(* the lots of the fills it has seen, whatever the order they were seen    *)
(* in, so once it has seen them all its exposure is what the fills of S4   *)
(* amount to, and the verdict on the projected position is about them.     *)
(*                                                                         *)
(* And the analytics of S9, the other follower of the book: what it shows  *)
(* of one listing is one set of numbers, however each is computed.         *)
(***************************************************************************)
EXTENDS TradingPath, Portfolio, Induction, SequenceTheorems, FiniteSetTheorems

Cap == DefaultScalars["positionQty"]

Fill == [id : Nat \ {0}, symbol : Symbols, side : {"BUY", "SELL"}, qty : Nat \ {0}, price : Nat]

LotsOf(r) == Risk!Signed(r.side, r.qty)

\* The lots of symbol s, fill by fill, and those of the fills in ids only.
Lots(fs, s) == [n \in 1..Len(fs) |-> IF fs[n].symbol = s THEN LotsOf(fs[n]) ELSE 0]
Taken(fs, ids, s) == [n \in 1..Len(fs) |-> IF n \in ids THEN Lots(fs, s)[n] ELSE 0]

NetAtVenue(s) == Total(Lots(fills, s), Len(fills))

PathType ==
  /\ fills \in Seq(Fill) /\ Len(fills) <= MaxFills
  /\ \A n \in 1..Len(fills) : fills[n].id = n
  /\ batch \in Seq(Fill)
  /\ \A k \in 1..Len(batch) : \E n \in 1..Len(fills) : batch[k] = fills[n]
  /\ seen \subseteq 1..Len(fills)
  /\ holds \in [Clients -> Requests \cup {None}]
  /\ unguarded \in BOOLEAN
  /\ limits = Risk!NoLimitChange
  /\ \A s \in DOMAIN positions : "net" \in DOMAIN positions[s]

ExposureIsSeen ==
  \A s \in Symbols : Risk!PositionOf(s).net = Total(Taken(fills, seen, s), Len(fills))

\* One order at most is on its way, and it was judged against the fills there are.
OrdersAreGuarded ==
  \A c \in Clients :
    holds[c] # None =>
      /\ \A d \in Clients \ {c} : holds[d] = None
      /\ Risk!Magnitude(NetAtVenue(holds[c].symbol) + LotsOf(holds[c])) <= Cap

VenueIsCapped == \A s \in Symbols : Risk!Magnitude(NetAtVenue(s)) <= Cap

PathInv ==
  /\ PathType /\ ExposureIsSeen
  /\ ~unguarded => OrdersAreGuarded /\ VenueIsCapped

---------------------------------------------------------------------------
LEMMA CapType == Cap \in Nat /\ Risk!Magnitude(0) <= Cap
BY RiskAssumption DEF Cap, Risk!ConfigAssumption, Risk!ValidRiskConfig, Risk!ScalarKeys, Risk!Magnitude

LEMMA RequestType ==
  ASSUME NEW r \in Requests
  PROVE  /\ r.symbol \in Symbols /\ r.side \in {"BUY", "SELL"} /\ r.qty \in Nat \ {0} /\ r.px \in Nat
         /\ LotsOf(r) \in Int
BY RiskAssumption DEF Risk!RequestsAssumption, Risk!Request, LotsOf, Risk!Signed

\* The lots are numbers, of all fills and of some.
LEMMA LotsType ==
  ASSUME NEW fs \in Seq(Fill), NEW ids, NEW s
  PROVE  \A n \in 1..Len(fs) : Lots(fs, s)[n] \in Int /\ Taken(fs, ids, s)[n] \in Int
<1>1. ASSUME NEW n \in 1..Len(fs) PROVE LotsOf(fs[n]) \in Int
  <2>1. fs[n] \in Fill
    BY ElementOfSeq
  <2> QED BY <2>1 DEF Fill, LotsOf, Risk!Signed
<1> QED BY <1>1 DEF Lots, Taken

LEMMA NetType ==
  ASSUME PathType, NEW s
  PROVE  NetAtVenue(s) \in Int
<1>1. Len(fills) \in Nat /\ \A n \in 1..Len(fills) : Lots(fills, s)[n] \in Int
  BY LotsType, LenProperties DEF PathType
<1>2. PICK f \in [0..Len(fills) -> Int] : IsSums(f, Lots(fills, s), Len(fills))
  BY <1>1, SumsExist
<1> QED BY <1>1, <1>2, TotalIs DEF NetAtVenue

\* The recursion of VenueNet gives the total.
LEMMA VenueNetIsTotal ==
  ASSUME PathType, NEW s
  PROVE  VenueNet(s) = NetAtVenue(s)
<1> DEFINE n == Len(fills)
           d == Lots(fills, s)
           rec(net) == [m \in 0..n |->
                          IF m = 0 THEN 0
                          ELSE net[m - 1] + IF fills[m].symbol = s
                                            THEN Risk!Signed(fills[m].side, fills[m].qty) ELSE 0]
           net == CHOOSE net : net = rec(net)
<1>1. n \in Nat /\ \A m \in 1..n : d[m] \in Int
  BY LotsType, LenProperties DEF PathType
<1>2. \A m \in 1..n : d[m] = IF fills[m].symbol = s
                             THEN Risk!Signed(fills[m].side, fills[m].qty) ELSE 0
  BY DEF Lots, LotsOf
<1>3. VenueNet(s) = net[n]
  BY DEF VenueNet
<1>4. PICK f \in [0..n -> Int] : IsSums(f, d, n)
  BY <1>1, SumsExist
<1> HIDE DEF d, n
<1>5. f = rec(f)
  BY <1>1, <1>2, <1>4 DEF IsSums
<1>6. net = rec(net)
  <2>1. \E g : g = rec(g)
    BY <1>5
  <2> HIDE DEF rec
  <2> QED BY <2>1
<1>7. IsSums(net, d, n)
  <2> HIDE DEF net
  <2> QED BY <1>1, <1>2, <1>6 DEF IsSums
<1> HIDE DEF net
<1> QED BY <1>1, <1>3, <1>7, TotalIs DEF NetAtVenue, n, d

LEMMA InitPath == Init => PathInv
<1> SUFFICES ASSUME Init PROVE PathInv
  OBVIOUS
<1>1. /\ fills = <<>> /\ batch = <<>> /\ seen = {} /\ holds = [c \in Clients |-> None]
      /\ unguarded = FALSE /\ limits = Risk!NoLimitChange /\ positions = <<>>
  BY DEF Init, Risk!Init
<1>2. PathType
  <2>1. /\ fills \in Seq(Fill) /\ batch \in Seq(Fill) /\ Len(fills) = 0 /\ Len(batch) = 0
        /\ DOMAIN positions = {} /\ seen = {}
    BY <1>1, EmptySeq
  <2>2. holds \in [Clients -> Requests \cup {None}]
    BY <1>1
  <2>3. Len(fills) <= MaxFills
    <3>1. MaxFills \in Nat
      BY PathAssumption
    <3> QED BY <2>1, <3>1
  <2>4. 1..Len(fills) = {} /\ 1..Len(batch) = {}
    BY <2>1
  <2> QED BY <1>1, <2>1, <2>2, <2>3, <2>4 DEF PathType
<1>3. ASSUME NEW d PROVE Total(d, Len(fills)) = 0
  BY <1>1, TotalOfNone
<1>4. ExposureIsSeen
  BY <1>1, <1>3 DEF ExposureIsSeen, Risk!PositionOf, Risk!FlatPosition
<1>5. OrdersAreGuarded /\ VenueIsCapped
  BY <1>1, <1>3, CapType DEF OrdersAreGuarded, VenueIsCapped, NetAtVenue
<1> QED BY <1>2, <1>4, <1>5 DEF PathInv

---------------------------------------------------------------------------
\* A check

\* An allowed order leaves the exposure that S5 projects within the cap.
LEMMA AllowedIsWithinCap ==
  ASSUME PathInv, NEW r \in Requests, Risk!Allowed(r)
  PROVE  Risk!Magnitude(Risk!PositionOf(r.symbol).net + LotsOf(r)) <= Cap
<1>1. 7 \in DOMAIN Risk!Checks /\ Risk!Checks[7] = "position_limit"
  BY DEF Risk!Checks
<1>2. Risk!Verdict("position_limit", r) # "HARD"
  BY <1>1 DEF Risk!Allowed, Risk!Vetoed
<1>3. Risk!Verdict("position_limit", r)
        = Risk!HardIf(Risk!Magnitude(Risk!ProjectedNet(r)) > Risk!LimitFor(r.symbol, "positionQty"))
  BY DEF Risk!Verdict
<1>4. ~(Risk!Magnitude(Risk!ProjectedNet(r)) > Risk!LimitFor(r.symbol, "positionQty"))
  BY <1>2, <1>3 DEF Risk!HardIf
<1>5. Risk!LimitFor(r.symbol, "positionQty") = Cap
  BY DEF PathInv, PathType, Risk!LimitFor, Risk!NoLimitChange, Cap
<1>6. Risk!ProjectedNet(r) = Risk!PositionOf(r.symbol).net + LotsOf(r)
  BY DEF Risk!ProjectedNet, LotsOf
<1>7. Risk!ProjectedNet(r) \in Int
  <2>1. /\ r.symbol \in Symbols /\ Len(fills) \in Nat
        /\ \A n \in 1..Len(fills) : Taken(fills, seen, r.symbol)[n] \in Int
    BY RequestType, LotsType, LenProperties DEF PathInv, PathType
  <2>2. PICK f \in [0..Len(fills) -> Int] : IsSums(f, Taken(fills, seen, r.symbol), Len(fills))
    BY <2>1, SumsExist
  <2>3. Risk!PositionOf(r.symbol).net \in Int
    BY <2>1, <2>2, TotalIs DEF PathInv, ExposureIsSeen
  <2> QED BY <1>6, <2>3, RequestType
<1>8. Risk!Magnitude(Risk!ProjectedNet(r)) \in Int
  BY <1>7 DEF Risk!Magnitude
<1> QED BY <1>4, <1>5, <1>6, <1>8, CapType

\* Once every fill has been seen, the exposure is what the fills amount to.
LEMMA SettledKnows ==
  ASSUME PathInv, Settled, NEW s \in Symbols
  PROVE  Risk!PositionOf(s).net = NetAtVenue(s)
<1>1. /\ Len(fills) \in Nat /\ DOMAIN fills = 1..Len(fills)
      /\ \A n \in 1..Len(fills) : fills[n].id = n
  BY LenProperties DEF PathInv, PathType
<1>2. \A n \in 1..Len(fills) : n \in seen
  BY <1>1 DEF Settled
<1>3. \A n \in 1..Len(fills) : /\ Lots(fills, s)[n] \in Int
                               /\ Taken(fills, seen, s)[n] = Lots(fills, s)[n]
  BY <1>2, LotsType DEF Taken, PathInv, PathType
<1>4. Total(Taken(fills, seen, s), Len(fills)) = Total(Lots(fills, s), Len(fills))
  BY <1>1, <1>3, TotalOfSame
<1> QED BY <1>4 DEF PathInv, ExposureIsSeen, NetAtVenue

LEMMA CheckMovesNoNet ==
  ASSUME PathInv, NEW r \in Requests, Risk!PreTradeCheck(r)
  PROVE  /\ UNCHANGED <<limits, seen>>
         /\ \A s : Risk!PositionOf(s)'.net = Risk!PositionOf(s).net
         /\ \A s \in DOMAIN positions' : "net" \in DOMAIN positions'[s]
<1>0. \A s \in DOMAIN positions : "net" \in DOMAIN positions[s]
  BY DEF PathInv, PathType
<1>1. CASE Risk!RefuseWhileEngaged(r)
  BY <1>0, <1>1 DEF Risk!RefuseWhileEngaged, Risk!PositionOf
<1>2. CASE Risk!CheckOrder(r)
  <2>1. /\ positions' = Risk!Updated(Risk!Single(r.symbol, Risk!FlatPosition), positions)
        /\ UNCHANGED <<limits, seen>>
    BY <1>2 DEF Risk!CheckOrder
  <2>2. /\ DOMAIN positions' = DOMAIN positions \cup {r.symbol}
        /\ \A s \in DOMAIN positions' :
             positions'[s] = IF s \in DOMAIN positions THEN positions[s] ELSE Risk!FlatPosition
    BY <2>1 DEF Risk!Updated, Risk!Single
  <2>3. "net" \in DOMAIN Risk!FlatPosition /\ Risk!FlatPosition.net = 0
    BY DEF Risk!FlatPosition
  <2> QED BY <1>0, <2>1, <2>2, <2>3 DEF Risk!PositionOf
<1> QED BY <1>1, <1>2 DEF Risk!PreTradeCheck

LEMMA AskPath ==
  ASSUME PathInv, NEW c \in Clients, NEW r \in Requests, Ask(c, r)
  PROVE  PathInv'
<1>1. /\ holds[c] = None /\ UNCHANGED <<fills, batch, limits, seen>>
      /\ holds' = [holds EXCEPT ![c] = IF Risk!Allowed(r) THEN r ELSE None]
      /\ unguarded' = (unguarded \/ (Risk!Allowed(r) /\ ~Settled))
      /\ \A s : Risk!PositionOf(s)'.net = Risk!PositionOf(s).net
      /\ \A s \in DOMAIN positions' : "net" \in DOMAIN positions'[s]
  BY CheckMovesNoNet DEF Ask
<1>2. PathType'
  BY <1>1 DEF PathInv, PathType
<1>3. ExposureIsSeen'
  BY <1>1 DEF PathInv, ExposureIsSeen
<1>4. \A s : NetAtVenue(s)' = NetAtVenue(s)
  BY <1>1 DEF NetAtVenue
<1>5. ASSUME ~unguarded' PROVE OrdersAreGuarded' /\ VenueIsCapped'
  <2>1. ~unguarded /\ OrdersAreGuarded /\ VenueIsCapped /\ holds \in [Clients -> Requests \cup {None}]
    BY <1>1, <1>5 DEF PathInv, PathType
  <2>2. VenueIsCapped'
    BY <1>4, <2>1 DEF VenueIsCapped
  <2>3. CASE ~Risk!Allowed(r)
    <3>1. holds' = holds
      BY <1>1, <2>1, <2>3
    <3> QED BY <1>4, <2>1, <2>2, <3>1 DEF OrdersAreGuarded
  <2>4. CASE Risk!Allowed(r)
    <3>1. Settled
      BY <1>1, <1>5, <2>4
    <3>2. Risk!Magnitude(NetAtVenue(r.symbol) + LotsOf(r)) <= Cap
      BY <2>4, <3>1, AllowedIsWithinCap, SettledKnows, RequestType
    <3>3. holds' = [d \in Clients |-> IF d = c THEN r ELSE None]
      BY <1>1, <2>1, <2>4, <3>1 DEF Settled
    <3> QED BY <1>4, <2>2, <3>2, <3>3 DEF OrdersAreGuarded
  <2> QED BY <2>3, <2>4
<1> QED BY <1>2, <1>3, <1>5 DEF PathInv

---------------------------------------------------------------------------
\* A fill

\* One fill more, of a request r.
LEMMA ExecutePath ==
  ASSUME PathInv, NEW r \in Requests, Execute(r)
  PROVE  /\ Len(fills) \in Nat /\ Len(fills) + 1 <= MaxFills /\ UNCHANGED <<batch, seen, limits, positions>>
         /\ fills' \in Seq(Fill) /\ Len(fills') = Len(fills) + 1
         /\ \A n \in 1..Len(fills) : fills'[n] = fills[n]
         /\ \A n \in 1..Len(fills') : fills'[n].id = n
         /\ ExposureIsSeen'
         /\ \A s : Total(Lots(fills', s), Len(fills'))
                  = NetAtVenue(s) + IF r.symbol = s THEN LotsOf(r) ELSE 0
<1> DEFINE n == Len(fills)
           new == FillOf(n + 1, r)
<1>1. /\ n \in Nat /\ n < MaxFills /\ fills \in Seq(Fill) /\ seen \subseteq 1..n
      /\ \A m \in 1..n : fills[m].id = m
  BY LenProperties DEF PathInv, PathType, Execute
<1>2. fills' = Append(fills, new) /\ UNCHANGED <<batch, seen, limits, positions>>
  BY DEF Execute, riskVars
<1>3. new \in Fill /\ new.id = n + 1 /\ LotsOf(new) = LotsOf(r) /\ new.symbol = r.symbol
  BY <1>1, RequestType DEF FillOf, Fill, LotsOf
<1> HIDE DEF new
<1>4. /\ fills' \in Seq(Fill) /\ Len(fills') = n + 1 /\ fills'[n + 1] = new
      /\ \A m \in 1..n : fills'[m] = fills[m]
  BY <1>1, <1>2, <1>3, AppendProperties
<1>5. \A m \in 1..(n + 1) : m \in 1..n \/ m = n + 1
  BY <1>1
<1>6. \A m \in 1..Len(fills') : fills'[m].id = m
  BY <1>1, <1>3, <1>4, <1>5
<1> HIDE DEF n
<1>7. ASSUME NEW s
      PROVE  Total(Lots(fills', s), n + 1) = NetAtVenue(s) + IF r.symbol = s THEN LotsOf(r) ELSE 0
  <2>1. \A m \in 1..(n + 1) : Lots(fills', s)[m] \in Int
    BY <1>4, LotsType
  <2>2. /\ \A m \in 1..n : Lots(fills, s)[m] \in Int /\ Lots(fills', s)[m] = Lots(fills, s)[m]
        /\ Lots(fills', s)[n + 1] = IF r.symbol = s THEN LotsOf(r) ELSE 0
    <3>1. \A m \in 1..n : Lots(fills, s)[m] \in Int
      BY <1>1, LotsType DEF n
    <3>2. DOMAIN Lots(fills', s) = 1..(n + 1) /\ 1..Len(fills) = 1..n /\ n + 1 \in 1..(n + 1)
          /\ 1..n \subseteq 1..(n + 1)
      BY <1>1, <1>4 DEF Lots, n
    <3> QED BY <1>3, <1>4, <3>1, <3>2 DEF Lots
  <2>3. Total(Lots(fills', s), n) = Total(Lots(fills, s), n)
    BY <1>1, <2>2, TotalOfSame
  <2>4. Total(Lots(fills', s), n + 1) = Total(Lots(fills', s), n) + Lots(fills', s)[n + 1]
    BY <1>1, <2>1, TotalOfMore
  <2> QED BY <2>2, <2>3, <2>4 DEF NetAtVenue, n
<1>8. ExposureIsSeen'
  <2> SUFFICES ASSUME NEW s \in Symbols
               PROVE  Risk!PositionOf(s)'.net = Total(Taken(fills', seen, s), n + 1)
    BY <1>2, <1>4 DEF ExposureIsSeen
  <2>1. \A m \in 1..(n + 1) : Taken(fills', seen, s)[m] \in Int
    BY <1>4, LotsType
  <2>2. \A m \in 1..n : Taken(fills, seen, s)[m] \in Int
    BY <1>1, LotsType DEF n
  <2>3. /\ \A m \in 1..n : Taken(fills', seen, s)[m] = Taken(fills, seen, s)[m]
        /\ Taken(fills', seen, s)[n + 1] = 0
    <3>1. /\ 1..Len(fills') = 1..(n + 1) /\ 1..Len(fills) = 1..n /\ n + 1 \in 1..(n + 1)
          /\ 1..n \subseteq 1..(n + 1) /\ n + 1 \notin seen
      BY <1>1, <1>4 DEF n
    <3> QED BY <1>4, <3>1 DEF Taken, Lots
  <2>4. Total(Taken(fills', seen, s), n) = Total(Taken(fills, seen, s), n)
    BY <1>1, <2>2, <2>3, TotalOfSame
  <2>5. Total(Taken(fills', seen, s), n + 1) = Total(Taken(fills', seen, s), n) + 0
    BY <1>1, <2>1, <2>3, TotalOfMore
  <2>6. Total(Taken(fills, seen, s), n) \in Int
    BY <1>1, <2>2, SumsExist, TotalIs
  <2>7. Risk!PositionOf(s)'.net = Risk!PositionOf(s).net
    BY <1>2 DEF Risk!PositionOf
  <2> QED BY <2>4, <2>5, <2>6, <2>7 DEF PathInv, ExposureIsSeen, n
<1>9. \A s : Total(Lots(fills', s), Len(fills')) = NetAtVenue(s) + IF r.symbol = s THEN LotsOf(r) ELSE 0
  BY <1>4, <1>7
<1>10. n \in Nat /\ n + 1 <= MaxFills
  <2>1. MaxFills \in Nat
    BY PathAssumption
  <2> QED BY <1>1, <2>1
<1> QED BY <1>2, <1>4, <1>6, <1>8, <1>9, <1>10 DEF n

LEMMA ExecuteType ==
  ASSUME PathInv, NEW r \in Requests, Execute(r),
         holds' \in [Clients -> Requests \cup {None}], unguarded' \in BOOLEAN
  PROVE  PathType' /\ ExposureIsSeen'
<1>1. /\ Len(fills) \in Nat /\ Len(fills) + 1 <= MaxFills /\ UNCHANGED <<batch, seen, limits, positions>>
      /\ fills' \in Seq(Fill) /\ Len(fills') = Len(fills) + 1
      /\ \A n \in 1..Len(fills) : fills'[n] = fills[n]
      /\ \A n \in 1..Len(fills') : fills'[n].id = n
      /\ ExposureIsSeen'
  BY ExecutePath
<1>2. 1..Len(fills) \subseteq 1..Len(fills')
  BY <1>1
<1> QED BY <1>1, <1>2 DEF PathInv, PathType

LEMMA PostPath ==
  ASSUME PathInv, NEW c \in Clients, Post(c)
  PROVE  PathInv'
<1> DEFINE r == holds[c]
<1>1. r \in Requests /\ Execute(r) /\ unguarded' = unguarded /\ holds' = [holds EXCEPT ![c] = None]
  BY DEF Post, PathInv, PathType
<1>2. holds \in [Clients -> Requests \cup {None}] /\ unguarded \in BOOLEAN /\ r # None
  BY DEF PathInv, PathType, Post
<1>3. PathType' /\ ExposureIsSeen'
  BY <1>1, <1>2, ExecuteType
<1>4. \A s : NetAtVenue(s)' = NetAtVenue(s) + IF r.symbol = s THEN LotsOf(r) ELSE 0
  BY <1>1, ExecutePath DEF NetAtVenue
<1>5. ASSUME ~unguarded' PROVE OrdersAreGuarded' /\ VenueIsCapped'
  <2>1. /\ OrdersAreGuarded /\ VenueIsCapped
        /\ \A d \in Clients \ {c} : holds[d] = None
        /\ Risk!Magnitude(NetAtVenue(r.symbol) + LotsOf(r)) <= Cap
    BY <1>1, <1>2, <1>5 DEF PathInv, OrdersAreGuarded
  <2>2. \A d \in Clients : holds'[d] = None
    BY <1>1, <1>2, <2>1
  <2>3. ASSUME NEW s \in Symbols PROVE Risk!Magnitude(NetAtVenue(s)') <= Cap
    <3>1. CASE r.symbol = s
      BY <1>4, <2>1, <3>1
    <3>2. CASE r.symbol # s
      <4>1. NetAtVenue(s)' = NetAtVenue(s)
        <5>1. NetAtVenue(s) \in Int
          BY NetType DEF PathInv
        <5> QED BY <1>4, <3>2, <5>1
      <4> QED BY <2>1, <4>1 DEF VenueIsCapped
    <3> QED BY <3>1, <3>2
  <2> QED BY <2>2, <2>3 DEF OrdersAreGuarded, VenueIsCapped
<1> QED BY <1>3, <1>5 DEF PathInv

LEMMA StrategyPushPath ==
  ASSUME PathInv, NEW r \in Requests, StrategyPush(r)
  PROVE  PathInv'
<1>1. Execute(r) /\ unguarded' = TRUE /\ holds' \in [Clients -> Requests \cup {None}]
  BY DEF StrategyPush, PathInv, PathType
<1> QED BY <1>1, ExecuteType DEF PathInv

---------------------------------------------------------------------------
\* The ingest loop

LEMMA PollPath ==
  ASSUME PathInv, Poll
  PROVE  PathInv'
<1> DEFINE n == Len(fills)
           m == Risk!Lesser(PollLimit, n)
<1>1. n \in Nat /\ fills \in Seq(Fill) /\ PollLimit \in Nat
  BY LenProperties, PathAssumption DEF PathInv, PathType
<1>2. m \in Nat /\ m <= n
  BY <1>1 DEF Risk!Lesser
<1>3. /\ batch' = [k \in 1..m |-> fills[n + 1 - k]]
      /\ UNCHANGED <<fills, seen, positions, limits, holds, unguarded>>
  BY DEF Poll, riskVars
<1> HIDE DEF m
<1>4. \A k \in 1..m : n + 1 - k \in 1..n
  BY <1>1, <1>2
<1>5. \A k \in 1..m : fills[n + 1 - k] \in Fill
  BY <1>1, <1>4, ElementOfSeq
<1>6. batch' \in Seq(Fill) /\ Len(batch') = m
  <2>1. batch' \in [1..m -> Fill]
    BY <1>3, <1>5
  <2> QED BY <1>2, <2>1, SeqDef, LenProperties
<1>7. \A k \in 1..Len(batch') : \E j \in 1..n : batch'[k] = fills[j]
  BY <1>3, <1>4, <1>6
<1>8. PathType'
  BY <1>3, <1>6, <1>7 DEF PathInv, PathType
<1>9. ExposureIsSeen' /\ (~unguarded' => OrdersAreGuarded' /\ VenueIsCapped')
  BY <1>3 DEF PathInv, ExposureIsSeen, OrdersAreGuarded, VenueIsCapped, NetAtVenue, Risk!PositionOf
<1> QED BY <1>8, <1>9 DEF PathInv

LEMMA CountTo ==
  ASSUME NEW n \in Nat
  PROVE  IsFiniteSet(1..n) /\ Cardinality(1..n) = n
BY FS_Interval

\* With room for every fill the dedup set only grows.
LEMMA SeenGrows ==
  ASSUME PathInv, MaxFills <= SeenCap, NEW m \in 1..Len(fills), NEW f, f.id = m, Risk!IngestFill(f)
  PROVE  seen' = seen \cup {m}
<1> DEFINE grown == seen \cup {m}
<1>1. grown \subseteq 1..Len(fills) /\ Len(fills) \in Nat /\ Len(fills) <= MaxFills
  BY LenProperties DEF PathInv, PathType
<1>2. IsFiniteSet(grown) /\ Cardinality(grown) \in Nat /\ Cardinality(grown) <= Len(fills)
  <2>1. IsFiniteSet(1..Len(fills)) /\ Cardinality(1..Len(fills)) = Len(fills)
    BY <1>1, CountTo
  <2> HIDE DEF grown
  <2> QED BY <1>1, <2>1, FS_Subset, FS_CardinalityType
<1>3. Risk!Cardinality(grown) = Cardinality(grown)
  BY DEF Risk!Cardinality, Cardinality
<1>4. MaxFills \in Nat /\ SeenCap \in Nat
  BY PathAssumption, RiskAssumption DEF Risk!ConfigAssumption
<1>5. ~(Risk!Cardinality(grown) > SeenCap)
  <2> HIDE DEF grown
  <2> QED BY <1>1, <1>2, <1>3, <1>4
<1>6. IF Risk!Cardinality(grown) > SeenCap
      THEN \E kept \in SUBSET grown : Risk!Cardinality(kept) = SeenKeep /\ seen' = kept
      ELSE seen' = grown
  BY DEF Risk!IngestFill
<1> QED BY <1>5, <1>6

\* A fill not seen before moves the exposure of its symbol by its lots.
LEMMA IngestMovesNet ==
  ASSUME PathInv, NEW f \in Fill, Risk!IngestFill(f)
  PROVE  /\ UNCHANGED limits
         /\ \A s \in DOMAIN positions' : "net" \in DOMAIN positions'[s]
         /\ \A s : Risk!PositionOf(s)'.net
                  = IF s = f.symbol THEN Risk!PositionOf(s).net + LotsOf(f) ELSE Risk!PositionOf(s).net
<1>1. /\ positions' = Risk!Updated(positions, Risk!Single(f.symbol, Risk!Filled(f)))
      /\ UNCHANGED limits
  BY DEF Risk!IngestFill
<1>2. /\ DOMAIN positions' = DOMAIN positions \cup {f.symbol}
      /\ \A s \in DOMAIN positions' :
           positions'[s] = IF s = f.symbol THEN Risk!Filled(f) ELSE positions[s]
  BY <1>1 DEF Risk!Updated, Risk!Single
<1>3. \A s \in DOMAIN positions : "net" \in DOMAIN positions[s]
  BY DEF PathInv, PathType
<1>4. "net" \in DOMAIN Risk!PositionOf(f.symbol)
  BY <1>3 DEF Risk!PositionOf, Risk!FlatPosition
<1>5. /\ "net" \in DOMAIN Risk!Filled(f)
      /\ Risk!Filled(f).net = Risk!PositionOf(f.symbol).net + LotsOf(f)
  BY <1>4 DEF Risk!Filled, Risk!FillPosition, LotsOf
<1> QED BY <1>1, <1>2, <1>3, <1>5 DEF Risk!PositionOf

LEMMA IngestNextPath ==
  ASSUME PathInv, MaxFills <= SeenCap, IngestNext
  PROVE  PathInv'
<1> DEFINE f == Head(batch)
<1>1. /\ batch # <<>> /\ batch' = Tail(batch) /\ UNCHANGED <<holds, fills, unguarded>>
      /\ IF f.id \in seen THEN UNCHANGED riskVars ELSE Risk!IngestFill(f)
  BY DEF IngestNext
<1>2. batch \in Seq(Fill) /\ Len(batch) \in Nat /\ Len(fills) \in Nat /\ fills \in Seq(Fill)
  BY LenProperties DEF PathInv, PathType
<1>3. /\ f \in Fill /\ f = batch[1] /\ 1 \in 1..Len(batch) /\ batch' \in Seq(Fill)
      /\ \A k \in 1..Len(batch') : k + 1 \in 1..Len(batch) /\ batch'[k] = batch[k + 1]
  <2>1. batch' \in Seq(Fill) /\ Len(batch') = Len(batch) - 1 /\ f = batch[1] /\ Len(batch) # 0
    BY <1>1, <1>2, HeadTailProperties, EmptySeq
  <2>2. 1 \in 1..Len(batch)
    BY <1>2, <2>1
  <2>3. \A k \in 1..(Len(batch) - 1) : Tail(batch)[k] = batch[k + 1]
    BY <1>1, <1>2, HeadTailProperties
  <2> QED BY <1>1, <1>2, <2>1, <2>2, <2>3, ElementOfSeq
<1>4. PICK m \in 1..Len(fills) : f = fills[m] /\ f.id = m
  BY SMTT(30), <1>3 DEF PathInv, PathType
<1>5. \A k \in 1..Len(batch') : \E n \in 1..Len(fills) : batch'[k] = fills[n]
  BY <1>3 DEF PathInv, PathType
<1> HIDE DEF f
<1>6. ~unguarded' => OrdersAreGuarded' /\ VenueIsCapped'
  BY <1>1 DEF PathInv, OrdersAreGuarded, VenueIsCapped, NetAtVenue
<1>7. CASE f.id \in seen
  <2>1. UNCHANGED <<positions, seen, limits>>
    BY <1>1, <1>7 DEF riskVars
  <2>2. PathType' /\ ExposureIsSeen'
    BY <1>1, <1>3, <1>5, <2>1 DEF PathInv, PathType, ExposureIsSeen, Risk!PositionOf
  <2> QED BY <1>6, <2>2 DEF PathInv
<1>8. CASE f.id \notin seen
  <2>1. Risk!IngestFill(f) /\ m \notin seen
    BY <1>1, <1>4, <1>8
  <2>2. seen' = seen \cup {m}
    BY <1>4, <2>1, SeenGrows
  <2>3. /\ UNCHANGED limits
        /\ \A s \in DOMAIN positions' : "net" \in DOMAIN positions'[s]
        /\ \A s : Risk!PositionOf(s)'.net
                 = IF s = f.symbol THEN Risk!PositionOf(s).net + LotsOf(f) ELSE Risk!PositionOf(s).net
    BY <1>3, <2>1, IngestMovesNet
  <2>4. PathType'
    BY <1>1, <1>3, <1>5, <2>2, <2>3 DEF PathInv, PathType
  <2>5. ASSUME NEW s \in Symbols
        PROVE  Risk!PositionOf(s)'.net = Total(Taken(fills, seen', s), Len(fills))
    <3> DEFINE d == Taken(fills, seen, s)
               e == Taken(fills, seen', s)
               v == Lots(fills, s)[m]
    <3>1. v \in Int /\ \A n \in 1..Len(fills) : d[n] \in Int
      BY <1>2, LotsType
    <3>2. \A n \in 1..Len(fills) : e[n] = IF n = m THEN d[n] + v ELSE d[n]
      <4>1. d[m] = 0 /\ e[m] = v
        BY <2>1, <2>2 DEF Taken
      <4>2. \A n \in 1..Len(fills) : n # m => e[n] = d[n]
        BY <2>2 DEF Taken
      <4> HIDE DEF d, e, v
      <4> QED BY <3>1, <4>1, <4>2
    <3>3. v = IF s = f.symbol THEN LotsOf(f) ELSE 0
      BY <1>4 DEF Lots
    <3> HIDE DEF d, e, v
    <3>4. Total(e, Len(fills)) = Total(d, Len(fills)) + v
      BY <1>2, <3>1, <3>2, TotalOfChange
    <3>5. Risk!PositionOf(s).net = Total(d, Len(fills)) /\ Total(d, Len(fills)) \in Int
      <4>1. Risk!PositionOf(s).net = Total(d, Len(fills))
        BY DEF PathInv, ExposureIsSeen, d
      <4> QED BY <1>2, <3>1, <4>1, SumsExist, TotalIs
    <3>6. Risk!PositionOf(s)'.net = Total(d, Len(fills)) + v
      BY <2>3, <3>3, <3>5
    <3> QED BY <3>4, <3>6 DEF e
  <2>6. ExposureIsSeen'
    BY <1>1, <2>5 DEF ExposureIsSeen
  <2> QED BY <1>6, <2>4, <2>6 DEF PathInv
<1> QED BY <1>7, <1>8

\* A restart forgets the positions and what was seen alike.
LEMMA RestartPath ==
  ASSUME PathInv, RiskRestart
  PROVE  PathInv'
<1>1. /\ batch' = <<>> /\ UNCHANGED <<holds, fills, unguarded>>
      /\ positions' = <<>> /\ seen' = {} /\ limits' = Risk!NoLimitChange
  BY DEF RiskRestart, Risk!Restart
<1>2. batch' \in Seq(Fill) /\ 1..Len(batch') = {} /\ DOMAIN positions' = {}
  BY <1>1, EmptySeq
<1>3. PathType'
  BY <1>1, <1>2 DEF PathInv, PathType
<1>4. ASSUME NEW s \in Symbols
      PROVE  Risk!PositionOf(s)'.net = Total(Taken(fills, {}, s), Len(fills))
  <2> DEFINE zero == [n \in 0..Len(fills) |-> 0]
             d == Taken(fills, {}, s)
  <2>1. Len(fills) \in Nat /\ \A n \in 1..Len(fills) : d[n] = 0
    BY LenProperties DEF PathInv, PathType, Taken
  <2> HIDE DEF d
  <2>2. IsSums(zero, d, Len(fills)) /\ zero[Len(fills)] = 0
    BY <2>1 DEF IsSums
  <2> HIDE DEF zero
  <2>3. Total(d, Len(fills)) = 0
    BY <2>1, <2>2, TotalIs
  <2>4. Risk!PositionOf(s)'.net = 0
    BY <1>2 DEF Risk!PositionOf, Risk!FlatPosition
  <2> QED BY <2>3, <2>4 DEF d
<1>5. ExposureIsSeen'
  BY <1>1, <1>4 DEF ExposureIsSeen
<1>6. ~unguarded' => OrdersAreGuarded' /\ VenueIsCapped'
  BY <1>1 DEF PathInv, OrdersAreGuarded, VenueIsCapped, NetAtVenue
<1> QED BY <1>3, <1>5, <1>6 DEF PathInv

LEMMA NextPath == MaxFills <= SeenCap /\ PathInv /\ [Next]_vars => PathInv'
<1> SUFFICES ASSUME MaxFills <= SeenCap, PathInv, [Next]_vars PROVE PathInv'
  OBVIOUS
<1>1. CASE UNCHANGED vars
  BY <1>1 DEF vars, riskVars, PathInv, PathType, ExposureIsSeen, OrdersAreGuarded, VenueIsCapped,
              NetAtVenue, Risk!PositionOf
<1> QED
  BY <1>1, AskPath, PostPath, StrategyPushPath, PollPath, IngestNextPath, RestartPath DEF Next

\* The hard cap on the net position of a symbol holds at the venue, restarts of S5
\* included, while every order sent was allowed by a check that knew every earlier fill
\* and no other allowed order was on its way (rkm/config.py:34, risk_engine.py:311-318),
\* and the 100_000 ids of the ingest loop's dedup set (rkm/main.py:180-186) are enough
\* for the fills there are.
THEOREM PositionCap ==
  ASSUME MaxFills <= SeenCap
  PROVE  Spec => []PositionCapHolds
<1>1. Init => PathInv
  BY InitPath
<1>2. PathInv /\ [Next]_vars => PathInv'
  BY NextPath
<1>3. PathInv => PositionCapHolds
  BY VenueNetIsTotal DEF PathInv, VenueIsCapped, PositionCapHolds, Cap
<1> QED BY <1>1, <1>2, <1>3, PTL DEF Spec

---------------------------------------------------------------------------
(***************************************************************************)
(* The analytics, for any symbols, any rows S6 can list, any length of the *)
(* series, failed pulls and restarts of S6.  The invariant is short: the   *)
(* series ends with the sample of what is held.  The rest is arithmetic:   *)
(* sums over the symbols, an order of fractions, the ranks of returns.     *)
(***************************************************************************)

\* The sum over the symbols is one in the order of SetToSeq.
InOrderOf(f, order, n) == [i \in 1..n |-> f[order[i]]]

LEMMA SumOverIs ==
  ASSUME NEW D, IsFiniteSet(D), NEW f, DOMAIN f = D, \A a \in D : f[a] \in Int
  PROVE  LET n == Cardinality(D)
             order == SetToSeq(D) IN
         /\ n \in Nat /\ \A i \in 1..n : order[i] \in D
         /\ SumOver(f) = Total(InOrderOf(f, order, n), n) /\ SumOver(f) \in Int
<1> DEFINE n == Cardinality(D)
           order == SetToSeq(D)
           s == InOrderOf(f, order, n)
<1>1. n \in Nat /\ ExistsBijection(1..n, D)
  BY FS_CardinalityType
<1>2. order \in [1..n -> D]
  <2>1. PICK b \in [1..n -> D] : IsInjective(b)
    BY <1>1 DEF ExistsBijection, Bijection, Injection, IsInjective
  <2> QED BY <2>1 DEF SetToSeq
<1> HIDE DEF n, order
<1>3. s \in Seq(Int) /\ Len(s) = n /\ \A i \in 1..n : s[i] = f[order[i]]
  <2>1. s = [i \in 1..n |-> f[order[i]]]
    BY DEF InOrderOf
  <2>2. s \in [1..n -> Int]
    BY <1>2, <2>1
  <2> HIDE DEF s
  <2> QED BY <1>1, <2>1, <2>2
<1>4. SumOver(f) = SumAt(s, 1..n)
  <2>1. DOMAIN order = 1..n
    BY <1>2
  <2>2. SumOver(f) = SumAt([i \in DOMAIN order |-> f[order[i]]], DOMAIN order)
    BY DEF SumOver, order
  <2> QED BY <2>1, <2>2 DEF InOrderOf
<1> HIDE DEF s
<1>5. SumAt(s, 1..n) = Total(Chosen(s, 1..n), n) /\ SumAt(s, 1..n) \in Int
  BY <1>3, SumAtIsTotal
<1>6. Total(Chosen(s, 1..n), n) = Total(s, n)
  <2>1. \A k \in 1..n : s[k] \in Int /\ Chosen(s, 1..n)[k] = s[k]
    BY <1>3 DEF Chosen
  <2> QED BY <1>1, <2>1, TotalOfSame
<1>7. \A i \in 1..n : order[i] \in D
  BY <1>2
<1> QED BY <1>1, <1>4, <1>5, <1>6, <1>7 DEF n, order, s

\* The sum of sums is the sum of the two sums.
LEMMA SumOverParts ==
  ASSUME NEW D, IsFiniteSet(D), NEW f, DOMAIN f = D, NEW g, DOMAIN g = D, NEW h, DOMAIN h = D,
         \A a \in D : f[a] \in Int /\ g[a] \in Int /\ h[a] = f[a] + g[a]
  PROVE  SumOver(h) = SumOver(f) + SumOver(g)
<1>1. PICK n : n = Cardinality(D)
  OBVIOUS
<1>2. PICK order : order = SetToSeq(D)
  OBVIOUS
<1>3. \A a \in D : f[a] \in Int
  OBVIOUS
<1>4. \A a \in D : g[a] \in Int
  OBVIOUS
<1>5. \A a \in D : h[a] \in Int
  OBVIOUS
<1>6. /\ n \in Nat /\ \A i \in 1..n : order[i] \in D
      /\ SumOver(f) = Total(InOrderOf(f, order, n), n)
  BY <1>1, <1>2, <1>3, SumOverIs
<1>7. SumOver(g) = Total(InOrderOf(g, order, n), n)
  BY <1>1, <1>2, <1>4, SumOverIs
<1>8. SumOver(h) = Total(InOrderOf(h, order, n), n)
  BY <1>1, <1>2, <1>5, SumOverIs
<1> DEFINE x == InOrderOf(f, order, n)
           y == InOrderOf(g, order, n)
           z == InOrderOf(h, order, n)
<1>9. \A k \in 1..n : x[k] \in Int /\ y[k] \in Int /\ z[k] = x[k] + y[k]
  <2> SUFFICES ASSUME NEW k \in 1..n PROVE x[k] \in Int /\ y[k] \in Int /\ z[k] = x[k] + y[k]
    OBVIOUS
  <2>1. x[k] = f[order[k]] /\ y[k] = g[order[k]] /\ z[k] = h[order[k]]
    BY DEF InOrderOf
  <2>2. order[k] \in D
    BY <1>6
  <2> HIDE DEF x, y, z
  <2> QED BY <2>1, <2>2
<1> HIDE DEF x, y, z
<1>10. Total(z, n) = Total(x, n) + Total(y, n)
  BY <1>6, <1>9, TotalOfSums
<1> QED BY <1>6, <1>7, <1>8, <1>10 DEF x, y, z

\* What is held of each symbol, and what it amounts to.
Rows == {PositionRow(raw) : raw \in AssetRows}

LEMMA RowIs ==
  ASSUME NEW r \in Rows
  PROVE  /\ r.net_qty \in Int /\ r.avg_price \in Nat /\ r.mark \in Nat /\ r.realized \in Int
         /\ Unrealized(r) \in Int
<1>1. PICK raw \in AssetRows : r = PositionRow(raw)
  BY DEF Rows
<1>2. raw \in Int \X Nat \X Seq(Nat) \X Nat \X Int
  BY PortfolioAssumption
<1>3. /\ raw[1] \in Int /\ raw[2] \in Nat /\ raw[3] \in Seq(Nat) /\ raw[4] \in Nat
      /\ raw[5] \in Int
  BY <1>2
<1>4. raw[3] # <<>> => raw[3][1] \in Nat
  BY <1>3, EmptySeq
<1>5. PICK m \in Nat : m = IF raw[3] = <<>> THEN raw[4] ELSE raw[3][1]
  BY <1>3, <1>4
<1>6. r = [net_qty |-> raw[1], avg_price |-> raw[2], realized |-> raw[5], mark |-> m]
  BY <1>1, <1>5 DEF PositionRow
<1>7. r.net_qty \in Int /\ r.avg_price \in Nat /\ r.mark \in Nat /\ r.realized \in Int
  BY <1>3, <1>6
<1>8. r.net_qty * (r.mark - r.avg_price) \in Int
  BY <1>7
<1> QED BY <1>7, <1>8 DEF Unrealized

LEMMA HeldIs ==
  ASSUME NEW held \in Holdings
  PROVE  /\ IsFiniteSet(DOMAIN held) /\ DOMAIN held \in SUBSET Assets
         /\ \A a \in DOMAIN held : held[a].realized \in Int /\ Unrealized(held[a]) \in Int
<1>1. PICK symbols \in SUBSET Assets : held \in [symbols -> Rows]
  BY DEF Holdings, Rows
<1>2. IsFiniteSet(symbols)
  BY ScaleAssumption, FS_Subset
<1>3. \A a \in symbols : held[a] \in Rows
  BY <1>1
<1> QED BY <1>1, <1>2, <1>3, RowIs

Realized(held) == [a \in DOMAIN held |-> held[a].realized]
Marked(held) == [a \in DOMAIN held |-> Unrealized(held[a])]

LEMMA SampleIs ==
  ASSUME NEW held \in Holdings
  PROVE  /\ EquitySample[held].realized = SumOver(Realized(held))
         /\ EquitySample[held].equity = SumOver(Realized(held)) + SumOver(Marked(held))
         /\ SumOver(Realized(held)) \in Int /\ SumOver(Marked(held)) \in Int
         /\ EquitySample[held].equity \in Int
<1>1. SumOver(Realized(held)) \in Int
  <2>1. IsFiniteSet(DOMAIN held) /\ DOMAIN Realized(held) = DOMAIN held
    BY HeldIs DEF Realized
  <2>2. \A a \in DOMAIN held : Realized(held)[a] \in Int
    BY HeldIs DEF Realized
  <2> QED BY <2>1, <2>2, SumOverIs
<1>2. SumOver(Marked(held)) \in Int
  <2>1. IsFiniteSet(DOMAIN held) /\ DOMAIN Marked(held) = DOMAIN held
    BY HeldIs DEF Marked
  <2>2. \A a \in DOMAIN held : Marked(held)[a] \in Int
    BY HeldIs DEF Marked
  <2> QED BY <2>1, <2>2, SumOverIs
<1>3. /\ EquitySample[held].realized = SumOver(Realized(held))
      /\ EquitySample[held].equity = SumOver(Realized(held)) + SumOver(Marked(held))
  BY DEF EquitySample, Realized, Marked
<1> QED BY <1>1, <1>2, <1>3

---------------------------------------------------------------------------
\* What the steps keep: the series is of samples of what was held, and ends with that of
\* what is held.
Listings == UNION {[symbols -> AssetRows] : symbols \in SUBSET Assets}

Samples == {EquitySample[held] : held \in Holdings}

SeriesIsCurrent == series # <<>> => series[Len(series)] = EquitySample[holdings]

PortfolioInv ==
  /\ listed \in Listings /\ pulled \in SUBSET Listings
  /\ holdings \in Holdings /\ series \in Seq(Samples)
  /\ SeriesIsCurrent

LEMMA NobodyIsListed == Nobody \in Listings /\ Nobody \in Holdings
<1>1. Nobody \in [{} -> AssetRows] /\ Nobody \in [{} -> Rows]
  BY DEF Nobody
<1>2. {} \in SUBSET Assets
  OBVIOUS
<1> QED BY <1>1, <1>2 DEF Listings, Holdings, Rows

LEMMA PortfolioInvHolds == PortfolioSpec => []PortfolioInv
<1>1. PortfolioInit => PortfolioInv
  <2> SUFFICES ASSUME PortfolioInit PROVE PortfolioInv
    OBVIOUS
  <2>1. series = <<>> /\ series \in Seq(Samples)
    BY DEF PortfolioInit
  <2>2. SeriesIsCurrent
    BY <2>1 DEF SeriesIsCurrent
  <2> QED BY <2>1, <2>2, NobodyIsListed DEF PortfolioInit, PortfolioInv
<1>2. PortfolioInv /\ [PortfolioNext]_portfolioVars => PortfolioInv'
  <2> SUFFICES ASSUME PortfolioInv, [PortfolioNext]_portfolioVars PROVE PortfolioInv'
    OBVIOUS
  <2>1. ASSUME NEW a \in Assets, BookTrades(a) PROVE PortfolioInv'
    <3>1. PICK row \in AssetRows :
            listed' = [b \in DOMAIN listed \cup {a} |-> IF b = a THEN row ELSE listed[b]]
      BY <2>1 DEF BookTrades
    <3>2. PICK symbols \in SUBSET Assets : listed \in [symbols -> AssetRows]
      BY DEF PortfolioInv, Listings
    <3>3. listed' \in [symbols \cup {a} -> AssetRows] /\ symbols \cup {a} \in SUBSET Assets
      BY <3>1, <3>2
    <3>4. listed' \in Listings
      BY <3>3 DEF Listings
    <3>5. UNCHANGED <<pulled, holdings, series>>
      BY <2>1 DEF BookTrades
    <3> QED BY <3>4, <3>5 DEF PortfolioInv, SeriesIsCurrent
  <2>2. CASE BookRestarts
    BY <2>2, NobodyIsListed DEF BookRestarts, PortfolioInv, SeriesIsCurrent
  <2>3. CASE PullListing
    <3>1. PICK outcome \in Outcomes(listed) : pulled' = {outcome.body}
      BY <2>3 DEF PullListing
    <3>2. outcome.body \in Listings
      BY <3>1, NobodyIsListed DEF Outcomes, PortfolioInv
    <3>3. UNCHANGED <<listed, holdings, series>>
      BY <2>3 DEF PullListing
    <3> QED BY <3>1, <3>2, <3>3 DEF PortfolioInv, SeriesIsCurrent
  <2>4. CASE IngestListing
    <3>1. PICK rows \in pulled :
            IF rows = Nobody THEN UNCHANGED <<holdings, series>>
            ELSE holdings' = Ingested(rows) /\ series' = Sampled(Ingested(rows))
      BY <2>4 DEF IngestListing
    <3>2. pulled' = {} /\ UNCHANGED listed
      BY <2>4 DEF IngestListing
    <3>3. CASE rows = Nobody
      BY <3>1, <3>2, <3>3 DEF PortfolioInv, SeriesIsCurrent
    <3>4. CASE rows # Nobody
      <4>1. PICK held : held = Ingested(rows)
        OBVIOUS
      <4>2. held \in Holdings
        <5>1. PICK symbols \in SUBSET Assets : rows \in [symbols -> AssetRows]
          BY DEF PortfolioInv, Listings
        <5>2. held = [b \in symbols |-> PositionRow(rows[b])]
          BY <4>1, <5>1 DEF Ingested
        <5>3. \A b \in symbols : PositionRow(rows[b]) \in Rows
          BY <5>1 DEF Rows
        <5>4. held \in [symbols -> Rows]
          BY <5>2, <5>3
        <5> QED BY <5>4 DEF Holdings, Rows
      <4>3. PICK x \in Samples : x = EquitySample[held]
        BY <4>2 DEF Samples
      <4>4. PICK all : all = Append(series, x)
        OBVIOUS
      <4>5. /\ all \in Seq(Samples) /\ Len(all) = Len(series) + 1 /\ all[Len(all)] = x
            /\ Len(series) \in Nat
        BY <4>4 DEF PortfolioInv
      <4>6. series' = IF Len(all) > MaxPoints
                      THEN SubSeq(all, Len(all) - MaxPoints + 1, Len(all)) ELSE all
        BY <3>1, <3>4, <4>1, <4>3, <4>4 DEF Sampled
      <4>7. holdings' = held
        BY <3>1, <3>4, <4>1
      <4>8. series' \in Seq(Samples) /\ series'[Len(series')] = x
        <5>1. CASE Len(all) > MaxPoints
          <6>1. PICK first \in 1..(Len(all) + 1) : first = Len(all) - MaxPoints + 1
            BY <4>5, <5>1, PortfolioAssumption DEF ValidAnalyticsConfig
          <6>2. first <= Len(all)
            BY <4>5, <6>1, PortfolioAssumption DEF ValidAnalyticsConfig
          <6>3. PICK cut : cut = SubSeq(all, first, Len(all))
            OBVIOUS
          <6>4. /\ cut \in Seq(Samples) /\ Len(cut) = Len(all) - first + 1
                /\ \A i \in 1..(Len(all) - first + 1) : cut[i] = all[first + i - 1]
            BY <4>5, <6>3, EndOf
          <6>5. Len(all) - first + 1 \in 1..(Len(all) - first + 1)
            BY <4>5, <6>2
          <6>6. cut[Len(cut)] = all[first + (Len(all) - first + 1) - 1]
            BY <6>4, <6>5
          <6>7. first + (Len(all) - first + 1) - 1 = Len(all)
            BY <4>5
          <6> QED BY <4>5, <4>6, <5>1, <6>1, <6>3, <6>4, <6>6, <6>7
        <5>2. CASE ~(Len(all) > MaxPoints)
          BY <4>5, <4>6, <5>2
        <5> QED BY <5>1, <5>2
      <4>9. SeriesIsCurrent'
        BY <4>3, <4>7, <4>8 DEF SeriesIsCurrent
      <4> QED BY <3>2, <4>2, <4>7, <4>8, <4>9 DEF PortfolioInv
    <3> QED BY <3>3, <3>4
  <2>5. CASE UNCHANGED portfolioVars
    BY <2>5 DEF PortfolioInv, SeriesIsCurrent, portfolioVars
  <2> QED BY <2>1, <2>2, <2>3, <2>4, <2>5 DEF PortfolioNext
<1> QED BY <1>1, <1>2, PTL DEF PortfolioSpec

---------------------------------------------------------------------------
\* The pages: the same sums, of rows that repeat what is held.
LEMMA PagesAlwaysAgree == PortfolioInv => PagesAgree
<1> SUFFICES ASSUME PortfolioInv, series # <<>>
             PROVE  /\ Last(series).equity = Pnl.total /\ EngineStats.current_equity = Pnl.total
                    /\ SumOver([a \in DOMAIN holdings |-> Attribution.rows[a].total]) = Pnl.total
                    /\ Last(series).realized = Pnl.realized
  BY DEF PagesAgree
<1>1. holdings \in Holdings
  BY DEF PortfolioInv
<1>2. PICK held \in Holdings : held = holdings
  BY <1>1
<1>3. Last(series) = EquitySample[held]
  BY <1>2 DEF PortfolioInv, SeriesIsCurrent, Last
<1>4. DOMAIN PnlRows = DOMAIN held
  BY <1>2 DEF PnlRows
<1>5. \A a \in DOMAIN held : /\ PnlRows[a].realized = held[a].realized
                             /\ PnlRows[a].unrealized = Unrealized(held[a])
                             /\ PnlRows[a].total = held[a].realized + Unrealized(held[a])
  BY <1>2 DEF PnlRows
<1>6. /\ [a \in DOMAIN PnlRows |-> PnlRows[a].realized] = Realized(held)
      /\ [a \in DOMAIN PnlRows |-> PnlRows[a].unrealized] = Marked(held)
  BY <1>4, <1>5 DEF Realized, Marked
<1>7. Pnl.realized = SumOver(Realized(held))
  BY <1>6 DEF Pnl
<1>8. Pnl.total = SumOver(Realized(held)) + SumOver(Marked(held))
  BY <1>6 DEF Pnl
<1>9. EngineStats.current_equity = EquitySample[held].equity
  BY <1>2 DEF EngineStats
<1>10. SumOver([a \in DOMAIN holdings |-> Attribution.rows[a].total])
         = SumOver(Realized(held)) + SumOver(Marked(held))
  <2> DEFINE whole == [a \in DOMAIN holdings |-> Attribution.rows[a].total]
  <2>1. \A a \in DOMAIN held : Attribution.rows[a].total = PnlRows[a].total
    BY <1>4 DEF Attribution
  <2>2. DOMAIN whole = DOMAIN held /\ DOMAIN Realized(held) = DOMAIN held
        /\ DOMAIN Marked(held) = DOMAIN held
    BY <1>2 DEF Realized, Marked
  <2>3. \A a \in DOMAIN held : whole[a] = held[a].realized + Unrealized(held[a])
    BY <1>2, <1>5, <2>1
  <2>4. \A a \in DOMAIN held : /\ Realized(held)[a] \in Int /\ Marked(held)[a] \in Int
                               /\ whole[a] = Realized(held)[a] + Marked(held)[a]
    <3>1. \A a \in DOMAIN held : held[a].realized \in Int /\ Unrealized(held[a]) \in Int
      BY HeldIs
    <3> HIDE DEF whole
    <3> QED BY <2>3, <3>1 DEF Realized, Marked
  <2>5. IsFiniteSet(DOMAIN held)
    BY HeldIs
  <2> HIDE DEF whole
  <2>6. SumOver(whole) = SumOver(Realized(held)) + SumOver(Marked(held))
    BY <2>2, <2>4, <2>5, SumOverParts
  <2> QED BY <2>6 DEF whole
<1> QED BY <1>3, <1>7, <1>8, <1>9, <1>10, SampleIs

---------------------------------------------------------------------------
\* The drawdowns: fractions with a positive denominator are ordered.
Ratios == Int \X (Nat \ {0})

LEMMA CrossMultiplied ==
  ASSUME NEW p1 \in Int, NEW q1 \in Nat \ {0}, NEW p2 \in Int, NEW q2 \in Nat \ {0},
         NEW p3 \in Int, NEW q3 \in Nat \ {0}, p1 * q2 <= p2 * q1, p2 * q3 <= p3 * q2
  PROVE  p1 * q3 <= p3 * q1
<1>1. (p1 * q2) * q3 <= (p2 * q1) * q3
  <2>1. PICK x \in Int : x = p1 * q2
    OBVIOUS
  <2>2. PICK y \in Int : y = p2 * q1
    OBVIOUS
  <2>3. x <= y => x * q3 <= y * q3
    OBVIOUS
  <2> QED BY <2>1, <2>2, <2>3
<1>2. (p2 * q3) * q1 <= (p3 * q2) * q1
  <2>1. PICK x \in Int : x = p2 * q3
    OBVIOUS
  <2>2. PICK y \in Int : y = p3 * q2
    OBVIOUS
  <2>3. x <= y => x * q1 <= y * q1
    OBVIOUS
  <2> QED BY <2>1, <2>2, <2>3
<1>3. (p1 * q2) * q3 = (p1 * q3) * q2 /\ (p3 * q2) * q1 = (p3 * q1) * q2
      /\ (p2 * q1) * q3 = (p2 * q3) * q1
  OBVIOUS
<1>4. PICK x \in Int : x = p1 * q3
  OBVIOUS
<1>5. PICK y \in Int : y = p3 * q1
  OBVIOUS
<1>6. x * q2 <= y * q2
  <2>1. PICK m \in Int : m = (p2 * q1) * q3
    OBVIOUS
  <2>2. x * q2 \in Int /\ y * q2 \in Int
    OBVIOUS
  <2> QED BY <1>1, <1>2, <1>3, <1>4, <1>5, <2>1, <2>2
<1>7. x <= y
  <2> SUFFICES ASSUME x >= y + 1 PROVE FALSE
    OBVIOUS
  <2>1. x * q2 >= (y + 1) * q2
    OBVIOUS
  <2>2. (y + 1) * q2 = y * q2 + q2
    OBVIOUS
  <2> QED BY <1>6, <2>1, <2>2
<1> QED BY <1>4, <1>5, <1>7

LEMMA NotAboveOrders ==
  ASSUME NEW d \in Ratios, NEW e \in Ratios
  PROVE  /\ NotAbove(d, e) \/ NotAbove(e, d)
         /\ \A f \in Ratios : NotAbove(d, e) /\ NotAbove(e, f) => NotAbove(d, f)
<1>1. d[1] \in Int /\ d[2] \in Nat \ {0} /\ e[1] \in Int /\ e[2] \in Nat \ {0}
  BY DEF Ratios
<1>2. d[1] * e[2] \in Int /\ e[1] * d[2] \in Int
  BY <1>1
<1>3. NotAbove(d, e) \/ NotAbove(e, d)
  BY <1>2 DEF NotAbove
<1>4. ASSUME NEW f \in Ratios, NotAbove(d, e), NotAbove(e, f) PROVE NotAbove(d, f)
  <2>1. f[1] \in Int /\ f[2] \in Nat \ {0}
    BY DEF Ratios
  <2>2. d[1] * e[2] <= e[1] * d[2] /\ e[1] * f[2] <= f[1] * e[2]
    BY <1>4 DEF NotAbove
  <2>3. d[1] * f[2] <= f[1] * d[2]
    BY <1>1, <2>1, <2>2, CrossMultiplied
  <2> QED BY <2>3 DEF NotAbove
<1> QED BY <1>3, <1>4

LEMMA PeakIs ==
  ASSUME NEW s \in Seq(Int), NEW n \in 1..Len(s)
  PROVE  PeakAt(s, n) \in Int /\ \A j \in 1..n : s[j] <= PeakAt(s, n)
<1> DEFINE T == {s[i] : i \in 1..n}
<1>1. T \in SUBSET Int /\ T # {} /\ IsFiniteSet(T)
  BY FirstAreFinite
<1>2. PICK m \in T : \A k \in T : m >= k
  <2> HIDE DEF T
  <2> QED BY <1>1, LargestOf
<1>3. PeakAt(s, n) \in T /\ \A k \in T : PeakAt(s, n) >= k
  BY <1>2 DEF PeakAt, Max
<1>4. \A j \in 1..n : s[j] \in T
  OBVIOUS
<1> HIDE DEF T
<1>5. PICK p \in Int : p = PeakAt(s, n)
  BY <1>1, <1>3
<1>6. ASSUME NEW j \in 1..n PROVE s[j] <= p
  <2>1. s[j] \in Int /\ p >= s[j]
    BY <1>1, <1>3, <1>4, <1>5
  <2> QED BY <2>1
<1> QED BY <1>5, <1>6

LEMMA DeclineIs ==
  ASSUME NEW s \in Seq(Int), NEW n \in 1..Len(s)
  PROVE  Decline(s, n) \in Ratios /\ Decline(s, n)[1] <= 0
<1>1. PICK p \in Int : p = PeakAt(s, n)
  BY PeakIs
<1>2. n \in 1..n /\ s[n] \in Int
  OBVIOUS
<1>3. s[n] <= p
  BY <1>1, <1>2, PeakIs
<1>4. Decline(s, n) = IF p > 0 THEN <<s[n] - p, p>> ELSE <<0, 1>>
  BY <1>1 DEF Decline
<1> QED BY <1>2, <1>3, <1>4 DEF Ratios

Declines(s, n) == {Decline(s, i) : i \in 1..n} \cup {<<0, 1>>}

\* Among the declines and zero there is a worst one.
LEMMA SomeDeclineIsWorst ==
  ASSUME NEW s \in Seq(Int)
  PROVE  /\ Declines(s, Len(s)) \in SUBSET Ratios
         /\ \E d \in Declines(s, Len(s)) : \A e \in Declines(s, Len(s)) : NotAbove(d, e)
<1> DEFINE P == {n \in Nat : n <= Len(s) =>
                  \E d \in Declines(s, n) : \A e \in Declines(s, n) : NotAbove(d, e)}
<1>0. Len(s) \in Nat
  OBVIOUS
<1>1. ASSUME NEW n \in Nat, n <= Len(s) PROVE Declines(s, n) \in SUBSET Ratios
  <2>1. ASSUME NEW i \in 1..n PROVE Decline(s, i) \in Ratios
    <3>1. i \in 1..Len(s)
      BY <1>0, <1>1
    <3> QED BY <3>1, DeclineIs
  <2>2. <<0, 1>> \in Ratios
    BY DEF Ratios
  <2> QED BY <2>1, <2>2 DEF Declines
<1>2. 0 \in P
  <2>1. Declines(s, 0) = {<<0, 1>>}
    BY DEF Declines
  <2>2. NotAbove(<<0, 1>>, <<0, 1>>)
    BY DEF NotAbove
  <2> QED BY <2>1, <2>2
<1>3. ASSUME NEW n \in Nat, n \in P PROVE n + 1 \in P
  <2>1. SUFFICES ASSUME n + 1 <= Len(s)
                 PROVE  \E d \in Declines(s, n + 1) : \A e \in Declines(s, n + 1) : NotAbove(d, e)
    OBVIOUS
  <2>2. PICK d \in Declines(s, n) : \A e \in Declines(s, n) : NotAbove(d, e)
    BY <1>0, <1>3, <2>1
  <2>3. PICK c : c = Decline(s, n + 1)
    OBVIOUS
  <2>4. Declines(s, n + 1) = Declines(s, n) \cup {c}
    BY <2>3 DEF Declines
  <2>5. Declines(s, n) \in SUBSET Ratios /\ Declines(s, n + 1) \in SUBSET Ratios
    BY <1>0, <1>1, <2>1
  <2>6. d \in Ratios /\ c \in Ratios
    BY <2>2, <2>4, <2>5
  <2>7. CASE NotAbove(d, c)
    BY <2>2, <2>4, <2>7
  <2>8. CASE ~NotAbove(d, c)
    <3>1. NotAbove(c, d)
      BY <2>6, <2>8, NotAboveOrders
    <3>2. ASSUME NEW e \in Declines(s, n) PROVE NotAbove(c, e)
      <4>1. e \in Ratios /\ NotAbove(d, e)
        BY <2>2, <2>5
      <4> QED BY <2>6, <3>1, <4>1, NotAboveOrders
    <3>3. NotAbove(c, c)
      BY <2>6, NotAboveOrders
    <3> QED BY <2>4, <3>2, <3>3
  <2> QED BY <2>7, <2>8
<1>4. Nat \subseteq P
  <2> HIDE DEF P
  <2> QED BY <1>2, <1>3, NatByInduction
<1> QED BY <1>0, <1>1, <1>4

LEMMA WorstDeclineIs ==
  ASSUME NEW s \in Seq(Int)
  PROVE  \A e \in Declines(s, Len(s)) : NotAbove(WorstDecline(s), e)
<1>1. DOMAIN s = 1..Len(s)
  OBVIOUS
<1>2. WorstDecline(s) = CHOOSE d \in Declines(s, Len(s)) :
                          \A e \in Declines(s, Len(s)) : NotAbove(d, e)
  BY <1>1 DEF WorstDecline, Declines
<1> QED BY <1>2, SomeDeclineIsWorst

\* The current decline is that of the last equity.
LEMMA CurrentIsADecline ==
  ASSUME NEW s \in Seq(Int)
  PROVE  CurrentDecline(s) \in Declines(s, Len(s)) /\ NotAbove(CurrentDecline(s), <<0, 1>>)
<1>1. Len(s) \in Nat /\ DOMAIN s = 1..Len(s) /\ <<0, 1>> \in Declines(s, Len(s))
  BY DEF Declines
<1>2. NotAbove(<<0, 1>>, <<0, 1>>)
  BY DEF NotAbove
<1>3. CASE s = <<>>
  BY <1>1, <1>2, <1>3 DEF CurrentDecline
<1>4. CASE s # <<>>
  <2>0. Len(s) # 0
    BY <1>4, EmptySeq
  <2>1. PICK n \in 1..Len(s) : n = Len(s)
    <3>1. Len(s) \in Nat
      OBVIOUS
    <3>2. Len(s) \in 1..Len(s)
      BY <2>0, <3>1
    <3> QED BY <3>2
  <2>2. Range(s) = {s[i] : i \in 1..n}
    BY <1>1, <2>1 DEF Range
  <2>3. PICK p \in Int : p = PeakAt(s, n)
    BY PeakIs
  <2>4. Max(Range(s)) = p
    BY <2>2, <2>3 DEF PeakAt
  <2>5. CurrentDecline(s) = IF p <= 0 THEN <<0, 1>> ELSE <<s[n] - p, p>>
    BY <1>4, <2>1, <2>4 DEF CurrentDecline, Last
  <2>6. Decline(s, n) = IF p > 0 THEN <<s[n] - p, p>> ELSE <<0, 1>>
    BY <2>3 DEF Decline
  <2>7. CurrentDecline(s) = Decline(s, n)
    BY <2>5, <2>6
  <2>8. Decline(s, n) \in Declines(s, Len(s))
    BY <2>1 DEF Declines
  <2>9. Decline(s, n)[1] \in Int /\ Decline(s, n)[2] \in Int /\ Decline(s, n)[1] <= 0
    BY DeclineIs DEF Ratios
  <2>10. NotAbove(Decline(s, n), <<0, 1>>)
    <3>1. PICK x \in Int : x = Decline(s, n)[1]
      BY <2>9
    <3>2. PICK y \in Int : y = Decline(s, n)[2]
      BY <2>9
    <3>3. x * 1 <= 0 * y
      BY <2>9, <3>1
    <3> QED BY <3>1, <3>2, <3>3 DEF NotAbove
  <2> QED BY <2>7, <2>8, <2>10
<1> QED BY <1>3, <1>4

\* The series in numbers: as many equities as samples, each whole in Scale or zero.
LEMMA EquitiesAre ==
  ASSUME PortfolioInv
  PROVE  /\ Equities \in Seq(Int) /\ Len(Equities) = Len(series) /\ Len(series) \in Nat
         /\ \A i \in 1..Len(series) : Equities[i] = 0 \/ Scale % Abs(Equities[i]) = 0
<1>1. series \in Seq(Samples) /\ Len(series) \in Nat
  BY DEF PortfolioInv
<1>2. ASSUME NEW i \in 1..Len(series)
      PROVE  Equities[i] \in Int /\ (Equities[i] = 0 \/ Scale % Abs(Equities[i]) = 0)
  <2>1. series[i] \in Samples
    BY <1>1
  <2>2. PICK held \in Holdings : series[i] = EquitySample[held]
    BY <2>1 DEF Samples
  <2>3. Equities[i] = EquitySample[held].equity
    BY <2>2 DEF Equities
  <2> QED BY <2>3, SampleIs, ScaleAssumption
<1>3. Equities = [i \in 1..Len(series) |-> Equities[i]]
  BY DEF Equities
<1>4. Equities \in [1..Len(series) -> Int]
  BY <1>2, <1>3
<1>5. Equities \in Seq(Int) /\ Len(Equities) = Len(series)
  BY <1>1, <1>4
<1> QED BY <1>1, <1>2, <1>5

\* A series that ends above its start has risen at some step.
LEMMA SomeStepRises ==
  ASSUME NEW s \in Seq(Int), Len(s) >= 1, s[Len(s)] > s[1]
  PROVE  \E i \in 1..(Len(s) - 1) : s[i + 1] > s[i]
<1> DEFINE P == {n \in Nat : n + 1 <= Len(s) => s[n + 1] <= s[1]}
<1>0. Len(s) \in Nat /\ \A i \in 1..Len(s) : s[i] \in Int
  OBVIOUS
<1>1. SUFFICES ASSUME \A i \in 1..(Len(s) - 1) : ~(s[i + 1] > s[i]) PROVE FALSE
  OBVIOUS
<1>2. 0 \in P
  <2>1. 1 \in 1..Len(s)
    BY <1>0
  <2> QED BY <1>0, <2>1
<1>3. ASSUME NEW n \in Nat, n \in P PROVE n + 1 \in P
  <2>1. SUFFICES ASSUME n + 2 <= Len(s) PROVE s[n + 2] <= s[1]
    OBVIOUS
  <2>2. s[n + 1] <= s[1]
    BY <1>0, <1>3, <2>1
  <2>3. n + 1 \in 1..(Len(s) - 1) /\ (n + 1) + 1 = n + 2
    BY <1>0, <2>1
  <2>4. ~(s[n + 2] > s[n + 1])
    BY <1>1, <2>3
  <2>5. 1 \in 1..Len(s) /\ n + 1 \in 1..Len(s) /\ n + 2 \in 1..Len(s)
    BY <1>0, <2>1
  <2>6. s[1] \in Int /\ s[n + 1] \in Int /\ s[n + 2] \in Int
    BY <1>0, <2>5
  <2> QED BY <2>2, <2>4, <2>6
<1>4. Nat \subseteq P
  <2> HIDE DEF P
  <2> QED BY <1>2, <1>3, NatByInduction
<1>5. Len(s) - 1 \in P
  BY <1>0, <1>4
<1>6. s[Len(s)] <= s[1]
  BY <1>0, <1>5
<1>7. s[Len(s)] \in Int /\ s[1] \in Int
  BY <1>0
<1> QED BY <1>6, <1>7

\* The returns: one fewer than the equities, and a rise from a nonzero equity is a gain.
LEMMA ReturnsAre ==
  ASSUME PortfolioInv
  PROVE  /\ Returns \in Seq(Int)
         /\ Len(Returns) = IF series = <<>> THEN 0 ELSE Len(series) - 1
         /\ \A i \in 1..Len(Returns) :
              Equities[i] # 0 /\ Equities[i + 1] > Equities[i] => Returns[i] > 0
<1> DEFINE n == IF series = <<>> THEN 0 ELSE Len(series) - 1
<1>0. n \in Nat /\ \A i \in 1..n : i \in 1..Len(series) /\ i + 1 \in 1..Len(series)
  <2>1. series # <<>> => Len(series) # 0
    BY EmptySeq DEF PortfolioInv
  <2> QED BY <2>1, EquitiesAre
<1>1. Returns = [i \in 1..n |-> Returns[i]]
  BY DEF Returns
<1>2. ASSUME NEW i \in 1..n
      PROVE  /\ Returns[i] \in Int
             /\ Equities[i] # 0 /\ Equities[i + 1] > Equities[i] => Returns[i] > 0
  <2>1. Returns[i] = IF Equities[i] = 0 THEN 0
                     ELSE (Equities[i + 1] - Equities[i]) * (Scale \div Abs(Equities[i]))
    BY DEF Returns
  <2>2. i \in 1..Len(series) /\ i + 1 \in 1..Len(series)
    BY <1>0
  <2>3. PICK x \in Int : x = Equities[i]
    BY <2>2, EquitiesAre
  <2>4. PICK y \in Int : y = Equities[i + 1]
    BY <2>2, EquitiesAre
  <2>5. CASE x = 0
    BY <2>1, <2>3, <2>5
  <2>6. CASE x # 0
    <3>1. PICK d \in Nat \ {0} : d = Abs(x)
      BY <2>6 DEF Abs
    <3>2. Scale % d = 0
      BY <2>2, <2>3, <2>6, <3>1, EquitiesAre
    <3>3. Scale \in Nat \ {0} /\ Scale \in Int
      BY PortfolioAssumption
    <3>4. PICK q \in Int : q = Scale \div d
      BY <3>3, Division
    <3>5. Scale = d * q
      BY <3>2, <3>3, <3>4, Division
    <3>6. q >= 1
      <4> SUFFICES ASSUME q <= 0 PROVE FALSE
        OBVIOUS
      <4>1. d * q <= 0
        OBVIOUS
      <4> QED BY <3>3, <3>5, <4>1
    <3>7. Returns[i] = (y - x) * q
      BY <2>1, <2>3, <2>4, <2>6, <3>1, <3>4
    <3>8. (y - x) * q \in Int
      OBVIOUS
    <3>9. ASSUME y > x PROVE (y - x) * q > 0
      BY <3>6, <3>9
    <3> QED BY <2>3, <2>4, <3>7, <3>8, <3>9
  <2> QED BY <2>5, <2>6
<1> HIDE DEF n
<1>3. Returns \in [1..n -> Int]
  BY <1>1, <1>2
<1>4. Returns \in Seq(Int) /\ Len(Returns) = n
  BY <1>0, <1>3
<1>5. n = IF series = <<>> THEN 0 ELSE Len(series) - 1
  BY DEF n
<1> QED BY <1>2, <1>4, <1>5

LEMMA MetricsAlwaysAgree == PortfolioInv => MetricsAgree
<1> SUFFICES ASSUME PortfolioInv PROVE MetricsAgree
  OBVIOUS
<1>1. PICK s \in Seq(Int) : s = Equities
  BY EquitiesAre
<1>2. /\ PortfolioMetrics.max_drawdown = WorstDecline(s)
      /\ PortfolioMetrics.current_drawdown = CurrentDecline(s)
      /\ PortfolioMetrics.has_annualized = HasAnnualized(s)
      /\ PortfolioMetrics.wins = Wins(Returns)
  BY <1>1 DEF PortfolioMetrics
<1>3. NotAbove(WorstDecline(s), CurrentDecline(s)) /\ NotAbove(CurrentDecline(s), <<0, 1>>)
  BY CurrentIsADecline, WorstDeclineIs
<1>4. ASSUME HasAnnualized(s), Last(s) > s[1], ~\E i \in DOMAIN series : s[i] = 0
      PROVE  Wins(Returns) > 0
  <2>1. Len(s) = Len(series) /\ Len(s) \in Nat /\ Len(s) >= 2 /\ DOMAIN series = 1..Len(series)
    BY <1>1, <1>4, EquitiesAre DEF HasAnnualized, PortfolioInv
  <2>2. s[Len(s)] > s[1]
    BY <1>4 DEF Last
  <2>3. PICK i \in 1..(Len(s) - 1) : s[i + 1] > s[i]
    BY <2>1, <2>2, SomeStepRises
  <2>4. series # <<>>
    BY <2>1
  <2>5. Returns \in Seq(Int) /\ Len(Returns) = Len(s) - 1
    BY <2>1, <2>4, ReturnsAre
  <2>6. s[i] # 0
    BY <1>4, <2>1
  <2>7. Returns[i] > 0
    BY <1>1, <2>3, <2>5, <2>6, ReturnsAre
  <2> DEFINE won == {k \in DOMAIN Returns : Returns[k] > 0}
  <2>8. DOMAIN Returns = 1..Len(Returns) /\ Len(Returns) \in Nat
    BY <2>5
  <2>9. i \in won /\ won \in SUBSET (1..Len(Returns))
    BY <2>5, <2>7, <2>8
  <2>10. IsFiniteSet(1..Len(Returns))
    BY <2>8, FirstPositions
  <2>11. IsFiniteSet(won)
    <3> HIDE DEF won
    <3> QED BY <2>9, <2>10, FS_Subset
  <2>12. Cardinality(won) \in Nat /\ Cardinality(won) # 0
    <3> HIDE DEF won
    <3> QED BY <2>9, <2>11, FS_CardinalityType, FS_EmptySet
  <2> QED BY <2>12 DEF Wins
<1> QED BY <1>1, <1>2, <1>3, <1>4 DEF MetricsAgree

---------------------------------------------------------------------------
\* The tail: there is a return of each rank, so the quantile is at least the worst return.
LEMMA RankIsTaken ==
  ASSUME NEW r \in Seq(Int), NEW k \in 1..Len(r)
  PROVE  Ranked(r, k) \in Range(r)
<1> DEFINE n == Len(r)
           V == Range(r)
           Less(v) == {i \in DOMAIN r : r[i] < v}
           UpTo(v) == {i \in DOMAIN r : r[i] <= v}
           E == {v \in V : Cardinality(UpTo(v)) >= k}
<1>1. n \in Nat /\ n >= 1 /\ DOMAIN r = 1..n
  OBVIOUS
<1>2. V = {r[i] : i \in 1..n}
  BY <1>1 DEF Range
<1>3. V \in SUBSET Int /\ V # {} /\ IsFiniteSet(V)
  <2>1. n \in 1..Len(r)
    BY <1>1
  <2> HIDE DEF V
  <2> QED BY <1>2, <2>1, FirstAreFinite
<1>4. \A i \in DOMAIN r : r[i] \in V /\ r[i] \in Int
  BY DEF Range
<1>5. \A v \in V : Cardinality(Less(v)) \in Nat /\ Cardinality(UpTo(v)) \in Nat
                   /\ IsFiniteSet(Less(v))
  <2> SUFFICES ASSUME NEW v \in V
               PROVE  /\ Cardinality(Less(v)) \in Nat /\ Cardinality(UpTo(v)) \in Nat
                      /\ IsFiniteSet(Less(v))
    OBVIOUS
  <2>1. Less(v) \in SUBSET (1..n) /\ UpTo(v) \in SUBSET (1..n)
    BY <1>1
  <2>2. IsFiniteSet(1..n)
    BY <1>1, FirstPositions
  <2> HIDE DEF Less, UpTo
  <2>3. IsFiniteSet(Less(v)) /\ IsFiniteSet(UpTo(v))
    BY <2>1, <2>2, FS_Subset
  <2> QED BY <2>3, FS_CardinalityType
<1>6. E # {}
  <2>1. PICK m \in V : \A v \in V : m >= v
    <3> HIDE DEF V
    <3> QED BY <1>3, LargestOf
  <2>2. m \in Int
    BY <1>3, <2>1
  <2>3. ASSUME NEW i \in 1..n PROVE r[i] <= m
    <3>1. r[i] \in V /\ r[i] \in Int
      BY <1>1, <1>4
    <3>2. m >= r[i]
      BY <2>1, <3>1
    <3> QED BY <2>2, <3>1, <3>2
  <2>4. UpTo(m) = 1..n
    BY <1>1, <2>3
  <2>5. Cardinality(1..n) = n
    BY <1>1, FirstPositions
  <2>6. Cardinality(UpTo(m)) >= k
    <3> HIDE DEF UpTo
    <3> QED BY <1>1, <2>4, <2>5
  <2> QED BY <2>1, <2>6
<1>7. E \in SUBSET V
  OBVIOUS
<1>8. PICK v \in E : \A w \in E : v <= w
  <2> HIDE DEF E, V
  <2>1. IsFiniteSet(E)
    BY <1>3, <1>7, FS_Subset
  <2>2. E \in SUBSET Int
    BY <1>3, <1>7
  <2> QED BY <1>6, <2>1, <2>2, LeastOf
<1>9. v \in V /\ v \in Int /\ Cardinality(UpTo(v)) >= k
  BY <1>3, <1>8
<1>10. Cardinality(Less(v)) < k
  <2> SUFFICES ASSUME Cardinality(Less(v)) >= k PROVE FALSE
    BY <1>5, <1>9
  <2> DEFINE W == {w \in V : w < v}
  <2>1. PICK j : j \in Less(v)
    <3>1. Cardinality(Less(v)) # 0
      BY <1>5, <1>9
    <3> HIDE DEF Less
    <3> QED BY <3>1, FS_EmptySet
  <2>2. W # {}
    BY <1>4, <2>1
  <2>3. W \in SUBSET V
    OBVIOUS
  <2>4. PICK w \in W : \A u \in W : w >= u
    <3> HIDE DEF W, V
    <3>1. IsFiniteSet(W)
      BY <1>3, <2>3, FS_Subset
    <3>2. W \in SUBSET Int
      BY <1>3, <2>3
    <3> QED BY <2>2, <3>1, <3>2, LargestOf
  <2>5. w \in V /\ w \in Int /\ w < v
    BY <1>3, <2>4
  <2>6. ASSUME NEW i \in DOMAIN r PROVE r[i] < v <=> r[i] <= w
    <3>1. r[i] \in V /\ r[i] \in Int
      BY <1>4
    <3>2. r[i] < v => w >= r[i]
      BY <2>4, <3>1
    <3> QED BY <1>9, <2>5, <3>1, <3>2
  <2>7. UpTo(w) = Less(v)
    BY <2>6
  <2>8. w \in E
    <3>1. Cardinality(UpTo(w)) >= k
      BY <2>7
    <3> HIDE DEF UpTo, V
    <3> QED BY <2>5, <3>1
  <2>9. v <= w
    BY <1>8, <2>8
  <2> QED BY <1>9, <2>5, <2>9
<1>11. \E x \in Range(r) : Cardinality(Less(x)) < k /\ Cardinality(UpTo(x)) >= k
  BY <1>9, <1>10
<1>12. Ranked(r, k) = CHOOSE x \in Range(r) :
                        Cardinality(Less(x)) < k /\ Cardinality(UpTo(x)) >= k
  BY DEF Ranked
<1> HIDE DEF Less, UpTo
<1> QED BY <1>11, <1>12

LEMMA QuantileIs ==
  ASSUME NEW r \in Seq(Int), Len(r) >= 2, NEW low \in Int, \A x \in Range(r) : low <= x
  PROVE  Quantile(r) \in Int /\ 4 * low <= Quantile(r)
<1> DEFINE n == Len(r)
<1>1. n \in Nat /\ n >= 2 /\ \A x \in Range(r) : x \in Int
  BY DEF Range
<1>2. PICK idx \in Nat : idx = TailPer4 * (n - 1)
  BY <1>1, PortfolioAssumption DEF ValidAnalyticsConfig
<1>3. idx = n - 1
  BY <1>1, <1>2, PortfolioAssumption DEF ValidAnalyticsConfig
<1>4. PICK lo \in Nat : lo = idx \div 4
  BY <1>2
<1>5. PICK f \in 0..3 : f = idx % 4
  BY <1>2
<1>6. lo + 1 \in 1..n
  BY <1>1, <1>3, <1>4
<1>7. PICK hi : hi = IF lo + 1 > n - 1 THEN n - 1 ELSE lo + 1
  OBVIOUS
<1>8. hi + 1 \in 1..n
  BY <1>1, <1>6, <1>7
<1>9. PICK a \in Int : a = Ranked(r, lo + 1) /\ low <= a
  BY <1>1, <1>6, RankIsTaken
<1>10. PICK b \in Int : b = Ranked(r, hi + 1) /\ low <= b
  BY <1>1, <1>8, RankIsTaken
<1>11. Quantile(r) = a * (4 - f) + b * f
  BY <1>2, <1>4, <1>5, <1>7, <1>9, <1>10 DEF Quantile
<1>12. f = 0 \/ f = 1 \/ f = 2 \/ f = 3
  OBVIOUS
<1>13. a * (4 - f) + b * f \in Int /\ 4 * low <= a * (4 - f) + b * f
  BY SMTT(30), <1>9, <1>10, <1>12
<1> QED BY <1>11, <1>13

LEMMA TailIs ==
  ASSUME NEW r \in Seq(Int), Len(r) >= 2
  PROVE  /\ Cardinality(Tail4(r)) > 0
         /\ 4 * TailSum(r) <= Cardinality(Tail4(r)) * Quantile(r)
         /\ TailSum(r) >= Cardinality(Tail4(r)) * Min(Range(r))
<1>1. Len(r) \in Nat /\ DOMAIN r = 1..Len(r) /\ Len(r) \in 1..Len(r)
  OBVIOUS
<1>2. Range(r) \in SUBSET Int /\ Range(r) # {} /\ IsFiniteSet(Range(r))
  <2>1. Range(r) = {r[i] : i \in 1..Len(r)}
    BY <1>1 DEF Range
  <2> QED BY <1>1, <2>1, FirstAreFinite
<1>3. Min(Range(r)) \in Range(r) /\ \A x \in Range(r) : Min(Range(r)) <= x
  <2>1. \E m \in Range(r) : \A x \in Range(r) : m <= x
    BY <1>2, LeastOf
  <2> QED BY <2>1 DEF Min
<1>4. PICK low \in Int : low = Min(Range(r))
  BY <1>2, <1>3
<1>5. PICK q \in Int : q = Quantile(r)
  BY <1>3, <1>4, QuantileIs
<1>6. 4 * low <= q
  BY <1>3, <1>4, <1>5, QuantileIs
<1> DEFINE below == {i \in DOMAIN r : 4 * r[i] <= Quantile(r)}
<1>7. below # {}
  <2>1. PICK i \in DOMAIN r : r[i] = low
    BY <1>3, <1>4 DEF Range
  <2> QED BY <1>5, <1>6, <2>1
<1>8. Tail4(r) = below
  BY <1>7 DEF Tail4
<1>9. below \in SUBSET (1..Len(r))
  BY <1>1
<1>10. \A i \in below : low <= r[i] /\ 4 * r[i] <= q
  <2> SUFFICES ASSUME NEW i \in below PROVE low <= r[i] /\ 4 * r[i] <= q
    OBVIOUS
  <2>1. r[i] \in Range(r)
    BY DEF Range
  <2> QED BY <1>3, <1>4, <1>5, <2>1
<1> HIDE DEF below
<1>11. 4 * SumAt(r, below) <= Cardinality(below) * q /\ Cardinality(below) * low <= SumAt(r, below)
  BY <1>9, <1>10, SumAtBounds
<1>12. IsFiniteSet(below)
  <2>1. IsFiniteSet(1..Len(r))
    BY <1>1, FirstPositions
  <2> QED BY <1>9, <2>1, FS_Subset
<1>13. Cardinality(below) \in Nat /\ Cardinality(below) # 0
  BY <1>7, <1>12, FS_CardinalityType, FS_EmptySet
<1>14. TailSum(r) = SumAt(r, below) /\ SumAt(r, below) \in Int
  BY <1>8, SumAtIsTotal DEF TailSum
<1>15. Cardinality(below) > 0
  BY <1>13
<1>16. SumAt(r, below) >= Cardinality(below) * low
  <2>1. PICK x \in Int : x = Cardinality(below) * low
    BY <1>13
  <2> QED BY <1>11, <1>14, <2>1
<1> QED BY <1>4, <1>5, <1>8, <1>11, <1>14, <1>15, <1>16

LEMMA TailAlwaysIsBeyondVar == PortfolioInv => TailIsBeyondVar
<1> SUFFICES ASSUME PortfolioInv PROVE TailIsBeyondVar
  OBVIOUS
<1>1. PICK r \in Seq(Int) : r = Returns
  BY ReturnsAre
<1>2. ASSUME ~VarResult.insufficient_data
      PROVE  Len(r) >= 2 /\ VarResult.quantile = Quantile(r) /\ VarResult.tail = Tail4(r)
  <2>1. ~(Len(r) < MinReturns)
    BY <1>1, <1>2 DEF VarResult
  <2>2. Len(r) >= 2
    <3>1. Len(r) \in Nat /\ MinReturns \in Nat /\ MinReturns >= 2
      BY PortfolioAssumption DEF ValidAnalyticsConfig
    <3> QED BY <2>1, <3>1
  <2> QED BY <1>1, <2>1, <2>2 DEF VarResult
<1> QED BY <1>1, <1>2, TailIs DEF TailIsBeyondVar

\* The statistics of the analytics agree, whatever positions S6 lists, whenever it restarts
\* or a pull fails, and however long the rolling series is: it ends with the sample of what
\* is held, and what is computed from both is the same money
\* (analytics_engine.py:80, 96, 107, 164, 269, 310, 354).
THEOREM StatisticsAlwaysAgree == PortfolioSpec => []StatisticsAgree
<1>1. PortfolioInv => StatisticsAgree
  BY PagesAlwaysAgree, MetricsAlwaysAgree, TailAlwaysIsBeyondVar DEF StatisticsAgree
<1> QED BY <1>1, PortfolioInvHolds, PTL

===========================================================================
