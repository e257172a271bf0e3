------------------------- MODULE RiskManager_proofs -------------------------
(***************************************************************************)
(* The velocity caps of the risk engine, for any windows, caps, symbols    *)
(* and requests: no window ever holds more allowed orders than its cap.    *)
(*                                                                         *)
(* The engine counts in a deque it keeps pruning; the property is about    *)
(* every order ever allowed.  What ties the two together is that a deque   *)
(* is the end of its history, and that what it has dropped is too old to   *)
(* count, now and later, because the clock does not step back.             *)
(***************************************************************************)
EXTENDS RiskManager, SequenceTheorems, FiniteSetTheorems, TLAPS

\* The times of the orders allowed, oldest first, none of them after t.
InOrder(log, t) ==
  /\ log \in Seq(Nat)
  /\ \A k \in 1..Len(log) : log[k] <= t
  /\ \A j, k \in 1..Len(log) : j <= k => log[j] <= log[k]

\* The deque is the end of the history, and the rest has left the window.
Tracks(deque, log, t) ==
  /\ deque \in Seq(Nat) /\ Len(deque) <= Len(log)
  /\ \A k \in 1..Len(deque) : deque[k] = log[Len(log) - Len(deque) + k]
  /\ \A k \in 1..(Len(log) - Len(deque)) : log[k] <= t - Window

\* One counter and its history, at time t.
CounterInv(deque, log, cap, t) == InOrder(log, t) /\ Tracks(deque, log, t) /\ Spread(log, cap)

VelocityInv ==
  /\ now \in Nat
  /\ velocity \in [Symbols -> Seq(Nat)] /\ allowedLog \in [Symbols -> Seq(Nat)]
  /\ CounterInv(velocityAll, allowedAll, MaxOrdersTotal, now)
  /\ \A s \in Symbols : CounterInv(velocity[s], allowedLog[s], MaxOrdersPerSymbol, now)

LEMMA Config == Window \in Nat \ {0} /\ MaxOrdersPerSymbol \in Nat \ {0}
                /\ MaxOrdersTotal \in Nat \ {0}
BY ConfigAssumption DEF ValidRiskConfig

---------------------------------------------------------------------------
\* One counter

\* The first n positions are n.
LEMMA FirstPositions ==
  ASSUME NEW n \in Nat
  PROVE  IsFiniteSet(1..n) /\ Cardinality(1..n) = n
<1>1. 1 \in Int /\ n \in Int /\ (1 > n => n = 0)
  OBVIOUS
<1> QED BY <1>1, FS_Interval

\* Pruning pops some of the front, all of it old.
LEMMA RecentIsSuffix ==
  ASSUME NEW times \in Seq(Nat)
  PROVE  \E c \in 0..Len(times) :
           /\ Recent(times) = SubSeq(times, c + 1, Len(times))
           /\ \A k \in 1..c : times[k] <= now - Window
<1> DEFINE old == {k \in DOMAIN times : \A j \in 1..k : times[j] <= now - Window}
           c == Cardinality(old)
<1>0. Len(times) \in Nat /\ DOMAIN times = 1..Len(times)
  OBVIOUS
<1>1. IsFiniteSet(1..Len(times)) /\ Cardinality(1..Len(times)) = Len(times)
  BY <1>0, FirstPositions
<1>2. old \subseteq 1..Len(times) /\ IsFiniteSet(old) /\ c \in Nat /\ c <= Len(times)
  <2>1. old \subseteq 1..Len(times)
    BY <1>0
  <2> QED BY <1>1, <2>1, FS_Subset, FS_CardinalityType
<1>3. ASSUME NEW k \in 1..c, k \notin old PROVE FALSE
  <2>1. old \subseteq 1..(k - 1)
    <3> SUFFICES ASSUME NEW m \in old, k <= m PROVE FALSE
      BY <1>0, <1>2
    <3>1. \A j \in 1..k : times[j] <= now - Window
      BY <1>0, <1>2
    <3> QED BY <1>0, <1>2, <1>3, <3>1
  <2>2. IsFiniteSet(1..(k - 1)) /\ Cardinality(1..(k - 1)) = k - 1
    <3>1. k - 1 \in Nat
      BY <1>2
    <3> QED BY <3>1, FirstPositions
  <2>3. c <= k - 1
    BY <2>1, <2>2, FS_Subset
  <2> QED BY <1>2, <2>3
<1>4. \A k \in 1..c : times[k] <= now - Window
  BY <1>2, <1>3
<1>5. Recent(times) = SubSeq(times, c + 1, Len(times))
  BY DEF Recent
<1>6. c \in 0..Len(times)
  BY <1>0, <1>2
<1> HIDE DEF c
<1> QED BY <1>4, <1>5, <1>6

LEMMA RecentTracks ==
  ASSUME now \in Nat, NEW deque, NEW log, InOrder(log, now), Tracks(deque, log, now)
  PROVE  Tracks(Recent(deque), log, now)
<1>1. deque \in Seq(Nat) /\ Len(deque) \in Nat /\ log \in Seq(Nat) /\ Len(log) \in Nat
      /\ Len(deque) <= Len(log)
  BY LenProperties DEF Tracks, InOrder
<1>2. PICK c \in 0..Len(deque) :
        /\ Recent(deque) = SubSeq(deque, c + 1, Len(deque))
        /\ \A k \in 1..c : deque[k] <= now - Window
  BY <1>1, RecentIsSuffix
<1> DEFINE rest == Recent(deque)
<1>3. /\ rest \in Seq(Nat) /\ Len(rest) = Len(deque) - c
      /\ \A k \in 1..Len(rest) : rest[k] = deque[c + k]
  <2>1. c + 1 \in 1..(Len(deque) + 1)
    BY <1>1
  <2>2. SubSeq(deque, c + 1, Len(deque)) \in Seq(Nat)
        /\ Len(SubSeq(deque, c + 1, Len(deque))) = Len(deque) - c
        /\ \A k \in 1..(Len(deque) - c) : SubSeq(deque, c + 1, Len(deque))[k] = deque[c + k]
    BY <1>1, <2>1
  <2> QED BY <1>2, <2>2
<1> HIDE DEF rest
<1>4. ASSUME NEW k \in 1..Len(rest) PROVE rest[k] = log[Len(log) - Len(rest) + k]
  <2>1. c + k \in 1..Len(deque) /\ Len(log) - Len(deque) + (c + k) = Len(log) - Len(rest) + k
    BY <1>1, <1>3
  <2> QED BY <1>3, <2>1 DEF Tracks
<1>5. ASSUME NEW k \in 1..(Len(log) - Len(rest)) PROVE log[k] <= now - Window
  <2>1. CASE k <= Len(log) - Len(deque)
    BY <1>1, <1>3, <2>1 DEF Tracks
  <2>2. CASE k > Len(log) - Len(deque)
    <3> DEFINE i == k - (Len(log) - Len(deque))
    <3>1. i \in 1..c /\ i \in 1..Len(deque) /\ Len(log) - Len(deque) + i = k
      BY SMTT(30), <1>1, <1>3, <2>2
    <3>2. deque[i] = log[k] /\ deque[i] <= now - Window
      BY <1>2, <3>1 DEF Tracks
    <3> QED BY <3>2
  <2> QED BY <1>1, <1>3, <2>1, <2>2
<1>6. Len(rest) <= Len(log)
  BY <1>1, <1>3
<1> QED BY <1>3, <1>4, <1>5, <1>6 DEF rest, Tracks

\* One order more, while the pruned deque has room for it.
LEMMA OneMore ==
  ASSUME now \in Nat, NEW deque, NEW log, NEW cap \in Nat \ {0},
         CounterInv(deque, log, cap, now), Len(Recent(deque)) + 1 <= cap
  PROVE  CounterInv(Recent(deque) \o <<now>>, log \o <<now>>, cap, now)
<1> DEFINE rest == Recent(deque)
           n == Len(log)
           more == log \o <<now>>
           kept == rest \o <<now>>
<1>1. Tracks(rest, log, now) /\ InOrder(log, now) /\ Spread(log, cap)
  BY RecentTracks DEF CounterInv
<1> HIDE DEF rest
<1>2. /\ rest \in Seq(Nat) /\ Len(rest) \in Nat /\ log \in Seq(Nat) /\ n \in Nat
      /\ Len(rest) <= n /\ Len(rest) + 1 <= cap
  BY <1>1, LenProperties DEF Tracks, InOrder, rest
<1>3. /\ more \in Seq(Nat) /\ Len(more) = n + 1 /\ more[n + 1] = now
      /\ \A k \in 1..n : more[k] = log[k]
  BY <1>2
<1>4. /\ kept \in Seq(Nat) /\ Len(kept) = Len(rest) + 1 /\ kept[Len(rest) + 1] = now
      /\ \A k \in 1..Len(rest) : kept[k] = rest[k]
  BY <1>2
<1>m. DOMAIN more = 1..(n + 1) /\ DOMAIN log = 1..n
  BY <1>2, <1>3
<1> HIDE DEF more, kept, n
<1>5. InOrder(more, now)
  <2>1. \A k \in 1..n : more[k] <= now
    BY <1>1, <1>3 DEF InOrder, n
  <2>2. \A j, k \in 1..n : j <= k => more[j] <= more[k]
    BY <1>1, <1>3 DEF InOrder, n
  <2>3. \A j \in 1..(n + 1) : j \in 1..n \/ j = n + 1
    BY <1>2
  <2>4. \A k \in 1..(n + 1) : more[k] <= now
    BY <1>3, <2>1, <2>3
  <2>5. ASSUME NEW j \in 1..(n + 1), NEW k \in 1..(n + 1), j <= k PROVE more[j] <= more[k]
    <3>1. CASE k = n + 1
      BY <1>3, <2>4, <3>1
    <3>2. CASE k \in 1..n
      <4>1. j \in 1..n
        BY <1>2, <2>5, <3>2
      <4> QED BY <2>2, <2>5, <3>2, <4>1
    <3> QED BY <2>3, <3>1, <3>2
  <2> QED BY <1>3, <2>4, <2>5 DEF InOrder
<1>6. Tracks(kept, more, now)
  <2>1. \A k \in 1..n : more[k] = log[k]
    BY <1>3
  <2>2. ASSUME NEW k \in 1..Len(kept) PROVE kept[k] = more[Len(more) - Len(kept) + k]
    <3>1. Len(more) - Len(kept) + k = n - Len(rest) + k
      BY <1>2, <1>3, <1>4
    <3>2. CASE k = Len(rest) + 1
      BY <1>2, <1>3, <1>4, <3>1, <3>2
    <3>3. CASE k \in 1..Len(rest)
      <4>1. n - Len(rest) + k \in 1..n
        BY <1>2, <3>3
      <4>2. rest[k] = log[n - Len(rest) + k]
        BY <1>1, <3>3 DEF Tracks, n
      <4> QED BY <1>4, <2>1, <3>1, <3>3, <4>1, <4>2
    <3> QED BY <1>2, <1>4, <3>2, <3>3
  <2>3. ASSUME NEW k \in 1..(Len(more) - Len(kept)) PROVE more[k] <= now - Window
    <3>1. k \in 1..(n - Len(rest)) /\ k \in 1..n
      BY <1>2, <1>3, <1>4
    <3>2. log[k] <= now - Window
      BY <1>1, <3>1 DEF Tracks, n
    <3> QED BY <2>1, <3>1, <3>2
  <2> QED BY <1>2, <1>3, <1>4, <2>2, <2>3 DEF Tracks
<1>7. Spread(more, cap)
  <2> SUFFICES ASSUME NEW k \in 1..(n + 1), k + cap \in 1..(n + 1)
               PROVE  more[k + cap] - more[k] >= Window
    BY <1>m DEF Spread
  <2>1. k \in 1..n /\ more[k] = log[k] /\ log[k] \in Nat
    <3>1. k \in 1..n
      BY <1>2
    <3>2. log[k] \in Nat
      BY <1>2, <3>1, ElementOfSeq DEF n
    <3> QED BY <1>3, <3>1, <3>2
  <2>2. CASE k + cap \in 1..n
    BY <1>1, <1>3, <1>m, <2>1, <2>2 DEF Spread
  <2>3. CASE k + cap = n + 1
    <3>1. k \in 1..(n - Len(rest))
      BY <1>2, <2>1, <2>3
    <3>2. log[k] <= now - Window
      BY <1>1, <3>1 DEF Tracks, n
    <3> QED BY <1>3, <2>1, <2>3, <3>2, Config
  <2> QED BY <1>2, <2>2, <2>3
<1> QED BY <1>5, <1>6, <1>7 DEF CounterInv, more, kept, rest

\* No order: the deque is pruned all the same.
LEMMA NoneMore ==
  ASSUME now \in Nat, NEW deque, NEW log, NEW cap, CounterInv(deque, log, cap, now)
  PROVE  CounterInv(Recent(deque) \o <<>>, log \o <<>>, cap, now)
<1>1. Tracks(Recent(deque), log, now)
  BY RecentTracks DEF CounterInv
<1>2. Recent(deque) \o <<>> = Recent(deque) /\ log \o <<>> = log
  BY <1>1 DEF CounterInv, Tracks, InOrder
<1> QED BY <1>1, <1>2 DEF CounterInv

\* Time passes.
LEMMA Later ==
  ASSUME NEW t \in Nat, NEW deque, NEW log, NEW cap, CounterInv(deque, log, cap, t)
  PROVE  CounterInv(deque, log, cap, t + 1)
<1>1. \A k \in 1..Len(log) : log[k] \in Nat
  BY DEF CounterInv, InOrder
<1>2. Len(log) \in Nat /\ Len(deque) \in Nat /\ Len(deque) <= Len(log)
  BY LenProperties DEF CounterInv, InOrder, Tracks
<1> QED BY SMTT(30), <1>1, <1>2, Config DEF CounterInv, InOrder, Tracks

---------------------------------------------------------------------------
LEMMA InitVelocity == Init => VelocityInv
<1> SUFFICES ASSUME Init PROVE VelocityInv
  OBVIOUS
<1>1. ASSUME NEW cap PROVE CounterInv(<<>>, <<>>, cap, now)
  BY DEF CounterInv, InOrder, Tracks, Spread
<1> QED BY <1>1 DEF Init, VelocityInv

\* An allowed order has passed the two checks of the counters.
LEMMA AllowedHasRoom ==
  ASSUME NEW r, Allowed(r)
  PROVE  /\ ~(Len(Recent(velocity[r.symbol])) + 1 > MaxOrdersPerSymbol)
         /\ ~(Len(Recent(velocityAll)) + 1 > MaxOrdersTotal)
<1>1. /\ 4 \in DOMAIN Checks /\ Checks[4] = "velocity_symbol"
      /\ 5 \in DOMAIN Checks /\ Checks[5] = "velocity_total"
  BY DEF Checks
<1>2. Verdict("velocity_symbol", r) # "HARD" /\ Verdict("velocity_total", r) # "HARD"
  BY <1>1 DEF Allowed, Vetoed
<1>3. Verdict("velocity_symbol", r) = HardIf(Len(Recent(velocity[r.symbol])) + 1 > MaxOrdersPerSymbol)
  BY DEF Verdict
<1>4. Verdict("velocity_total", r) = HardIf(Len(Recent(velocityAll)) + 1 > MaxOrdersTotal)
  BY DEF Verdict
<1> QED BY <1>2, <1>3, <1>4 DEF HardIf

LEMMA CheckKeepsCaps ==
  ASSUME VelocityInv, NEW r \in Request, CheckOrder(r)
  PROVE  VelocityInv'
<1> DEFINE taken == IF Allowed(r) THEN <<now>> ELSE <<>>
           s == r.symbol
<1>1. /\ now' = now /\ s \in Symbols
      /\ velocity' = [velocity EXCEPT ![s] = Recent(@) \o taken]
      /\ velocityAll' = Recent(velocityAll) \o taken
      /\ allowedLog' = [allowedLog EXCEPT ![s] = @ \o taken]
      /\ allowedAll' = allowedAll \o taken
  BY DEF CheckOrder, Commit, Request
<1>2. CounterInv(velocity[s], allowedLog[s], MaxOrdersPerSymbol, now)
      /\ CounterInv(velocityAll, allowedAll, MaxOrdersTotal, now) /\ now \in Nat
  BY <1>1 DEF VelocityInv
<1>3. /\ CounterInv(Recent(velocity[s]) \o taken, allowedLog[s] \o taken, MaxOrdersPerSymbol, now)
      /\ CounterInv(Recent(velocityAll) \o taken, allowedAll \o taken, MaxOrdersTotal, now)
  <2>1. CASE Allowed(r)
    <3>1. taken = <<now>>
      BY <2>1
    <3>2. /\ Recent(velocity[s]) \in Seq(Nat) /\ Recent(velocityAll) \in Seq(Nat)
      BY <1>2, RecentTracks DEF CounterInv, Tracks
    <3>3. Len(Recent(velocity[s])) + 1 <= MaxOrdersPerSymbol
          /\ Len(Recent(velocityAll)) + 1 <= MaxOrdersTotal
      BY <2>1, <3>2, AllowedHasRoom, Config, LenProperties
    <3> QED BY <1>2, <3>1, <3>3, OneMore, Config
  <2>2. CASE ~Allowed(r)
    <3>1. taken = <<>>
      BY <2>2
    <3> QED BY <1>2, <3>1, NoneMore
  <2> QED BY <2>1, <2>2
<1> HIDE DEF taken
<1>4. ASSUME NEW u \in Symbols
      PROVE  CounterInv(velocity'[u], allowedLog'[u], MaxOrdersPerSymbol, now)
  BY <1>1, <1>3 DEF VelocityInv
<1>5. velocity' \in [Symbols -> Seq(Nat)] /\ allowedLog' \in [Symbols -> Seq(Nat)]
  BY <1>1, <1>3 DEF VelocityInv, CounterInv, InOrder, Tracks
<1> QED BY <1>1, <1>2, <1>3, <1>4, <1>5 DEF VelocityInv

LEMMA NextVelocity == VelocityInv /\ [Next]_vars => VelocityInv'
<1> SUFFICES ASSUME VelocityInv, [Next]_vars PROVE VelocityInv'
  OBVIOUS
<1>1. ASSUME UNCHANGED <<velocity, velocityAll, now, allowedVars>> PROVE VelocityInv'
  BY <1>1 DEF allowedVars, VelocityInv
<1>2. ASSUME NEW r \in Requests, PreTradeCheck(r) PROVE VelocityInv'
  <2>1. CASE RefuseWhileEngaged(r)
    BY <1>1, <2>1 DEF RefuseWhileEngaged
  <2>2. CASE CheckOrder(r)
    BY <2>2, CheckKeepsCaps, RequestsAssumption
  <2> QED BY <1>2, <2>1, <2>2 DEF PreTradeCheck
<1>3. ASSUME NEW f \in FillReports, IngestFill(f) PROVE VelocityInv'
  BY <1>1, <1>3 DEF IngestFill
<1>4. ASSUME NEW ids \in SUBSET OrderIds, SetOpenOrders(ids) PROVE VelocityInv'
  BY <1>1, <1>4 DEF SetOpenOrders
<1>5. ASSUME NEW symbol \in Symbols, NEW mid \in BookMids, SetReferencePrice(symbol, mid)
      PROVE  VelocityInv'
  BY <1>1, <1>5 DEF SetReferencePrice
<1>6. ASSUME NEW u \in LimitUpdates, UpdateLimits(u) PROVE VelocityInv'
  BY <1>1, <1>6 DEF UpdateLimits
<1>7. ASSUME ResetLimits PROVE VelocityInv'
  BY <1>1, <1>7 DEF ResetLimits
<1>8. ASSUME NEW t \in Threads, EngageStep(t) PROVE VelocityInv'
  BY <1>1, <1>8 DEF EngageStep, Engage, ListOpenOrders, CancelNext, engineVars
<1>9. ASSUME Disengage PROVE VelocityInv'
  BY <1>1, <1>9 DEF Disengage
<1>10. ASSUME Tick PROVE VelocityInv'
  <2>1. /\ now' = now + 1 /\ now \in Nat
        /\ UNCHANGED <<velocity, velocityAll, allowedLog, allowedAll>>
    BY <1>10 DEF Tick, engineVars, allowedVars, VelocityInv
  <2>2. CounterInv(velocityAll, allowedAll, MaxOrdersTotal, now')
    BY <2>1, Later DEF VelocityInv
  <2>3. ASSUME NEW u \in Symbols
        PROVE  CounterInv(velocity[u], allowedLog[u], MaxOrdersPerSymbol, now')
    BY <2>1, Later DEF VelocityInv
  <2> QED BY <2>1, <2>2, <2>3 DEF VelocityInv
<1>11. ASSUME UNCHANGED vars PROVE VelocityInv'
  BY <1>1, <1>11 DEF vars, engineVars, allowedVars
<1> QED BY <1>2, <1>3, <1>4, <1>5, <1>6, <1>7, <1>8, <1>9, <1>10, <1>11 DEF Next

\* No window of any symbol, nor of the whole book, ever holds more allowed orders than
\* its cap, although the engine counts in deques it prunes at every check
\* (risk_engine.py:54-58, 275-298, 378-382).
THEOREM VelocityCaps == Spec => []VelocityCapsHold
<1>1. VelocityInv => VelocityCapsHold
  BY DEF VelocityInv, CounterInv, VelocityCapsHold
<1> QED BY InitVelocity, NextVelocity, <1>1, PTL DEF Spec

============================================================================
