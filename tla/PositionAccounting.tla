------------------------ MODULE PositionAccounting ------------------------
(***************************************************************************)
(* One position of the S6 ledger (posk.models.PositionState) under any     *)
(* sequence of fills, manual adjustments and corporate actions.  The       *)
(* ledger applies fills in the order GET /fills returns them, which is the *)
(* newest first, so nothing is assumed about that order either.            *)
(*                                                                         *)
(* Two history variables are not in the code: outlay is the money paid for *)
(* what is held, and leaky says that an event has happened after which the *)
(* average-cost books no longer account for it.                            *)
(***************************************************************************)
EXTENDS AverageCost

CONSTANTS
  Quantities,   \* lots of a fill
  Prices,       \* prices of a fill
  Corrections,  \* signed lots of an adjustment
  NewAverages,  \* new_avg_price of an adjustment, -1 when absent
  SplitFactors, \* split factors: fractions
  PerShares,    \* per_share of a dividend
  MaxBookEvents \* bound: events applied to the position

ASSUME AccountInputsAssumption ==
  /\ Quantities \subseteq Nat \ {0}
  /\ Prices \subseteq Nat
  /\ Corrections \subseteq Int \ {0}
  /\ NewAverages \subseteq Nat \cup {-1}
  /\ SplitFactors \subseteq [num : Nat \ {0}, den : Nat \ {0}]
  /\ PerShares \subseteq Nat
  /\ MaxBookEvents \in Nat

VARIABLES pos, outlay, leaky, events

accountVars == <<pos, outlay, leaky, events>>

BookValue(p) == Times(p.net, p.avg)

Negative(a) == Times(-1, a)

---------------------------------------------------------------------------
AccountInit ==
  /\ pos = FlatPosition
  /\ outlay = Whole(0)
  /\ leaky = FALSE
  /\ events = 0

Count == events < MaxBookEvents /\ events' = events + 1

\* A fill that takes away half of the position or more and leaves some of it:
\* RemainingSigned is then at least as large as the position was.
HalvesOrMore(net, signed) ==
  /\ ~SameDirection(net, signed)
  /\ Magnitude(signed) < Magnitude(net)
  /\ Magnitude(net) <= 2 * Magnitude(signed)

Fill(side, qty, price) ==
  /\ Count
  /\ pos' = FillPosition(pos, side, qty, price)
  /\ outlay' = Plus(outlay, Whole(Signed(side, qty) * price))
  /\ leaky' = (leaky \/ HalvesOrMore(pos.net, Signed(side, qty)))

\* Only a position that some fill has created can be adjusted
\* (position_engine.py:142-144).  The operator vouches for the new book value,
\* so it counts as paid for.
Adjust(delta, newAvg) ==
  /\ pos.fillsApplied > 0
  /\ Count
  /\ pos' = AdjustPosition(pos, delta, newAvg)
  /\ outlay' = Plus(outlay, Plus(BookValue(pos'), Negative(BookValue(pos))))
  /\ UNCHANGED leaky

\* The engine skips flat positions (position_engine.py:177-178).
Split(factor) ==
  /\ pos.net # 0
  /\ Count
  /\ pos' = SplitPosition(pos, factor)
  /\ leaky' = (leaky \/ (pos.net * factor.num) % factor.den # 0)
  /\ UNCHANGED outlay

Dividend(perShare) ==
  /\ pos.net # 0
  /\ Count
  /\ pos' = PayDividend(pos, perShare)
  /\ outlay' = Plus(outlay, Whole(-Greater(0, pos.net) * perShare))
  /\ UNCHANGED leaky

AnyFill == \E side \in {"BUY", "SELL"}, qty \in Quantities, price \in Prices :
             Fill(side, qty, price)

AccountNext ==
  \/ AnyFill
  \/ \E delta \in Corrections, newAvg \in NewAverages : Adjust(delta, newAvg)
  \/ \E factor \in SplitFactors : Split(factor)
  \/ \E perShare \in PerShares : Dividend(perShare)

AccountSpec == AccountInit /\ [][AccountNext]_accountVars

---------------------------------------------------------------------------
\* Properties

\* Double entry: what was realized plus what was paid is what the open lots are
\* carried at.  So realized + unrealized P&L at any mark is net * mark - outlay,
\* whatever the order the fills were applied in (models.py:295-379).  It holds
\* until a fill reduces the position by half or more, or a split rounds lots.
BooksBalance ==
  ~leaky => Plus(pos.realized, outlay) = BookValue(pos)

\* models.py:300 "a pure reduction keeps the surviving lots' original cost".
ReductionKeepsCost ==
  [][AnyFill /\ pos'.net # 0 /\ pos.net # 0 /\ (pos'.net > 0) = (pos.net > 0)
       /\ Magnitude(pos'.net) < Magnitude(pos.net)
     => pos'.avg = pos.avg]_accountVars

===========================================================================
