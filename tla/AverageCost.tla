--------------------------- MODULE AverageCost ----------------------------
(***************************************************************************)
(* Average-cost accounting of one position: the arithmetic of              *)
(* posk.models.PositionState (S6), whose apply_fill the risk manager has a *)
(* copy of in rkm.models.PositionState (S5).                               *)
(*                                                                         *)
(* Quantities are integers, as in the code.  A price or an amount of money *)
(* is a float there and an exact fraction here: rounding errors are left   *)
(* out, the formulas are not.  gross_cost is |net_qty| * avg_price after   *)
(* every operation, so it is derived instead of stored.                    *)
(***************************************************************************)
EXTENDS Integers

---------------------------------------------------------------------------
\* Fractions, in lowest terms, so that equal amounts are equal values.

Fraction == [num : Int, den : Nat \ {0}]

Magnitude(n) == IF n < 0 THEN -n ELSE n

\* The same amount with the smallest denominator.
InLowestTerms ==
  [f \in Fraction |->
     LET clears == {e \in 1..f.den : (f.num * e) % f.den = 0}
         den    == CHOOSE e \in clears : \A g \in clears : e <= g
     IN  [num |-> (f.num * den) \div f.den, den |-> den]]

Reduced(n, d) == InLowestTerms[[num |-> n, den |-> d]]

Whole(n) == [num |-> n, den |-> 1]

Plus(a, b) == Reduced(a.num * b.den + b.num * a.den, a.den * b.den)

Times(k, a) == Reduced(k * a.num, a.den)

Over(a, k) == Reduced(a.num, a.den * k)

Lesser(a, b) == IF a < b THEN a ELSE b

Greater(a, b) == IF a < b THEN b ELSE a

\* round(n / d) of Python: to the nearest integer, a tie to the even one.
RoundHalfEven(n, d) ==
  LET low == n \div d
      r   == n % d
  IN  IF 2 * r < d \/ (2 * r = d /\ low % 2 = 0) THEN low ELSE low + 1

---------------------------------------------------------------------------
\* Positions

Position == [net : Int, avg : Fraction, realized : Fraction, lastPx : Int,
             fillsApplied : Nat, adjustments : Nat]

FlatPosition == [net |-> 0, avg |-> Whole(0), realized |-> Whole(0), lastPx |-> 0,
                 fillsApplied |-> 0, adjustments |-> 0]

Signed(side, qty) == IF side = "BUY" THEN qty ELSE -qty

SameDirection(net, signed) == net = 0 \/ (net > 0) = (signed > 0)

Direction(net) == IF net > 0 THEN 1 ELSE -1

Closing(net, signed) == Lesser(Magnitude(net), Magnitude(signed))

\* What the code computes as "remaining": it subtracts the closed lots from a
\* fill that already points the other way, so a pure reduction comes out as
\* minus twice the fill and not as 0.
RemainingSigned(net, signed) == signed - Direction(net) * Closing(net, signed)

\* The entry price after a fill of `signed` lots at `price`.
AvgAfterFill(net, avg, signed, price) ==
  IF SameDirection(net, signed)
  THEN Over(Plus(Times(Magnitude(net), avg), Times(Magnitude(signed), Whole(price))),
            Magnitude(net + signed))
  ELSE LET remaining == RemainingSigned(net, signed)
       IN  IF remaining = 0 THEN Whole(0)
           ELSE IF Magnitude(remaining) < Magnitude(net) THEN avg
           ELSE Whole(price)

\* Mutant: the whole fill realizes P&L, also the part that re-opens a flipped position.
RealizedByFill_WholeFill(net, avg, signed, price) ==
  IF SameDirection(net, signed) THEN Whole(0)
  ELSE Times(Magnitude(signed) * Direction(net), Plus(Whole(price), Times(-1, avg)))

\* The P&L a fill realizes: nothing when it opens or adds.
RealizedByFill(net, avg, signed, price) ==
  IF SameDirection(net, signed) THEN Whole(0)
  ELSE Times(Closing(net, signed) * Direction(net), Plus(Whole(price), Times(-1, avg)))

\* PositionState.apply_fill; from_dict lets no fill with qty <= 0 through.
FillPosition(pos, side, qty, price) ==
  LET signed == Signed(side, qty) IN
  [pos EXCEPT !.net = @ + signed,
              !.avg = AvgAfterFill(pos.net, pos.avg, signed, price),
              !.realized = Plus(@, RealizedByFill(pos.net, pos.avg, signed, price)),
              !.lastPx = price,
              !.fillsApplied = @ + 1]

\* PositionState.apply_adjustment.  newAvg is a price, or -1 for "not given".
AdjustPosition(pos, delta, newAvg) ==
  [pos EXCEPT !.net = @ + delta,
              !.avg = IF newAvg >= 0 THEN Whole(newAvg)
                      ELSE IF pos.net + delta = 0 THEN Whole(0) ELSE @,
              !.adjustments = @ + 1]

\* PositionState.apply_corporate_action, SPLIT by the fraction factor > 0.
SplitPosition(pos, factor) ==
  [pos EXCEPT !.net = RoundHalfEven(@ * factor.num, factor.den),
              !.avg = IF @.num > 0
                      THEN Over(Times(factor.den, @), factor.num) ELSE @]

\* PositionState.apply_corporate_action, DIVIDEND: paid on long lots only.
PayDividend(pos, perShare) ==
  [pos EXCEPT !.realized = Plus(@, Whole(Greater(0, pos.net) * perShare))]

===========================================================================
