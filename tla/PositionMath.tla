--------------------------- MODULE PositionMath ---------------------------
(***************************************************************************)
(* The arithmetic of one position (finance/transaction/pnl.cpp): how a     *)
(* trade changes its state, and the snapshot against a mark price. Money   *)
(* and quantities are 64 bit fixed-point numbers; a product or a quotient  *)
(* is computed in 128 bits and cut towards zero. Overflow of the result    *)
(* and percentages (floating point) are left out.                          *)
(***************************************************************************)
EXTENDS Integers, FiniteSetsExt

CONSTANTS
    Factor,     \* micro units of a whole share or contract
    Strikes     \* the strike prices of the options

ASSUME FactorAssumption == Factor \in Nat \ {0}

ASSUME StrikesAssumption == Strikes \subseteq Int

Types == {"Call", "Put"}
Sides == {"Buy", "Sell"}
Actions == {"Open", "Close", "RollOpen", "RollClose", "Exercised"}

(* Signed: the quantity of a sale is negative. *)
StockTrade == [qty : Int, price : Int, fees : Int]
OptionTrade == [type : Types, side : Sides, action : Actions, strike : Strikes,
                qty : Int, size : Int, premium : Int, fees : Int]

-----------------------------------------------------------------------------
(* Fixed-point arithmetic. *)

Abs(a) == IF a < 0 THEN -a ELSE a

Least(a, b) == IF a < b THEN a ELSE b

(* Integer division of C++: it cuts towards zero. *)
Cut(a, b) == IF (a < 0) = (b < 0) THEN Abs(a) \div Abs(b)
                                  ELSE -(Abs(a) \div Abs(b))

Times(cash, qty) == Cut(cash * qty, Factor)

(* b is not zero wherever the code divides; otherwise it throws. *)
Per(cash, qty) == Cut(cash * Factor, qty)

-----------------------------------------------------------------------------
(* The state and its updates. *)

LegKey == [type : Types, side : Sides, strike : Strikes]

(* A leg of quantity zero and a missing one are treated alike. *)
PositionState ==
    [openQuantity : Int, costBasis : Int, realizedPnL : Int,
     realizedCostBasis : Int, unrealizedOptionPnL : Int, fees : Int,
     contractSize : Int, legs : [LegKey -> Int]]

Fresh ==
    [openQuantity |-> 0, costBasis |-> 0, realizedPnL |-> 0,
     realizedCostBasis |-> 0, unrealizedOptionPnL |-> 0, fees |-> 0,
     contractSize |-> 0, legs |-> [k \in LegKey |-> 0]]

SameDirection(s, t) ==
    s.openQuantity = 0 \/ (s.openQuantity > 0) = (t.qty > 0)

AddTo(s, t) ==
    [s EXCEPT !.costBasis = @ + Times(t.price, Abs(t.qty)),
              !.openQuantity = @ + t.qty]

AverageCost(s) == Per(s.costBasis, Abs(s.openQuantity))

(* Mutant: a sale of a part releases the cost of the whole. *)
ReleasedWhole(s, closed) == s.costBasis

Released(s, closed) == Times(AverageCost(s), closed)

(* Mutant: the direction is not asked for. *)
LeavesLong(s, closed) == s.openQuantity - closed

Leaves(s, closed) ==
    IF s.openQuantity > 0 THEN s.openQuantity - closed
                          ELSE s.openQuantity + closed

ClosedBy(s, t) == Least(Abs(t.qty), Abs(s.openQuantity))

(* A trade against the position closes what it can. *)
Reduced(s, t) ==
    LET closed == ClosedBy(s, t)
        gain == Times(t.price - AverageCost(s), closed)
    IN  [s EXCEPT !.realizedPnL = @ + gain,
                  !.realizedCostBasis = @ + Released(s, closed),
                  !.costBasis = @ - Released(s, closed),
                  !.openQuantity = Leaves(s, closed)]

(* The rest opens a position of the opposite direction. *)
Flipped(s, t) ==
    LET rest == Abs(t.qty) - ClosedBy(s, t)
    IN  IF rest = 0 THEN Reduced(s, t)
        ELSE [Reduced(s, t) EXCEPT
                 !.costBasis = Times(t.price, rest),
                 !.openQuantity = IF t.qty > 0 THEN rest ELSE -rest]

Paying(s, t) == [s EXCEPT !.fees = @ + t.fees]

Opposite(side) == IF side = "Buy" THEN "Sell" ELSE "Buy"

LegOf(t, side) == [type |-> t.type, side |-> side, strike |-> t.strike]

Sized(s, t) == [s EXCEPT !.contractSize = IF @ = 0 THEN t.size ELSE @]

Received(t) == IF t.side = "Buy" THEN -t.premium ELSE t.premium

(* What an open leg costs or risks. *)
CostOf(s, t) ==
    IF t.side = "Buy" THEN t.premium
    ELSE Times(t.strike, t.qty * s.contractSize)

LegsWith(s, t) == [s.legs EXCEPT ![LegOf(t, t.side)] = @ + t.qty]

LegsWithout(s, t) ==
    [s.legs EXCEPT ![LegOf(t, Opposite(t.side))] =
        IF @ = 0 THEN 0 ELSE @ - t.qty]

Opened(s, t) ==
    [s EXCEPT !.legs = LegsWith(s, t),
              !.unrealizedOptionPnL = @ + Received(t),
              !.costBasis = @ + CostOf(s, t)]

(* Mutant: the share of one contract, however many are closed. *)
ShareOfOne(s, t, amount) ==
    LET open == s.legs[LegOf(t, Opposite(t.side))]
    IN  IF open = 0 THEN 0 ELSE Per(amount, open)

(* The share of an amount of the position that goes with the closed part
   of one leg: nothing, if there is no such leg. *)
Share(s, t, amount) ==
    LET open == s.legs[LegOf(t, Opposite(t.side))]
    IN  IF open = 0 THEN 0 ELSE Times(Per(amount, open), t.qty)

(* Nothing changes hands on the exercise itself. *)
Exercised(s, t) ==
    LET pnl == Share(s, t, s.unrealizedOptionPnL)
        cost == Share(s, t, s.costBasis)
    IN  [s EXCEPT !.legs = LegsWithout(s, t),
                  !.unrealizedOptionPnL = @ - pnl,
                  !.costBasis = @ - cost,
                  !.realizedCostBasis = @ + cost,
                  !.realizedPnL = @ + pnl]

(* Mutant: a close pays and brings no premium. *)
ClosedFree(s, t) == Exercised(s, t)

Closed(s, t) == [Exercised(s, t) EXCEPT !.realizedPnL = @ + Received(t)]

-----------------------------------------------------------------------------
(* The snapshot. *)

Greater(a, b) == IF a < b THEN b ELSE a

Intrinsic(s, k, mark) ==
    LET worth == IF k.type = "Call" THEN mark - k.strike ELSE k.strike - mark
        value == Greater(0, Times(worth, s.legs[k] * s.contractSize))
    IN  IF k.side = "Buy" THEN value ELSE -value

(* The legs that are in the list: a leg that is closed is erased. *)
OpenLegs(s) == {k \in LegKey : s.legs[k] # 0}

UnrealizedPnL(s, mark) ==
    s.unrealizedOptionPnL
    + (IF s.openQuantity = 0 THEN 0
       ELSE Times(mark - AverageCost(s), s.openQuantity))
    + MapThenSumSet(LAMBDA k : Intrinsic(s, k, mark), OpenLegs(s))

TotalPnL(s, mark) == s.realizedPnL + UnrealizedPnL(s, mark)

-----------------------------------------------------------------------------
(* One event of the fold. *)

Extends(s, t) == t.qty = 0 \/ SameDirection(s, t)

(* A trade of quantity zero changes the fees only. *)
WithStock(s, t) ==
    LET paid == Paying(s, t)
    IN  IF t.qty = 0 THEN paid
        ELSE IF SameDirection(s, t) THEN AddTo(paid, t) ELSE Flipped(paid, t)

(* Contracts of another size end the fold with an error. *)
Fits(s, t) == s.contractSize \in {0, t.size}

WithOption(s, t) ==
    LET paid == Paying(Sized(s, t), t)
    IN  CASE t.action \in {"Open", "RollOpen"} -> Opened(paid, t)
          [] t.action \in {"Close", "RollClose"} -> Closed(paid, t)
          [] t.action = "Exercised" -> Exercised(paid, t)
=============================================================================
