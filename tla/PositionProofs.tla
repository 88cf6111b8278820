---------------------------- MODULE PositionProofs ---------------------------
(***************************************************************************)
(* What the fold over the trades of a position keeps, for every set of     *)
(* trades and every unit of the fixed-point numbers: its state stays well  *)
(* typed, the open quantity is the sum of the trades, the premiums that    *)
(* are realized and not realized are those that were exchanged, and what   *)
(* is cut off along the way stays within a bound.  Then the prices that    *)
(* open positions are valued with, for all tickers, accounts, files and    *)
(* answers: the types, the prices that are shown, and that the feed        *)
(* implements the board.                                                   *)
(***************************************************************************)
EXTENDS Pnl, PriceFeed, FiniteSetTheorems, TLAPS

-----------------------------------------------------------------------------
(* Arithmetic: products and quotients are integers, whatever is cut off. *)

LEMMA CutType ==
    ASSUME NEW a \in Int, NEW b \in Int, b # 0
    PROVE  Cut(a, b) \in Int
<1>1. Abs(a) \in Nat /\ Abs(b) \in Nat \ {0}
    BY DEF Abs
<1>2. Abs(a) \div Abs(b) \in Int
    BY <1>1
<1> QED
    BY <1>2 DEF Cut

LEMMA TimesType ==
    ASSUME NEW cash \in Int, NEW qty \in Int
    PROVE  Times(cash, qty) \in Int
<1>1. cash * qty \in Int
    OBVIOUS
<1> QED
    BY <1>1, CutType, FactorAssumption DEF Times

LEMMA PerType ==
    ASSUME NEW cash \in Int, NEW qty \in Int, qty # 0
    PROVE  Per(cash, qty) \in Int
<1>1. cash * Factor \in Int
    BY FactorAssumption
<1> QED
    BY <1>1, CutType DEF Per

(* Division of natural numbers leaves less than the divisor. *)
LEMMA Division ==
    ASSUME NEW a \in Nat, NEW b \in Nat \ {0}
    PROVE  /\ a \div b \in Nat
           /\ b * (a \div b) <= a
           /\ a < b * (a \div b) + b
OBVIOUS

LEMMA Multiples ==
    ASSUME NEW b \in Nat \ {0}, NEW x \in Int, NEW y \in Int, b * x < b * y
    PROVE  x < y
OBVIOUS

(* Cut goes towards zero, by less than the divisor. *)
LEMMA CutBounds ==
    ASSUME NEW a \in Int, NEW b \in Nat \ {0}
    PROVE  /\ Cut(a, b) \in Int
           /\ a >= 0 => b * Cut(a, b) <= a /\ a < b * Cut(a, b) + b
           /\ a <= 0 => a <= b * Cut(a, b) /\ b * Cut(a, b) - b < a
<1> DEFINE c == Abs(a) \div b
<1>1. Abs(a) \in Nat /\ Abs(b) = b /\ (b < 0) = FALSE
    BY DEF Abs
<1>2. c \in Nat /\ b * c <= Abs(a) /\ Abs(a) < b * c + b
    BY <1>1, Division
<1>3. Cut(a, b) = IF a < 0 THEN -c ELSE c
    BY <1>1 DEF Cut
<1> HIDE DEF c
<1>4. b * (-c) = -(b * c) /\ b * c \in Int
    BY <1>2
<1> QED
    BY <1>1, <1>2, <1>3, <1>4 DEF Abs

LEMMA CutValue ==
    ASSUME NEW a \in Int, NEW b \in Nat \ {0}
    PROVE  /\ Cut(a, b) = IF a < 0 THEN -(Abs(a) \div b) ELSE Abs(a) \div b
           /\ Abs(a) \in Nat /\ Abs(a) \div b \in Nat
           /\ a = 0 => Abs(a) \div b = 0
<1>1. Abs(a) \in Nat /\ Abs(b) = b /\ (b < 0) = FALSE
    BY DEF Abs
<1>2. Abs(a) \div b \in Nat /\ (Abs(a) = 0 => Abs(a) \div b = 0)
    BY <1>1
<1> QED
    BY <1>1, <1>2 DEF Cut, Abs

(* A sale costs what a purchase would bring. *)
LEMMA CutNegative ==
    ASSUME NEW a \in Int, NEW b \in Nat \ {0}
    PROVE  Cut(-a, b) = -Cut(a, b)
<1>1. Abs(-a) = Abs(a)
    BY DEF Abs
<1>2. -a \in Int
    OBVIOUS
<1> DEFINE q == Abs(a) \div b
<1>3. /\ Cut(a, b) = IF a < 0 THEN -q ELSE q
      /\ q \in Nat
      /\ a = 0 => q = 0
    BY CutValue
<1>4. Cut(-a, b) = IF -a < 0 THEN -q ELSE q
    BY <1>1, <1>2, CutValue
<1> HIDE DEF q
<1> QED
    BY <1>3, <1>4

LEMMA DivisionGrows ==
    ASSUME NEW a \in Nat, NEW c \in Nat, a <= c, NEW b \in Nat \ {0}
    PROVE  a \div b <= c \div b
<1> DEFINE x == a \div b
           y == c \div b
<1>1. /\ x \in Nat /\ b * x <= a
      /\ y \in Nat /\ c < b * y + b
    BY Division
<1>2. b * x < b * (y + 1)
    <2> HIDE DEF x, y
    <2>1. b * (y + 1) = b * y + b /\ b * x \in Int /\ b * y \in Int
        BY <1>1
    <2> QED
        BY <1>1, <2>1
<1>3. x < y + 1
    <2> HIDE DEF x, y
    <2> QED
        BY <1>1, <1>2, Multiples
<1> QED
    BY <1>1, <1>3

(* From the multiples of a unit to the unit. *)
LEMMA Within ==
    ASSUME NEW b \in Nat \ {0}, NEW d \in Int, NEW n \in Nat,
           -(b * n) - b < b * d, b * d < b * n + b
    PROVE  Abs(d) <= n
<1>1. /\ b * (n + 1) = b * n + b
      /\ b * (-n - 1) = -(b * n) - b
    OBVIOUS
<1>2. d < n + 1 /\ -n - 1 < d
    BY <1>1, Multiples
<1> QED
    BY <1>2 DEF Abs

(* Cutting two parts and cutting their sum differ by at most one unit. *)
LEMMA CutSum ==
    ASSUME NEW x \in Int, NEW y \in Int, NEW b \in Nat \ {0}
    PROVE  Abs(Cut(x, b) + Cut(y, b) - Cut(x + y, b)) <= 1
<1> DEFINE cx == Cut(x, b)
           cy == Cut(y, b)
           cz == Cut(x + y, b)
<1>1. /\ cx \in Int /\ cy \in Int /\ cz \in Int
      /\ x >= 0 => b * cx <= x /\ x < b * cx + b
      /\ x <= 0 => x <= b * cx /\ b * cx - b < x
      /\ y >= 0 => b * cy <= y /\ y < b * cy + b
      /\ y <= 0 => y <= b * cy /\ b * cy - b < y
      /\ x + y >= 0 => b * cz <= x + y /\ x + y < b * cz + b
      /\ x + y <= 0 => x + y <= b * cz /\ b * cz - b < x + y
    BY CutBounds
<1> HIDE DEF cx, cy, cz
<1>2. /\ b * (cx + cy - cz) = b * cx + b * cy - b * cz
      /\ b * cx \in Int /\ b * cy \in Int /\ b * cz \in Int /\ b * 1 = b
    BY <1>1
<1>3. /\ -(b * 1) - b < b * (cx + cy - cz)
      /\ b * (cx + cy - cz) < b * 1 + b
    <2> DEFINE u == b * cx
               v == b * cy
               w == b * cz
    <2>1. u \in Int /\ v \in Int /\ w \in Int
        BY <1>2
    <2>2. /\ x >= 0 => u <= x /\ x < u + b
          /\ x <= 0 => x <= u /\ u - b < x
          /\ y >= 0 => v <= y /\ y < v + b
          /\ y <= 0 => y <= v /\ v - b < y
          /\ x + y >= 0 => w <= x + y /\ x + y < w + b
          /\ x + y <= 0 => x + y <= w /\ w - b < x + y
        BY <1>1
    <2> HIDE DEF u, v, w
    <2>3. -b - b < u + v - w /\ u + v - w < b + b
        BY <2>1, <2>2
    <2> QED
        BY <1>2, <2>3 DEF u, v, w
<1>4. cx + cy - cz \in Int
    BY <1>1
<1>5. Abs(cx + cy - cz) <= 1
    BY <1>3, <1>4, Within
<1> QED
    BY <1>5 DEF cx, cy, cz

(* What is left of an amount when the share of all that is open is taken
   from it: a unit for each whole share, since the average is cut. *)
LEMMA WholeShare ==
    ASSUME NEW amount \in Int, NEW q \in Nat \ {0}
    PROVE  Abs(amount - Times(Per(amount, q), q)) <= 1 + q \div Factor
<1> DEFINE a == Per(amount, q)
           r == Times(a, q)
           k == q \div Factor
<1>1. Factor \in Nat \ {0} /\ amount * Factor \in Int
    BY FactorAssumption
<1>2. /\ a \in Int
      /\ amount * Factor >= 0 => q * a <= amount * Factor /\ amount * Factor < q * a + q
      /\ amount * Factor <= 0 => amount * Factor <= q * a /\ q * a - q < amount * Factor
    BY <1>1, CutBounds DEF Per
<1> HIDE DEF a
<1>3. a * q \in Int /\ q * a = a * q
    BY <1>2
<1>4. /\ r \in Int
      /\ a * q >= 0 => Factor * r <= a * q /\ a * q < Factor * r + Factor
      /\ a * q <= 0 => a * q <= Factor * r /\ Factor * r - Factor < a * q
    BY <1>1, <1>3, CutBounds DEF Times
<1>5. k \in Nat /\ q < Factor * k + Factor
    BY <1>1, Division
<1> HIDE DEF r, k
<1>6. /\ Factor * (amount - r) = amount * Factor - Factor * r
      /\ Factor * (1 + k) = Factor + Factor * k
      /\ Factor * r \in Int /\ Factor * k \in Int
    BY <1>1, <1>4, <1>5
<1>7. /\ -(Factor * (1 + k)) - Factor < Factor * (amount - r)
      /\ Factor * (amount - r) < Factor * (1 + k) + Factor
    <2> DEFINE f == amount * Factor
               p == a * q
               u == Factor * r
               v == Factor * k
    <2>1. f \in Int /\ p \in Int /\ u \in Int /\ v \in Int
        BY <1>1, <1>3, <1>6
    <2>2. /\ f >= 0 => p <= f /\ f < p + q
          /\ f <= 0 => f <= p /\ p - q < f
          /\ p >= 0 => u <= p /\ p < u + Factor
          /\ p <= 0 => p <= u /\ u - Factor < p
          /\ q < v + Factor
        BY <1>2, <1>3, <1>4, <1>5
    <2> HIDE DEF f, p, u, v
    <2>3. -(Factor + v) - Factor < f - u /\ f - u < Factor + v + Factor
        BY <1>1, <2>1, <2>2
    <2> QED
        BY <1>6, <2>3 DEF f, u, v
<1>8. amount - r \in Int /\ 1 + k \in Nat
    BY <1>4, <1>5
<1>9. Abs(amount - r) <= 1 + k
    BY <1>1, <1>7, <1>8, Within
<1> QED
    BY <1>9 DEF a, r, k

(* Shares valued at the difference of mark and average, with their cost added
   again, are worth what they are at the mark, but for those units. *)
LEMMA MarkedShare ==
    ASSUME NEW amount \in Int, NEW q \in Nat \ {0}, NEW mark \in Int
    PROVE  Abs(Times(mark - Per(amount, q), q) + amount - Times(mark, q))
               <= 2 + q \div Factor
<1> DEFINE a == Per(amount, q)
           r == Times(mark - a, q)
           m == Times(mark, q)
           k == q \div Factor
<1>1. Factor \in Nat \ {0} /\ amount * Factor \in Int
    BY FactorAssumption
<1>2. /\ a \in Int
      /\ amount * Factor >= 0 => q * a <= amount * Factor /\ amount * Factor < q * a + q
      /\ amount * Factor <= 0 => amount * Factor <= q * a /\ q * a - q < amount * Factor
    BY <1>1, CutBounds DEF Per
<1> HIDE DEF a
<1>3. /\ (mark - a) * q \in Int /\ mark * q \in Int /\ q * a \in Int
      /\ (mark - a) * q = mark * q - q * a
    BY <1>2
<1>4. /\ r \in Int
      /\ (mark - a) * q >= 0 => Factor * r <= (mark - a) * q /\ (mark - a) * q < Factor * r + Factor
      /\ (mark - a) * q <= 0 => (mark - a) * q <= Factor * r /\ Factor * r - Factor < (mark - a) * q
    BY <1>1, <1>3, CutBounds DEF Times
<1>5. /\ m \in Int
      /\ mark * q >= 0 => Factor * m <= mark * q /\ mark * q < Factor * m + Factor
      /\ mark * q <= 0 => mark * q <= Factor * m /\ Factor * m - Factor < mark * q
    BY <1>1, <1>3, CutBounds DEF Times
<1>6. k \in Nat /\ q < Factor * k + Factor
    BY <1>1, Division
<1> HIDE DEF r, m, k
<1>7. /\ Factor * (r + amount - m) = Factor * r + amount * Factor - Factor * m
      /\ Factor * (2 + k) = Factor + Factor + Factor * k
      /\ Factor * r \in Int /\ Factor * m \in Int /\ Factor * k \in Int
    BY <1>1, <1>4, <1>5, <1>6
<1>8. /\ -(Factor * (2 + k)) - Factor < Factor * (r + amount - m)
      /\ Factor * (r + amount - m) < Factor * (2 + k) + Factor
    <2> DEFINE f == amount * Factor
               p == q * a
               s == mark * q
               w == (mark - a) * q
               u == Factor * r
               x == Factor * m
               v == Factor * k
    <2>1. /\ f \in Int /\ p \in Int /\ u \in Int /\ v \in Int /\ x \in Int
          /\ s \in Int /\ w \in Int /\ w = s - p
        BY <1>1, <1>3, <1>7
    <2>2. /\ f >= 0 => p <= f /\ f < p + q
          /\ f <= 0 => f <= p /\ p - q < f
          /\ w >= 0 => u <= w /\ w < u + Factor
          /\ w <= 0 => w <= u /\ u - Factor < w
          /\ s >= 0 => x <= s /\ s < x + Factor
          /\ s <= 0 => s <= x /\ x - Factor < s
          /\ q < v + Factor
        BY <1>2, <1>4, <1>5, <1>6
    <2> HIDE DEF f, p, s, w, u, x, v
    <2>3. /\ -(Factor + Factor + v) - Factor < u + f - x
          /\ u + f - x < Factor + Factor + v + Factor
        BY <1>1, <2>1, <2>2
    <2> QED
        BY <1>7, <2>3 DEF f, u, x, v
<1>9. r + amount - m \in Int /\ 2 + k \in Nat
    BY <1>4, <1>5, <1>6
<1>10. Abs(r + amount - m) <= 2 + k
    BY <1>1, <1>8, <1>9, Within
<1> QED
    BY <1>10 DEF a, r, m, k

LEMMA GreaterIs ==
    ASSUME NEW a \in Nat, NEW b \in Int
    PROVE  /\ Greater(a, b) \in Nat
           /\ a <= Greater(a, b) /\ b <= Greater(a, b)
BY DEF Greater

-----------------------------------------------------------------------------
(* The updates keep the state well typed. *)

(* A state is the record of its fields. *)
LEMMA Fields ==
    ASSUME NEW s \in PositionState
    PROVE  /\ s = [openQuantity |-> s.openQuantity, costBasis |-> s.costBasis,
                   realizedPnL |-> s.realizedPnL,
                   realizedCostBasis |-> s.realizedCostBasis,
                   unrealizedOptionPnL |-> s.unrealizedOptionPnL,
                   fees |-> s.fees, contractSize |-> s.contractSize,
                   legs |-> s.legs]
           /\ s.openQuantity \in Int /\ s.costBasis \in Int
           /\ s.realizedPnL \in Int /\ s.realizedCostBasis \in Int
           /\ s.unrealizedOptionPnL \in Int /\ s.fees \in Int
           /\ s.contractSize \in Int /\ s.legs \in [LegKey -> Int]
BY DEF PositionState

LEMMA PayingType ==
    ASSUME NEW s \in PositionState, NEW t, t.fees \in Int
    PROVE  /\ Paying(s, t) \in PositionState
           /\ Paying(s, t).openQuantity = s.openQuantity
           /\ Paying(s, t).realizedPnL = s.realizedPnL
           /\ Paying(s, t).costBasis = s.costBasis
           /\ Paying(s, t).unrealizedOptionPnL = s.unrealizedOptionPnL
           /\ Paying(s, t).legs = s.legs
BY DEF Paying, PositionState

LEMMA SizedType ==
    ASSUME NEW s \in PositionState, NEW t, t.size \in Int
    PROVE  /\ Sized(s, t) \in PositionState
           /\ Sized(s, t).realizedPnL = s.realizedPnL
           /\ Sized(s, t).costBasis = s.costBasis
           /\ Sized(s, t).unrealizedOptionPnL = s.unrealizedOptionPnL
           /\ Sized(s, t).legs = s.legs
BY DEF Sized, PositionState

(* Adding to a position, as pnl.cpp does it for a trade in its direction. *)
LEMMA AddToType ==
    ASSUME NEW s \in PositionState, NEW t \in StockTrade
    PROVE  /\ AddTo(s, t) \in PositionState
           /\ AddTo(s, t).openQuantity = s.openQuantity + t.qty
           /\ AddTo(s, t).costBasis = s.costBasis + Times(t.price, Abs(t.qty))
           /\ AddTo(s, t).realizedPnL = s.realizedPnL
           /\ AddTo(s, t).unrealizedOptionPnL = s.unrealizedOptionPnL
           /\ AddTo(s, t).legs = s.legs
<1>1. t.price \in Int /\ Abs(t.qty) \in Int /\ t.qty \in Int
    BY DEF StockTrade, Abs
<1>2. Times(t.price, Abs(t.qty)) \in Int
    BY <1>1, TimesType
<1> DEFINE cost == s.costBasis + Times(t.price, Abs(t.qty))
           qty == s.openQuantity + t.qty
<1>3. AddTo(s, t) = [s EXCEPT !.costBasis = cost, !.openQuantity = qty]
    BY DEF AddTo
<1>4. cost \in Int /\ qty \in Int
    BY <1>1, <1>2, Fields
<1> HIDE DEF cost, qty
<1>5. AddTo(s, t) = [openQuantity |-> qty, costBasis |-> cost,
                     realizedPnL |-> s.realizedPnL,
                     realizedCostBasis |-> s.realizedCostBasis,
                     unrealizedOptionPnL |-> s.unrealizedOptionPnL,
                     fees |-> s.fees, contractSize |-> s.contractSize,
                     legs |-> s.legs]
    BY <1>3, <1>4 DEF PositionState
<1>6. /\ qty = s.openQuantity + t.qty
      /\ cost = s.costBasis + Times(t.price, Abs(t.qty))
    BY DEF qty, cost
<1> QED
    BY <1>4, <1>5, <1>6, Fields DEF PositionState

(* A reduction, also one that turns the position around, ends with the sum
   of what was open and what was traded. *)
LEMMA FlippedType ==
    ASSUME NEW s \in PositionState, NEW t \in StockTrade,
           t.qty # 0, ~SameDirection(s, t)
    PROVE  /\ Flipped(s, t) \in PositionState
           /\ Flipped(s, t).openQuantity = s.openQuantity + t.qty
           /\ Flipped(s, t).unrealizedOptionPnL = s.unrealizedOptionPnL
           /\ Flipped(s, t).legs = s.legs
           /\ Abs(t.qty) <= Abs(s.openQuantity) =>
                /\ Flipped(s, t).costBasis
                       = s.costBasis - Times(AverageCost(s), Abs(t.qty))
                /\ Flipped(s, t).realizedPnL
                       = s.realizedPnL
                         + Times(t.price - AverageCost(s), Abs(t.qty))
<1> DEFINE closed == ClosedBy(s, t)
           gain == Times(t.price - AverageCost(s), closed)
           cost == Released(s, closed)
           rest == Abs(t.qty) - closed
           worth == Times(t.price, rest)
           turned == IF t.qty > 0 THEN rest ELSE -rest
           part == [openQuantity |-> Leaves(s, closed),
                    costBasis |-> s.costBasis - cost,
                    realizedPnL |-> s.realizedPnL + gain,
                    realizedCostBasis |-> s.realizedCostBasis + cost,
                    unrealizedOptionPnL |-> s.unrealizedOptionPnL,
                    fees |-> s.fees, contractSize |-> s.contractSize,
                    legs |-> s.legs]
<1>1. /\ s.openQuantity \in Int /\ s.openQuantity # 0 /\ s.costBasis \in Int
      /\ t.qty \in Int /\ t.price \in Int
      /\ (s.openQuantity > 0) # (t.qty > 0)
    BY DEF StockTrade, PositionState, SameDirection
<1>2. /\ Abs(s.openQuantity) \in Int /\ Abs(s.openQuantity) # 0
      /\ closed \in Int
    BY <1>1 DEF Abs, ClosedBy, Least
<1>3. AverageCost(s) \in Int
    BY <1>1, <1>2, PerType DEF AverageCost
<1>4. t.price - AverageCost(s) \in Int
    BY <1>1, <1>3
<1>5. gain \in Int /\ cost \in Int
    BY <1>2, <1>3, <1>4, TimesType DEF Released
<1>6. /\ rest \in Int /\ turned \in Int
      /\ Leaves(s, closed) \in Int
      /\ rest = 0 => Leaves(s, closed) = s.openQuantity + t.qty
      /\ rest # 0 => turned = s.openQuantity + t.qty
    BY <1>1, <1>2 DEF Leaves, ClosedBy, Least, Abs
<1>7. worth \in Int
    BY <1>1, <1>6, TimesType
<1>8. Reduced(s, t) = part
    <2> HIDE DEF closed
    <2>1. Reduced(s, t) = [s EXCEPT !.realizedPnL = @ + gain,
                                    !.realizedCostBasis = @ + cost,
                                    !.costBasis = @ - cost,
                                    !.openQuantity = Leaves(s, closed)]
        BY DEF Reduced, closed
    <2> HIDE DEF gain, cost
    <2> QED
        BY ZenonT(30), <2>1, Fields
<1>9. part \in PositionState
    <2> HIDE DEF closed, gain, cost
    <2> QED
        BY <1>5, <1>6, Fields DEF PositionState
<1>10. CASE rest = 0
    <2>1. Flipped(s, t) = part
        BY <1>8, <1>10 DEF Flipped
    <2>2. closed = Abs(t.qty)
        BY <1>1, <1>2, <1>10 DEF Abs
    <2>3. /\ gain = Times(t.price - AverageCost(s), Abs(t.qty))
          /\ cost = Times(AverageCost(s), Abs(t.qty))
        BY <2>2 DEF Released
    <2> HIDE DEF closed, gain, cost
    <2> QED
        BY <2>1, <2>3, <1>6, <1>9, <1>10
<1>11. CASE rest # 0
    <2>1. Flipped(s, t) = [part EXCEPT !.costBasis = worth,
                                       !.openQuantity = turned]
        BY <1>8, <1>11 DEF Flipped
    <2>2. Flipped(s, t) =
              [openQuantity |-> turned, costBasis |-> worth,
               realizedPnL |-> s.realizedPnL + gain,
               realizedCostBasis |-> s.realizedCostBasis + cost,
               unrealizedOptionPnL |-> s.unrealizedOptionPnL,
               fees |-> s.fees, contractSize |-> s.contractSize,
               legs |-> s.legs]
        <3> HIDE DEF closed, gain, cost, rest, worth, turned
        <3> QED
            BY <2>1
    <2>3. ~(Abs(t.qty) <= Abs(s.openQuantity))
        BY <1>1, <1>2, <1>11 DEF ClosedBy, Least, Abs
    <2> HIDE DEF closed, gain, cost, rest, worth, turned
    <2> QED
        BY <1>5, <1>6, <1>7, <1>11, <2>2, <2>3, Fields DEF PositionState
<1> QED
    BY <1>10, <1>11

LEMMA LegOfType ==
    ASSUME NEW t \in OptionTrades, NEW side \in Sides
    PROVE  LegOf(t, side) \in LegKey /\ Opposite(side) \in Sides
BY TradesAssumption DEF LegOf, LegKey, OptionTrade, Opposite, Sides

LEMMA TradeFields ==
    ASSUME NEW t \in OptionTrades
    PROVE  /\ t.side \in Sides /\ t.strike \in Int /\ t.qty \in Int
           /\ t.size \in Int /\ t.premium \in Int /\ t.fees \in Int
           /\ Received(t) \in Int
<1>1. t \in OptionTrade
    BY TradesAssumption
<1>2. /\ t.side \in Sides /\ t.strike \in Strikes /\ t.qty \in Int
      /\ t.size \in Int /\ t.premium \in Int /\ t.fees \in Int
    BY <1>1 DEF OptionTrade
<1>3. t.strike \in Int
    BY <1>2, StrikesAssumption
<1> QED
    BY <1>2, <1>3 DEF Received

(* Opening a leg brings or costs its premium, which is not realized. *)
LEMMA OpenedType ==
    ASSUME NEW s \in PositionState, NEW t \in OptionTrades
    PROVE  /\ Opened(s, t) \in PositionState
           /\ Opened(s, t).realizedPnL = s.realizedPnL
           /\ Opened(s, t).unrealizedOptionPnL
                  = s.unrealizedOptionPnL + Received(t)
           /\ Opened(s, t).openQuantity = s.openQuantity
           /\ Opened(s, t).legs = LegsWith(s, t)
<1>1. LegOf(t, t.side) \in LegKey
    BY LegOfType, TradeFields
<1>2. LegsWith(s, t) \in [LegKey -> Int]
    BY <1>1, Fields, TradeFields DEF LegsWith
<1>3. t.qty * s.contractSize \in Int
    BY Fields, TradeFields
<1>4. Times(t.strike, t.qty * s.contractSize) \in Int
    BY <1>3, TradeFields, TimesType
<1>5. CostOf(s, t) \in Int
    BY <1>4, TradeFields DEF CostOf
<1> DEFINE cost == s.costBasis + CostOf(s, t)
           pnl == s.unrealizedOptionPnL + Received(t)
<1>6. Opened(s, t) = [s EXCEPT !.legs = LegsWith(s, t),
                               !.unrealizedOptionPnL = pnl, !.costBasis = cost]
    BY DEF Opened
<1>7. cost \in Int /\ pnl \in Int
    BY <1>5, Fields, TradeFields
<1> HIDE DEF cost, pnl
<1>8. Opened(s, t) =
          [openQuantity |-> s.openQuantity, costBasis |-> cost,
           realizedPnL |-> s.realizedPnL,
           realizedCostBasis |-> s.realizedCostBasis,
           unrealizedOptionPnL |-> pnl,
           fees |-> s.fees, contractSize |-> s.contractSize,
           legs |-> LegsWith(s, t)]
    BY <1>2, <1>6, <1>7 DEF PositionState
<1>9. pnl = s.unrealizedOptionPnL + Received(t)
    BY DEF pnl
<1> QED
    BY <1>2, <1>7, <1>8, <1>9, Fields DEF PositionState

LEMMA ShareType ==
    ASSUME NEW s \in PositionState, NEW t \in OptionTrades, NEW amount \in Int
    PROVE  Share(s, t, amount) \in Int
<1> DEFINE open == s.legs[LegOf(t, Opposite(t.side))]
<1>1. LegOf(t, Opposite(t.side)) \in LegKey
    BY LegOfType, TradeFields
<1>2. open \in Int
    BY <1>1 DEF PositionState
<1>3. ASSUME open # 0
      PROVE  Times(Per(amount, open), t.qty) \in Int
    <2>1. Per(amount, open) \in Int
        BY <1>2, <1>3, PerType
    <2> QED
        BY <2>1, TradeFields, TimesType
<1> QED
    BY <1>3 DEF Share

(* An exercise moves profit from unrealized to realized. *)
LEMMA ExercisedType ==
    ASSUME NEW s \in PositionState, NEW t \in OptionTrades
    PROVE  /\ Exercised(s, t) \in PositionState
           /\ Exercised(s, t).realizedPnL + Exercised(s, t).unrealizedOptionPnL
                  = s.realizedPnL + s.unrealizedOptionPnL
           /\ Exercised(s, t).openQuantity = s.openQuantity
           /\ Exercised(s, t).legs = LegsWithout(s, t)
           /\ Exercised(s, t).unrealizedOptionPnL
                  = s.unrealizedOptionPnL - Share(s, t, s.unrealizedOptionPnL)
           /\ Exercised(s, t).costBasis
                  = s.costBasis - Share(s, t, s.costBasis)
<1> DEFINE pnl == Share(s, t, s.unrealizedOptionPnL)
           cost == Share(s, t, s.costBasis)
<1>1. LegOf(t, Opposite(t.side)) \in LegKey
    BY LegOfType, TradeFields
<1>2. LegsWithout(s, t) \in [LegKey -> Int]
    BY <1>1, Fields, TradeFields DEF LegsWithout
<1>3. pnl \in Int /\ cost \in Int
    BY Fields, ShareType
<1>4. Exercised(s, t) = [s EXCEPT !.legs = LegsWithout(s, t),
                                  !.unrealizedOptionPnL = @ - pnl,
                                  !.costBasis = @ - cost,
                                  !.realizedCostBasis = @ + cost,
                                  !.realizedPnL = @ + pnl]
    BY DEF Exercised
<1>6. /\ pnl = Share(s, t, s.unrealizedOptionPnL)
      /\ cost = Share(s, t, s.costBasis)
    OBVIOUS
<1> HIDE DEF pnl, cost
<1>5. Exercised(s, t) =
          [openQuantity |-> s.openQuantity,
           costBasis |-> s.costBasis - cost,
           realizedPnL |-> s.realizedPnL + pnl,
           realizedCostBasis |-> s.realizedCostBasis + cost,
           unrealizedOptionPnL |-> s.unrealizedOptionPnL - pnl,
           fees |-> s.fees, contractSize |-> s.contractSize,
           legs |-> LegsWithout(s, t)]
    BY <1>4 DEF PositionState
<1> QED
    BY <1>2, <1>3, <1>5, <1>6, Fields DEF PositionState

LEMMA ClosedType ==
    ASSUME NEW s \in PositionState, NEW t \in OptionTrades
    PROVE  /\ Closed(s, t) \in PositionState
           /\ Closed(s, t).realizedPnL + Closed(s, t).unrealizedOptionPnL
                  = s.realizedPnL + s.unrealizedOptionPnL + Received(t)
           /\ Closed(s, t).openQuantity = s.openQuantity
           /\ Closed(s, t).legs = LegsWithout(s, t)
           /\ Closed(s, t).unrealizedOptionPnL
                  = s.unrealizedOptionPnL - Share(s, t, s.unrealizedOptionPnL)
           /\ Closed(s, t).costBasis
                  = s.costBasis - Share(s, t, s.costBasis)
<1> DEFINE e == Exercised(s, t)
<1>1. /\ e \in PositionState
      /\ e.realizedPnL + e.unrealizedOptionPnL
             = s.realizedPnL + s.unrealizedOptionPnL
      /\ e.openQuantity = s.openQuantity
      /\ e.legs = LegsWithout(s, t)
      /\ e.unrealizedOptionPnL
             = s.unrealizedOptionPnL - Share(s, t, s.unrealizedOptionPnL)
      /\ e.costBasis = s.costBasis - Share(s, t, s.costBasis)
    BY ExercisedType
<1>2. Closed(s, t) = [e EXCEPT !.realizedPnL = @ + Received(t)]
    BY DEF Closed
<1>3. Received(t) \in Int
    BY TradeFields
<1>4. s.realizedPnL \in Int /\ s.unrealizedOptionPnL \in Int
    BY DEF PositionState
<1> HIDE DEF e
<1> QED
    BY <1>1, <1>2, <1>3, <1>4 DEF PositionState

-----------------------------------------------------------------------------
(* The invariant: the properties, and the types they need. *)

Inv == TypeOK /\ QuantityIsNet /\ PremiumsBalance

LEMMA InitInv == Init => Inv
<1> SUFFICES ASSUME Init
             PROVE  Inv
    OBVIOUS
<1>1. Fresh \in PositionState
    BY DEF Fresh, PositionState
<1>2. /\ Fresh.openQuantity = 0
      /\ Fresh.realizedPnL = 0 /\ Fresh.unrealizedOptionPnL = 0
    BY DEF Fresh
<1> QED
    <2>1. TypeOK
        <3>1. kind \in {"stock", "option"} /\ failed \in BOOLEAN
              /\ beyond \in BOOLEAN
            BY DEF Init
        <3>2. /\ {net, spent, taken} \subseteq Int
              /\ {cuts, peak, trades} \subseteq Nat
            BY DEF Init
        <3> QED
            BY <1>1, <3>1, <3>2 DEF Init, TypeOK
    <2>2. QuantityIsNet
        BY <1>2 DEF Init, QuantityIsNet
    <2>3. PremiumsBalance
        BY <1>2 DEF Init, PremiumsBalance
    <2> QED
        BY <2>1, <2>2, <2>3 DEF Inv

LEMMA StockFields ==
    ASSUME NEW t \in StockTrades
    PROVE  t \in StockTrade /\ t.qty \in Int /\ t.price \in Int /\ t.fees \in Int
BY TradesAssumption DEF StockTrade

LEMMA NextInv == Inv /\ [Next]_vars => Inv'
<1> SUFFICES ASSUME Inv, [Next]_vars
             PROVE  Inv'
    OBVIOUS
<1> USE DEF Inv
<1>1. ASSUME Extend
      PROVE  Inv'
    <2>1. PICK t \in StockTrades :
              /\ Extends(position, t)
              /\ position' = WithStock(position, t)
              /\ net' = net + t.qty
              /\ spent' = spent + Times(t.price, t.qty)
              /\ peak' = Greater(peak, Abs(position'.openQuantity))
              /\ beyond' = (beyond \/ t.qty < 0)
        BY <1>1 DEF Extend
    <2>2. t \in StockTrade /\ t.qty \in Int /\ t.price \in Int /\ t.fees \in Int
        BY StockFields
    <2>3. Times(t.price, t.qty) \in Int
        BY <2>2, TimesType
    <2>4. /\ Paying(position, t) \in PositionState
          /\ Paying(position, t).openQuantity = position.openQuantity
        BY <2>2, PayingType DEF TypeOK
    <2>5. /\ position' \in PositionState
          /\ position'.openQuantity = position.openQuantity + t.qty
        <3>1. CASE t.qty = 0
            BY <2>1, <2>4, <3>1 DEF WithStock, PositionState
        <3>2. CASE t.qty # 0
            <4>1. position' = AddTo(Paying(position, t), t)
                BY <2>1, <3>2 DEF WithStock, Extends
            <4> QED
                BY <2>2, <2>4, <4>1, AddToType
        <3> QED
            BY <3>1, <3>2
    <2>6. /\ kind' = kind /\ failed' = failed /\ taken' = taken /\ cuts' = cuts
          /\ trades' = trades + 1 /\ kind = "stock"
        BY <1>1 DEF Extend, Event
    <2>7. peak' \in Nat
        <3>1. Abs(position'.openQuantity) \in Int
            BY <2>5 DEF PositionState, Abs
        <3> QED
            BY <2>1, <3>1, GreaterIs DEF TypeOK
    <2>8. TypeOK'
        BY <2>1, <2>2, <2>3, <2>5, <2>6, <2>7 DEF TypeOK
    <2> QED
        BY <2>1, <2>5, <2>6, <2>8 DEF QuantityIsNet, PremiumsBalance
<1>2. ASSUME Reduce
      PROVE  Inv'
    <2>1. PICK t \in StockTrades :
              /\ ~Extends(position, t)
              /\ position' = WithStock(position, t)
              /\ net' = net + t.qty
              /\ spent' = spent + Times(t.price, t.qty)
              /\ peak' = Greater(peak, Abs(position'.openQuantity))
              /\ beyond' = (beyond \/ Abs(t.qty) > Abs(position.openQuantity))
        BY <1>2 DEF Reduce
    <2>2. t \in StockTrade /\ t.qty \in Int /\ t.price \in Int /\ t.fees \in Int
        BY StockFields
    <2>3. Times(t.price, t.qty) \in Int
        BY <2>2, TimesType
    <2>4. /\ Paying(position, t) \in PositionState
          /\ Paying(position, t).openQuantity = position.openQuantity
        BY <2>2, PayingType DEF TypeOK
    <2>5. t.qty # 0 /\ ~SameDirection(Paying(position, t), t)
        BY <2>1, <2>4 DEF Extends, SameDirection
    <2>6. /\ position' \in PositionState
          /\ position'.openQuantity = position.openQuantity + t.qty
        <3>1. position' = Flipped(Paying(position, t), t)
            BY <2>1, <2>5 DEF WithStock, Extends
        <3> QED
            BY <2>2, <2>4, <2>5, <3>1, FlippedType
    <2>7. /\ kind' = kind /\ failed' = failed /\ taken' = taken
          /\ cuts' = cuts + 1 /\ trades' = trades + 1 /\ kind = "stock"
        BY <1>2 DEF Reduce, Event
    <2>8. peak' \in Nat
        <3>1. Abs(position'.openQuantity) \in Int
            BY <2>6 DEF PositionState, Abs
        <3> QED
            BY <2>1, <3>1, GreaterIs DEF TypeOK
    <2>9. TypeOK'
        BY <2>1, <2>2, <2>3, <2>6, <2>7, <2>8 DEF TypeOK
    <2> QED
        BY <2>1, <2>6, <2>7, <2>9 DEF QuantityIsNet, PremiumsBalance
<1>3. ASSUME Refuse
      PROVE  Inv'
    BY <1>3 DEF Refuse, TypeOK, QuantityIsNet, PremiumsBalance
<1>4. ASSUME NEW t \in OptionTrades
      PROVE  LET p == Paying(Sized(position, t), t)
             IN  /\ p \in PositionState
                 /\ p.realizedPnL = position.realizedPnL
                 /\ p.unrealizedOptionPnL = position.unrealizedOptionPnL
    <2>1. /\ Sized(position, t) \in PositionState
          /\ Sized(position, t).realizedPnL = position.realizedPnL
          /\ Sized(position, t).unrealizedOptionPnL
                 = position.unrealizedOptionPnL
        BY TradeFields, SizedType DEF TypeOK
    <2> QED
        BY <2>1, TradeFields, PayingType
<1>5. ASSUME Open
      PROVE  Inv'
    <2>1. PICK t \in OptionTrades :
              /\ position' = Opened(Paying(Sized(position, t), t), t)
              /\ peak' = Greater(peak, position'.legs[LegOf(t, t.side)])
              /\ taken' = taken + Received(t)
        BY <1>5 DEF Open, WithOption
    <2>2. /\ position' \in PositionState
          /\ position'.realizedPnL = position.realizedPnL
          /\ position'.unrealizedOptionPnL
                 = position.unrealizedOptionPnL + Received(t)
        BY <1>4, <2>1, OpenedType
    <2>3. /\ kind' = kind /\ failed' = failed /\ net' = net /\ spent' = spent
          /\ cuts' = cuts /\ beyond' = beyond /\ trades' = trades + 1
          /\ kind = "option"
        BY <1>5 DEF Open, Event
    <2>4. Received(t) \in Int
        BY TradeFields
    <2>5. TypeOK'
        <3>1. position'.legs[LegOf(t, t.side)] \in Int
            BY <2>2, LegOfType, TradeFields DEF PositionState
        <3>2. peak' \in Nat
            BY <2>1, <3>1, GreaterIs DEF TypeOK
        <3> QED
            BY <2>1, <2>2, <2>3, <2>4, <3>2 DEF TypeOK
    <2>6. position.realizedPnL \in Int /\ position.unrealizedOptionPnL \in Int
        BY DEF TypeOK, PositionState
    <2>7. position'.realizedPnL + position'.unrealizedOptionPnL = taken'
        BY <2>1, <2>2, <2>3, <2>4, <2>6 DEF PremiumsBalance, TypeOK
    <2> QED
        BY <2>3, <2>5, <2>7 DEF QuantityIsNet, PremiumsBalance
<1>6. ASSUME Close
      PROVE  Inv'
    <2>1. PICK t \in OptionTrades :
              /\ position' = Closed(Paying(Sized(position, t), t), t)
              /\ taken' = taken + Received(t)
              /\ beyond' = (beyond \/ TooMany(t))
        BY <1>6 DEF Close, WithOption
    <2>2. /\ position' \in PositionState
          /\ position'.realizedPnL + position'.unrealizedOptionPnL
                 = position.realizedPnL + position.unrealizedOptionPnL
                   + Received(t)
        BY <1>4, <2>1, ClosedType
    <2>3. /\ kind' = kind /\ failed' = failed /\ net' = net /\ spent' = spent
          /\ cuts' = cuts + 1 /\ trades' = trades + 1 /\ kind = "option"
          /\ peak' = peak
        BY <1>6 DEF Close, Event
    <2>4. Received(t) \in Int
        BY TradeFields
    <2>5. beyond' \in BOOLEAN
        BY <2>1 DEF TypeOK
    <2>6. TypeOK'
        BY <2>1, <2>2, <2>3, <2>4, <2>5 DEF TypeOK
    <2> QED
        BY <2>1, <2>2, <2>3, <2>6 DEF QuantityIsNet, PremiumsBalance
<1>7. ASSUME Exercise
      PROVE  Inv'
    <2>1. PICK t \in OptionTrades :
              /\ position' = Exercised(Paying(Sized(position, t), t), t)
              /\ beyond' = (beyond \/ TooMany(t))
        BY <1>7 DEF Exercise, WithOption
    <2>2. /\ position' \in PositionState
          /\ position'.realizedPnL + position'.unrealizedOptionPnL
                 = position.realizedPnL + position.unrealizedOptionPnL
        BY <1>4, <2>1, ExercisedType
    <2>3. /\ kind' = kind /\ failed' = failed /\ net' = net /\ spent' = spent
          /\ taken' = taken /\ cuts' = cuts + 1 /\ trades' = trades + 1
          /\ peak' = peak /\ kind = "option"
        BY <1>7 DEF Exercise, Event
    <2>4. beyond' \in BOOLEAN
        BY <2>1 DEF TypeOK
    <2>5. TypeOK'
        BY <2>2, <2>3, <2>4 DEF TypeOK
    <2> QED
        BY <2>2, <2>3, <2>5 DEF QuantityIsNet, PremiumsBalance
<1>8. ASSUME UNCHANGED vars
      PROVE  Inv'
    BY <1>8 DEF vars, TypeOK, QuantityIsNet, PremiumsBalance
<1> QED
    BY <1>1, <1>2, <1>3, <1>5, <1>6, <1>7, <1>8 DEF Next

-----------------------------------------------------------------------------
(* Stock that is sold out of what is held. *)

(* The invariant behind MarkedToMarket. What is realized and what was spent
   differ by the cost that is still carried, but for a unit for each sale; a
   cost that is carried though nothing is held is what the last average cut
   off. There is nothing of options in such a position. *)
StockKept ==
    kind = "stock" =>
        /\ position.unrealizedOptionPnL = 0
        /\ position.legs = [k \in LegKey |-> 0]
        /\ ~beyond =>
             (/\ 0 <= position.openQuantity /\ position.openQuantity <= peak
              /\ Abs(position.realizedPnL - position.costBasis + spent) <= cuts
              /\ position.openQuantity = 0 =>
                    Abs(position.costBasis) <= Residue)

LEMMA ResidueGrows ==
    ASSUME NEW a \in Nat, NEW b \in Nat, a <= b
    PROVE  /\ a \div Factor <= b \div Factor
           /\ a \div Factor \in Nat /\ b \div Factor \in Nat
BY FactorAssumption, DivisionGrows, Division

LEMMA ExtendKeepsStock ==
    ASSUME Inv, StockKept, Extend
    PROVE  StockKept'
<1>1. PICK t \in StockTrades :
          /\ Extends(position, t)
          /\ position' = WithStock(position, t)
          /\ net' = net + t.qty
          /\ spent' = spent + Times(t.price, t.qty)
          /\ peak' = Greater(peak, Abs(position'.openQuantity))
          /\ beyond' = (beyond \/ t.qty < 0)
    BY DEF Extend
<1>2. t \in StockTrade /\ t.qty \in Int /\ t.price \in Int /\ t.fees \in Int
    BY StockFields
<1>3. /\ position \in PositionState /\ peak \in Nat /\ spent \in Int
      /\ cuts \in Nat /\ kind = "stock" /\ kind' = kind /\ cuts' = cuts
      /\ beyond \in BOOLEAN
    BY DEF Inv, TypeOK, Extend, Event
<1> DEFINE paid == Paying(position, t)
<1>4. /\ paid \in PositionState
      /\ paid.openQuantity = position.openQuantity
      /\ paid.realizedPnL = position.realizedPnL
      /\ paid.costBasis = position.costBasis
      /\ paid.unrealizedOptionPnL = position.unrealizedOptionPnL
      /\ paid.legs = position.legs
    BY <1>2, <1>3, PayingType
<1> HIDE DEF paid
<1>5. /\ position' \in PositionState
      /\ position'.openQuantity = position.openQuantity + t.qty
      /\ position'.realizedPnL = position.realizedPnL
      /\ position'.unrealizedOptionPnL = position.unrealizedOptionPnL
      /\ position'.legs = position.legs
      /\ position'.costBasis = position.costBasis + Times(t.price, Abs(t.qty))
    <2>1. CASE t.qty = 0
        <3>1. position' = paid
            BY <1>1, <2>1 DEF WithStock, paid
        <3>2. Times(t.price, Abs(t.qty)) = 0
            <4>1. t.price * Abs(t.qty) = 0
                BY <1>2, <2>1 DEF Abs
            <4> QED
                BY <4>1, CutValue, FactorAssumption DEF Times
        <3> QED
            BY <1>2, <1>3, <1>4, <2>1, <3>1, <3>2 DEF PositionState
    <2>2. CASE t.qty # 0
        <3>1. position' = AddTo(paid, t)
            BY <1>1, <2>2 DEF WithStock, Extends, paid
        <3> QED
            BY <1>2, <1>4, <3>1, AddToType
    <2> QED
        BY <1>2, <2>1, <2>2
<1>6. ASSUME ~beyond'
      PROVE  /\ 0 <= position'.openQuantity /\ position'.openQuantity <= peak'
             /\ Abs(position'.realizedPnL - position'.costBasis + spent')
                    <= cuts'
             /\ position'.openQuantity = 0 =>
                    Abs(position'.costBasis) <= Residue'
    <2>1. ~beyond /\ t.qty >= 0 /\ Abs(t.qty) = t.qty
        <3>1. ~beyond /\ ~(t.qty < 0)
            BY <1>1, <1>3, <1>6
        <3> QED
            BY <1>2, <3>1 DEF Abs
    <2>2. /\ 0 <= position.openQuantity /\ position.openQuantity <= peak
          /\ Abs(position.realizedPnL - position.costBasis + spent) <= cuts
          /\ position.openQuantity = 0 => Abs(position.costBasis) <= Residue
        BY <1>3, <2>1 DEF StockKept
    <2>3. /\ position.openQuantity \in Int /\ position.costBasis \in Int
          /\ position.realizedPnL \in Int
        BY <1>3 DEF PositionState
    <2>4. 0 <= position'.openQuantity
        BY <1>2, <1>5, <2>1, <2>2, <2>3
    <2>5. /\ peak' \in Nat /\ peak <= peak'
          /\ Abs(position'.openQuantity) <= peak'
        <3>1. Abs(position'.openQuantity) \in Int
            BY <1>5 DEF PositionState, Abs
        <3> QED
            BY <1>1, <1>3, <3>1, GreaterIs
    <2>6. Times(t.price, t.qty) \in Int
        BY <1>2, TimesType
    <2>7. position'.realizedPnL - position'.costBasis + spent'
              = position.realizedPnL - position.costBasis + spent
        BY <1>1, <1>3, <1>5, <2>1, <2>3, <2>6
    <2>8. ASSUME position'.openQuantity = 0
          PROVE  Abs(position'.costBasis) <= Residue'
        <3>1. position.openQuantity = 0 /\ t.qty = 0
            BY <1>2, <1>5, <2>1, <2>2, <2>3, <2>8
        <3>2. position' = paid
            BY <1>1, <3>1 DEF WithStock, paid
        <3>3. Abs(position'.costBasis) <= Residue
            BY <1>4, <2>2, <3>1, <3>2
        <3>4. Abs(position'.costBasis) \in Int
            BY <1>4, <2>3, <3>2 DEF Abs
        <3>5. /\ peak \div Factor <= peak' \div Factor
              /\ peak \div Factor \in Nat /\ peak' \div Factor \in Nat
            BY <1>3, <2>5, ResidueGrows
        <3> QED
            BY <3>3, <3>4, <3>5 DEF Residue
    <2>9. position'.openQuantity <= peak'
        BY <2>4, <2>5, <1>2, <1>5, <2>3 DEF Abs
    <2> QED
        BY <1>3, <2>2, <2>4, <2>7, <2>8, <2>9
<1> QED
    BY <1>3, <1>5, <1>6 DEF StockKept

LEMMA ReduceKeepsStock ==
    ASSUME Inv, StockKept, Reduce
    PROVE  StockKept'
<1>1. PICK t \in StockTrades :
          /\ ~Extends(position, t)
          /\ position' = WithStock(position, t)
          /\ net' = net + t.qty
          /\ spent' = spent + Times(t.price, t.qty)
          /\ peak' = Greater(peak, Abs(position'.openQuantity))
          /\ beyond' = (beyond \/ Abs(t.qty) > Abs(position.openQuantity))
    BY DEF Reduce
<1>2. t \in StockTrade /\ t.qty \in Int /\ t.price \in Int /\ t.fees \in Int
    BY StockFields
<1>3. /\ position \in PositionState /\ peak \in Nat /\ spent \in Int
      /\ cuts \in Nat /\ kind = "stock" /\ kind' = kind /\ cuts' = cuts + 1
      /\ beyond \in BOOLEAN
    BY DEF Inv, TypeOK, Reduce, Event
<1> DEFINE paid == Paying(position, t)
<1>4. /\ paid \in PositionState
      /\ paid.openQuantity = position.openQuantity
      /\ paid.realizedPnL = position.realizedPnL
      /\ paid.costBasis = position.costBasis
      /\ paid.unrealizedOptionPnL = position.unrealizedOptionPnL
      /\ paid.legs = position.legs
    BY <1>2, <1>3, PayingType
<1>5. t.qty # 0 /\ ~SameDirection(position, t) /\ ~SameDirection(paid, t)
    BY <1>1, <1>4 DEF Extends, SameDirection
<1>6. position' = Flipped(paid, t)
    BY <1>1, <1>5 DEF WithStock
<1> HIDE DEF paid
<1> DEFINE average == AverageCost(paid)
           sold == Abs(t.qty)
<1>7. /\ position' \in PositionState
      /\ position'.openQuantity = position.openQuantity + t.qty
      /\ position'.unrealizedOptionPnL = position.unrealizedOptionPnL
      /\ position'.legs = position.legs
      /\ sold <= Abs(position.openQuantity) =>
           /\ position'.costBasis = position.costBasis - Times(average, sold)
           /\ position'.realizedPnL
                  = position.realizedPnL + Times(t.price - average, sold)
    BY <1>2, <1>4, <1>5, <1>6, FlippedType
<1>8. ASSUME ~beyond'
      PROVE  /\ 0 <= position'.openQuantity /\ position'.openQuantity <= peak'
             /\ Abs(position'.realizedPnL - position'.costBasis + spent')
                    <= cuts'
             /\ position'.openQuantity = 0 =>
                    Abs(position'.costBasis) <= Residue'
    <2> DEFINE open == position.openQuantity
    <2>1. /\ open \in Int /\ position.costBasis \in Int
          /\ position.realizedPnL \in Int /\ open # 0
          /\ (open > 0) # (t.qty > 0)
        BY <1>3, <1>4, <1>5 DEF PositionState, SameDirection
    <2>2. ~beyond /\ Abs(t.qty) <= Abs(open)
        <3>1. ~beyond /\ ~(Abs(t.qty) > Abs(open))
            BY <1>1, <1>3, <1>8
        <3>2. Abs(t.qty) \in Int /\ Abs(open) \in Int
            BY <1>2, <2>1 DEF Abs
        <3> QED
            BY <3>1, <3>2
    <2>3. /\ 0 <= open /\ open <= peak
          /\ Abs(position.realizedPnL - position.costBasis + spent) <= cuts
        BY <1>3, <2>2 DEF StockKept
    <2>4. /\ open \in Nat \ {0} /\ t.qty < 0 /\ sold = -t.qty
          /\ sold \in Nat \ {0} /\ Abs(open) = open /\ sold <= open
        <3>1. open > 0
            BY <2>1, <2>3
        <3>2. t.qty < 0
            BY <1>2, <1>5, <2>1, <3>1
        <3> QED
            BY <1>2, <2>1, <2>2, <3>1, <3>2 DEF Abs
    <2>5. average = Per(position.costBasis, open) /\ average \in Int
        BY <1>4, <2>1, <2>4, PerType DEF AverageCost
    <2>6. 0 <= position'.openQuantity /\ position'.openQuantity \in Nat
        BY <1>2, <1>7, <2>4
    <2>7. /\ peak' \in Nat /\ peak <= peak'
          /\ position'.openQuantity <= peak'
        <3>1. peak' = Greater(peak, position'.openQuantity)
            <4>1. \A n \in Nat : Abs(n) = n
                BY DEF Abs
            <4> QED
                BY <1>1, <2>6, <4>1
        <3> QED
            BY <1>3, <2>6, <3>1 DEF Greater
    <2> HIDE DEF average, sold, open
    <2> DEFINE gain == Times(t.price - average, sold)
               cost == Times(average, sold)
               worth == Times(t.price, sold)
    <2>8. gain \in Int /\ cost \in Int /\ worth \in Int
        <3>1. t.price - average \in Int /\ sold \in Int
            BY <1>2, <2>4, <2>5
        <3> QED
            BY <1>2, <2>5, <3>1, TimesType
    <2>9. Abs(gain + cost - worth) <= 1
        <3>1. /\ (t.price - average) * sold \in Int /\ average * sold \in Int
              /\ (t.price - average) * sold + average * sold
                     = t.price * sold
            BY <1>2, <2>4, <2>5
        <3> QED
            BY <3>1, CutSum, FactorAssumption DEF Times
    <2>10. Times(t.price, t.qty) = -worth
        <3>1. /\ t.price * sold \in Int
              /\ t.price * t.qty = -(t.price * sold)
            BY <1>2, <2>4
        <3> QED
            BY <3>1, CutNegative, FactorAssumption DEF Times
    <2>11. /\ position'.costBasis = position.costBasis - cost
           /\ position'.realizedPnL = position.realizedPnL + gain
        BY <1>7, <2>4 DEF open
    <2> HIDE DEF gain, cost, worth
    <2>12. position'.realizedPnL - position'.costBasis + spent'
               = (position.realizedPnL - position.costBasis + spent)
                 + (gain + cost - worth)
        BY <1>1, <1>3, <2>1, <2>8, <2>10, <2>11
    <2>13. Abs(position'.realizedPnL - position'.costBasis + spent') <= cuts'
        <3> DEFINE before == position.realizedPnL - position.costBasis + spent
                   more == gain + cost - worth
        <3>1. before \in Int /\ more \in Int
            BY <1>3, <2>1, <2>8
        <3>2. Abs(before) <= cuts /\ Abs(more) <= 1
            BY <2>3, <2>9
        <3> HIDE DEF before, more
        <3>3. Abs(before + more) <= cuts + 1
            BY <1>3, <3>1, <3>2 DEF Abs
        <3> QED
            BY <1>3, <2>12, <3>3 DEF before, more
    <2>14. ASSUME position'.openQuantity = 0
           PROVE  Abs(position'.costBasis) <= Residue'
        <3>1. sold = open
            BY <1>2, <1>7, <2>4, <2>14 DEF open
        <3>2. Abs(position.costBasis - cost) <= 1 + open \div Factor
            BY <2>1, <2>4, <2>5, <3>1, WholeShare DEF cost
        <3>3. /\ open \div Factor <= peak' \div Factor
              /\ open \div Factor \in Nat /\ peak' \div Factor \in Nat
            <4>1. open <= peak'
                BY <1>3, <2>3, <2>4, <2>7
            <4> QED
                BY <2>4, <2>7, <4>1, ResidueGrows
        <3>4. Abs(position.costBasis - cost) \in Int
            BY <2>1, <2>8 DEF Abs
        <3> QED
            BY <2>11, <3>2, <3>3, <3>4 DEF Residue
    <2> QED
        BY <2>6, <2>7, <2>13, <2>14
<1> QED
    BY <1>3, <1>7, <1>8 DEF StockKept

LEMMA InitStock == Init => StockKept
<1> SUFFICES ASSUME Init
             PROVE  StockKept
    OBVIOUS
<1>1. /\ position.unrealizedOptionPnL = 0
      /\ position.legs = [k \in LegKey |-> 0]
      /\ position.openQuantity = 0 /\ position.costBasis = 0
      /\ position.realizedPnL = 0
    BY DEF Init, Fresh
<1>2. peak = 0 /\ spent = 0 /\ cuts = 0 /\ Residue \in Nat
    BY FactorAssumption DEF Init, Residue
<1> QED
    BY <1>1, <1>2 DEF StockKept, Abs

LEMMA NextStock == Inv /\ StockKept /\ [Next]_vars => StockKept'
<1> SUFFICES ASSUME Inv, StockKept, [Next]_vars
             PROVE  StockKept'
    OBVIOUS
<1>1. ASSUME kind = "option", kind' = kind
      PROVE  StockKept'
    BY <1>1 DEF StockKept
<1>2. CASE Refuse \/ Open \/ Close \/ Exercise
    BY <1>1, <1>2 DEF Refuse, Open, Close, Exercise, Event
<1>3. CASE UNCHANGED vars
    BY <1>3 DEF vars, StockKept, Residue
<1> QED
    BY <1>2, <1>3, ExtendKeepsStock, ReduceKeepsStock DEF Next

LEMMA StockIsMarked == Inv /\ StockKept => MarkedToMarket
<1> SUFFICES ASSUME Inv, StockKept, kind = "stock", ~beyond,
                    NEW mark \in Marks
             PROVE  Abs(TotalPnL(position, mark) - (Times(mark, net) - spent))
                        <= Tolerance
    BY DEF MarkedToMarket
<1> DEFINE open == position.openQuantity
           cost == position.costBasis
           realized == position.realizedPnL
           carried == realized - cost + spent
<1>1. /\ position \in PositionState /\ peak \in Nat /\ spent \in Int
      /\ cuts \in Nat /\ net = open /\ mark \in Int
    BY BoundsAssumption DEF Inv, TypeOK, QuantityIsNet
<1>2. open \in Int /\ cost \in Int /\ realized \in Int /\ carried \in Int
    BY <1>1 DEF PositionState
<1>3. /\ 0 <= open /\ open <= peak /\ Abs(carried) <= cuts
      /\ open = 0 => Abs(cost) <= Residue
    BY DEF StockKept
<1>4. OpenLegs(position) = {} /\ position.unrealizedOptionPnL = 0
    BY DEF StockKept, OpenLegs
<1>5. MapThenSumSet(LAMBDA k : Intrinsic(position, k, mark),
                    OpenLegs(position)) = 0
    BY <1>4 DEF MapThenSumSet, MapThenFoldSet
<1>6. /\ open \div Factor <= peak \div Factor
      /\ open \div Factor \in Nat /\ peak \div Factor \in Nat
    BY <1>1, <1>2, <1>3, ResidueGrows
<1>7. CASE open = 0
    <2>1. TotalPnL(position, mark) = realized
        BY <1>2, <1>4, <1>5, <1>7 DEF TotalPnL, UnrealizedPnL
    <2>2. Times(mark, net) = 0
        <3>1. mark * net = 0
            BY <1>1, <1>7
        <3> QED
            BY <3>1, CutValue, FactorAssumption DEF Times
    <2> HIDE DEF open, cost, realized
    <2>3. TotalPnL(position, mark) - (Times(mark, net) - spent)
              = carried + cost
        BY <1>1, <1>2, <2>1, <2>2
    <2>4. Abs(cost) <= Residue /\ Residue \in Nat
        BY <1>3, <1>6, <1>7 DEF Residue
    <2> HIDE DEF carried
    <2>5. Abs(carried + cost) <= cuts + Residue
        BY <1>1, <1>2, <1>3, <2>4 DEF Abs
    <2>6. carried + cost \in Int /\ Abs(carried + cost) \in Int
        BY <1>2 DEF Abs
    <2> QED
        BY <1>1, <2>3, <2>4, <2>5, <2>6 DEF Tolerance
<1>8. CASE open # 0
    <2>1. open \in Nat \ {0} /\ Abs(open) = open
        BY <1>2, <1>3, <1>8 DEF Abs
    <2> DEFINE value == Times(mark - Per(cost, open), open)
               worth == Times(mark, open)
    <2>2. value \in Int /\ worth \in Int
        <3>1. mark - Per(cost, open) \in Int
            BY <1>1, <1>2, <2>1, PerType
        <3> QED
            BY <1>1, <1>2, <3>1, TimesType
    <2>3. UnrealizedPnL(position, mark) = value
        BY <1>4, <1>5, <1>8, <2>1, <2>2 DEF UnrealizedPnL, AverageCost
    <2>4. TotalPnL(position, mark) = realized + value
        BY <2>3 DEF TotalPnL
    <2>5. Abs(value + cost - worth) <= 2 + open \div Factor
        BY <1>1, <1>2, <2>1, MarkedShare
    <2>6. Times(mark, net) = worth
        BY <1>1
    <2> HIDE DEF open, cost, realized, value, worth
    <2>7. TotalPnL(position, mark) - (Times(mark, net) - spent)
              = carried + (value + cost - worth)
        BY <1>1, <1>2, <2>2, <2>4, <2>6
    <2> DEFINE more == value + cost - worth
    <2>8. more \in Int /\ Abs(more) <= 2 + peak \div Factor
        <3>1. more \in Int /\ Abs(more) \in Int
            BY <1>2, <2>2 DEF Abs
        <3> QED
            BY <1>6, <2>5, <3>1
    <2> HIDE DEF carried, more
    <2>9. Abs(carried + more) <= cuts + 2 + peak \div Factor
        BY <1>1, <1>2, <1>3, <1>6, <2>8 DEF Abs
    <2>10. Abs(carried + more) \in Int
        BY <1>2, <2>8 DEF Abs
    <2>11. Tolerance = cuts + 2 + peak \div Factor
        BY <1>1, <1>6 DEF Tolerance, Residue
    <2> QED
        BY <2>7, <2>9, <2>11 DEF more
<1> QED
    BY <1>7, <1>8

-----------------------------------------------------------------------------
(* Options of which no more is closed than was open. *)

(* The form asks for a quantity. A trade of no contracts would leave a premium
   in the position that no close ever realizes. *)
QuantitiesArePositive == \A t \in OptionTrades : t.qty > 0

(* The invariant behind ClosedIsRealized: no leg is overdrawn, and what is
   left when the last leg goes is what its average cut off. It is about every
   leg, for the amounts belong to all of them together. *)
LegsKept ==
    kind = "option" /\ ~beyond =>
        /\ \A k \in LegKey : 0 <= position.legs[k] /\ position.legs[k] <= peak
        /\ (\A k \in LegKey : position.legs[k] = 0) =>
              /\ Abs(position.unrealizedOptionPnL) <= Residue
              /\ Abs(position.costBasis) <= Residue

(* The share of a whole leg leaves of an amount what the average cut off. *)
LEMMA ShareOfAll ==
    ASSUME NEW s \in PositionState, NEW t \in OptionTrades, NEW amount \in Int,
           t.qty > 0, s.legs[LegOf(t, Opposite(t.side))] = t.qty
    PROVE  Abs(amount - Share(s, t, amount)) <= 1 + t.qty \div Factor
<1>1. t.qty \in Nat \ {0}
    BY TradeFields
<1>2. Share(s, t, amount) = Times(Per(amount, t.qty), t.qty)
    BY <1>1 DEF Share
<1> QED
    BY <1>1, <1>2, WholeShare

(* A close and an exercise treat the leg alike. *)
LEMMA LegIsClosed ==
    ASSUME Inv, LegsKept, kind = "option", ~beyond,
           NEW t \in OptionTrades, t.qty > 0, ~TooMany(t),
           NEW after \in PositionState, NEW paid \in PositionState,
           paid.legs = position.legs,
           paid.unrealizedOptionPnL = position.unrealizedOptionPnL,
           paid.costBasis = position.costBasis,
           after.legs = LegsWithout(paid, t),
           after.unrealizedOptionPnL = paid.unrealizedOptionPnL
               - Share(paid, t, paid.unrealizedOptionPnL),
           after.costBasis = paid.costBasis - Share(paid, t, paid.costBasis)
    PROVE  /\ \A k \in LegKey : 0 <= after.legs[k] /\ after.legs[k] <= peak
           /\ (\A k \in LegKey : after.legs[k] = 0) =>
                 /\ Abs(after.unrealizedOptionPnL) <= Residue
                 /\ Abs(after.costBasis) <= Residue
<1> DEFINE leg == LegOf(t, Opposite(t.side))
<1>1. leg \in LegKey /\ t.qty \in Nat \ {0}
    BY LegOfType, TradeFields
<1>2. /\ position.legs \in [LegKey -> Int] /\ peak \in Nat
      /\ position.unrealizedOptionPnL \in Int /\ position.costBasis \in Int
    BY Fields DEF Inv, TypeOK
<1>3. \A k \in LegKey : 0 <= position.legs[k] /\ position.legs[k] <= peak
    BY DEF LegsKept
<1>4. t.qty <= position.legs[leg]
    BY <1>1, <1>2 DEF TooMany
<1>5. after.legs = [position.legs EXCEPT ![leg] = position.legs[leg] - t.qty]
    BY <1>1, <1>2, <1>4 DEF LegsWithout
<1>6. \A k \in LegKey : 0 <= after.legs[k] /\ after.legs[k] <= peak
    <2> HIDE DEF leg
    <2> QED
        BY <1>1, <1>2, <1>3, <1>4, <1>5
<1>7. ASSUME \A k \in LegKey : after.legs[k] = 0
      PROVE  /\ Abs(after.unrealizedOptionPnL) <= Residue
             /\ Abs(after.costBasis) <= Residue
    <2>1. position.legs[leg] = t.qty
        <3> HIDE DEF leg
        <3> QED
            BY <1>1, <1>2, <1>5, <1>7
    <2>2. /\ Abs(after.unrealizedOptionPnL) <= 1 + t.qty \div Factor
          /\ Abs(after.costBasis) <= 1 + t.qty \div Factor
        BY <1>2, <2>1, ShareOfAll
    <2>3. /\ t.qty \div Factor <= peak \div Factor
          /\ t.qty \div Factor \in Nat /\ peak \div Factor \in Nat
        <3>1. t.qty <= peak
            BY <1>1, <1>3, <2>1
        <3> QED
            BY <1>1, <1>2, <3>1, ResidueGrows
    <2>4. Abs(after.unrealizedOptionPnL) \in Int /\ Abs(after.costBasis) \in Int
        BY Fields DEF Abs
    <2> QED
        BY <2>2, <2>3, <2>4 DEF Residue
<1> QED
    BY <1>6, <1>7

LEMMA OpenKeepsLegs ==
    ASSUME QuantitiesArePositive, Inv, LegsKept, Open
    PROVE  LegsKept'
<1>1. PICK t \in OptionTrades :
          /\ position' = Opened(Paying(Sized(position, t), t), t)
          /\ peak' = Greater(peak, position'.legs[LegOf(t, t.side)])
    BY DEF Open, WithOption
<1>2. /\ kind = "option" /\ kind' = kind /\ beyond' = beyond
      /\ peak \in Nat /\ position \in PositionState
    BY DEF Open, Event, Inv, TypeOK
<1> SUFFICES ASSUME ~beyond
             PROVE  LegsKept'
    BY <1>2 DEF LegsKept
<1>3. t.qty \in Nat \ {0} /\ LegOf(t, t.side) \in LegKey
    BY TradeFields, LegOfType DEF QuantitiesArePositive
<1>4. /\ Sized(position, t) \in PositionState
      /\ Sized(position, t).legs = position.legs
    BY <1>2, TradeFields, SizedType
<1>5. /\ Paying(Sized(position, t), t) \in PositionState
      /\ Paying(Sized(position, t), t).legs = position.legs
    BY <1>4, TradeFields, PayingType
<1> DEFINE leg == LegOf(t, t.side)
<1>6. /\ position' \in PositionState
      /\ position'.legs = [position.legs EXCEPT ![leg] = @ + t.qty]
    BY <1>1, <1>5, OpenedType DEF LegsWith
<1>7. position.legs \in [LegKey -> Int]
    BY <1>2, Fields
<1>8. \A k \in LegKey : 0 <= position.legs[k] /\ position.legs[k] <= peak
    BY <1>2 DEF LegsKept
<1>9. peak' = Greater(peak, position'.legs[leg])
    BY <1>1
<1> HIDE DEF leg
<1>10. /\ position'.legs[leg] = position.legs[leg] + t.qty
       /\ position.legs[leg] \in Nat /\ leg \in LegKey
    BY <1>3, <1>6, <1>7, <1>8 DEF leg
<1>11. /\ peak' \in Nat /\ peak <= peak' /\ position'.legs[leg] <= peak'
    BY <1>2, <1>3, <1>9, <1>10 DEF Greater
<1>12. \A k \in LegKey :
           0 <= position'.legs[k] /\ position'.legs[k] <= peak'
    BY <1>2, <1>3, <1>6, <1>7, <1>8, <1>10, <1>11
<1>13. position'.legs[leg] # 0
    BY <1>3, <1>10
<1> QED
    BY <1>10, <1>12, <1>13 DEF LegsKept

LEMMA CloseKeepsLegs ==
    ASSUME QuantitiesArePositive, Inv, LegsKept, Close \/ Exercise
    PROVE  LegsKept'
<1>1. /\ kind = "option" /\ kind' = kind /\ peak' = peak
      /\ position \in PositionState /\ beyond \in BOOLEAN
    BY DEF Close, Exercise, Event, Inv, TypeOK
<1>2. PICK t \in OptionTrades :
          /\ \/ position' = Closed(Paying(Sized(position, t), t), t)
             \/ position' = Exercised(Paying(Sized(position, t), t), t)
          /\ beyond' = (beyond \/ TooMany(t))
    BY DEF Close, Exercise, WithOption
<1> SUFFICES ASSUME ~beyond'
             PROVE  LegsKept'
    BY DEF LegsKept
<1>3. ~beyond /\ ~TooMany(t) /\ t.qty > 0
    BY <1>1, <1>2 DEF QuantitiesArePositive
<1> DEFINE paid == Paying(Sized(position, t), t)
<1>4. /\ Sized(position, t) \in PositionState
      /\ Sized(position, t).legs = position.legs
      /\ Sized(position, t).costBasis = position.costBasis
      /\ Sized(position, t).unrealizedOptionPnL = position.unrealizedOptionPnL
    BY <1>1, TradeFields, SizedType
<1>5. /\ paid \in PositionState
      /\ paid.legs = position.legs
      /\ paid.costBasis = position.costBasis
      /\ paid.unrealizedOptionPnL = position.unrealizedOptionPnL
    BY <1>4, TradeFields, PayingType
<1>6. position' = Closed(paid, t) \/ position' = Exercised(paid, t)
    BY <1>2
<1> HIDE DEF paid
<1>7. /\ position' \in PositionState
      /\ position'.legs = LegsWithout(paid, t)
      /\ position'.unrealizedOptionPnL = paid.unrealizedOptionPnL
             - Share(paid, t, paid.unrealizedOptionPnL)
      /\ position'.costBasis = paid.costBasis - Share(paid, t, paid.costBasis)
    BY <1>5, <1>6, ClosedType, ExercisedType
<1>8. PICK after \in PositionState : after = position'
    BY <1>7
<1>9. /\ \A k \in LegKey : 0 <= after.legs[k] /\ after.legs[k] <= peak
      /\ (\A k \in LegKey : after.legs[k] = 0) =>
            /\ Abs(after.unrealizedOptionPnL) <= Residue
            /\ Abs(after.costBasis) <= Residue
    BY <1>1, <1>3, <1>5, <1>7, <1>8, LegIsClosed
<1>10. Residue' = Residue
    BY <1>1 DEF Residue
<1> QED
    BY <1>1, <1>8, <1>9, <1>10 DEF LegsKept

LEMMA InitLegs == Init => LegsKept
<1> SUFFICES ASSUME Init
             PROVE  LegsKept
    OBVIOUS
<1>1. /\ \A k \in LegKey : position.legs[k] = 0
      /\ position.unrealizedOptionPnL = 0 /\ position.costBasis = 0
    BY DEF Init, Fresh
<1>2. peak = 0 /\ Residue \in Nat
    BY FactorAssumption DEF Init, Residue
<1> QED
    BY <1>1, <1>2 DEF LegsKept, Abs

LEMMA NextLegs ==
    ASSUME QuantitiesArePositive
    PROVE  Inv /\ LegsKept /\ [Next]_vars => LegsKept'
<1> SUFFICES ASSUME Inv, LegsKept, [Next]_vars
             PROVE  LegsKept'
    OBVIOUS
<1>1. ASSUME kind = "stock", kind' = kind
      PROVE  LegsKept'
    BY <1>1 DEF LegsKept
<1>2. CASE Extend \/ Reduce
    BY <1>1, <1>2 DEF Extend, Reduce, Event
<1>3. CASE Refuse
    BY <1>3 DEF Refuse, LegsKept, Residue
<1>4. CASE UNCHANGED vars
    BY <1>4 DEF vars, LegsKept, Residue
<1> QED
    BY <1>2, <1>3, <1>4, OpenKeepsLegs, CloseKeepsLegs DEF Next

-----------------------------------------------------------------------------
(* What is proved. *)

(* Whatever trades there are, the fold keeps its state well typed (pnl.hpp:
   146). *)
THEOREM PositionTypeCorrect == Spec => []TypeOK
<1>1. Inv => TypeOK
    BY DEF Inv
<1> QED
    BY InitInv, NextInv, <1>1, PTL DEF Spec

(* The open quantity is the sum of the trades, for every sequence of trades,
   also one that sells short or turns the position around (pnl.cpp:55). *)
THEOREM OpenQuantityIsNet == Spec => []QuantityIsNet
<1>1. Inv => QuantityIsNet
    BY DEF Inv
<1> QED
    BY InitInv, NextInv, <1>1, PTL DEF Spec

(* No premium is lost or counted twice between realized and unrealized
   profit, whatever division cuts off (pnl.cpp:108). *)
THEOREM PremiumsAreKept == Spec => []PremiumsBalance
<1>1. Inv => PremiumsBalance
    BY DEF Inv
<1> QED
    BY InitInv, NextInv, <1>1, PTL DEF Spec

(* At every mark price the profit shown for stock that is never sold short is
   its worth less what was spent on it, for any trades and any unit, but for a
   unit for each sale, one for each whole share of the largest holding, and
   two (pnl.cpp:77, pnl.cpp:339). *)
THEOREM ProfitIsMarked == Spec => []MarkedToMarket
<1>1. Init => Inv /\ StockKept
    BY InitInv, InitStock
<1>2. Inv /\ StockKept /\ [Next]_vars => (Inv /\ StockKept)'
    BY NextInv, NextStock
<1> QED
    BY <1>1, <1>2, StockIsMarked, PTL DEF Spec

(* Options that are opened, closed, rolled and exercised in any parts leave,
   once every leg is closed, no unrealized profit and no cost but a unit for
   each contract of the largest leg, and one, for any trades that have a
   quantity (pnl.cpp:170). *)
THEOREM ClosedIsSettled ==
    ASSUME QuantitiesArePositive
    PROVE  Spec => []ClosedIsRealized
<1>1. Init => Inv /\ LegsKept
    BY InitInv, InitLegs
<1>2. Inv /\ LegsKept /\ [Next]_vars => (Inv /\ LegsKept)'
    BY NextInv, NextLegs
<1>3. LegsKept => ClosedIsRealized
    BY DEF LegsKept, ClosedIsRealized
<1> QED
    BY <1>1, <1>2, <1>3, PTL DEF Spec

-----------------------------------------------------------------------------
(* The prices. *)

(* What the worker is waited for is what it was asked for. *)
ExpectsAnswers ==
  fetch.state # "idle" => expected = Cardinality(fetch.asked)

(* A row keeps a price only when its ticker has one, and a view without an   *)
(* account to refresh has no rows: an update leaves no old price behind.     *)
PricesHaveQuotes ==
  \A a \in SecurityAccounts : \A p \in DOMAIN details[a] :
    details[a][p] # NoPrice => p.ticker \in DOMAIN cache
RowsHaveAccount == current = NoAccount => view.rows = NoRows

FeedInv == FeedTypeOK /\ ExpectsAnswers
ViewInv == FeedInv /\ PricesHaveQuotes /\ RowsHaveAccount /\ ShownPricesAreCached

-----------------------------------------------------------------------------
LEMMA TickersFinite ==
  ASSUME NEW S, S \subseteq Tickers
  PROVE  IsFiniteSet(S) /\ Cardinality(S) \in Nat
  <1>1. IsFiniteSet(Tickers)  BY FeedAssumption DEF FeedAssumption
  <1>2. IsFiniteSet(S)  BY <1>1, FS_Subset
  <1> QED BY <1>2, FS_CardinalityType

(* As many answers as questions are the answers to all of them. *)
LEMMA CountIsEnough ==
  ASSUME NEW A, A \subseteq Tickers, NEW G, G \subseteq A,
         Cardinality(G) = Cardinality(A)
  PROVE  G = A
  <1>1. IsFiniteSet(A)  BY TickersFinite
  <1> QED BY <1>1, FS_Subset

LEMMA NewFetch ==
  ASSUME NEW S, S \subseteq Tickers
  PROVE  IsFetch(FetchOf(S)) /\ FetchOf(S).asked = S
  BY DEF IsFetch, FetchOf, IsQuotes, NoQuotes

(* FetchPrices keeps the types, whatever has been collected before it. *)
LEMMA FetchKeeps ==
  ASSUME FeedInv, NEW S, tracked \subseteq S, S \subseteq Tickers, FetchPrices(S)
  PROVE  /\ IsFetch(fetch)' /\ fetch'.asked \subseteq S /\ expected' \in Nat
         /\ DOMAIN cache \subseteq fetch'.asked
         /\ ExpectsAnswers'
  <1>1. CASE fetch.state = "running" \/ S = {}
    BY <1>1 DEF FeedInv, FeedTypeOK, FetchPrices, ExpectsAnswers, IsFetch, IsQuotes
  <1>2. CASE ~ (fetch.state = "running" \/ S = {})
    <2>1. fetch' = FetchOf(S) /\ expected' = Cardinality(S)
      BY <1>2 DEF FetchPrices
    <2>2. DOMAIN cache \subseteq S  BY DEF FeedInv, FeedTypeOK
    <2>3. IsFetch(fetch') /\ fetch'.asked = S  BY <2>1, NewFetch
    <2>4. expected' \in Nat  BY <2>1, TickersFinite
    <2> QED BY <2>1, <2>2, <2>3, <2>4 DEF ExpectsAnswers, IsFetch
  <1> QED BY <1>1, <1>2

LEMMA NothingIsRows == IsRows(NoRows)
  BY DEF IsRows, NoRows

LEMMA FeedBegins == FeedInit => FeedInv
  <1> SUFFICES ASSUME FeedInit PROVE FeedInv  OBVIOUS
  <1>1. PICK f \in Files : stocks = f.stocks /\ positions = f.positions
    BY DEF FeedInit
  <1>2. stocks \subseteq Tickers /\ positions \subseteq Positions
    BY <1>1, FeedAssumption DEF FeedAssumption
  <1>3. IsFetch(fetch) /\ fetch.asked = tracked /\ expected \in Nat
    BY <1>2, NewFetch, TickersFinite DEF FeedInit
  <1>4. IsQuotes(cache) /\ DOMAIN cache = {}  BY DEF FeedInit, IsQuotes, NoQuotes
  <1>5. details = [a \in SecurityAccounts |-> details[a]]
        /\ \A a \in SecurityAccounts : IsRows(details[a])
    BY NothingIsRows DEF FeedInit
  <1>6. IsRows(view.rows) /\ view.account = NoAccount  BY NothingIsRows DEF FeedInit
  <1>7. FeedTypeOK  BY <1>2, <1>3, <1>4, <1>5, <1>6 DEF FeedInit, FeedTypeOK
  <1> QED BY <1>3, <1>7 DEF FeedInit, FeedInv, ExpectsAnswers

-----------------------------------------------------------------------------
(* The rows of an account, and what a batch makes of them. *)
LEMMA RowsOfAccount ==
  ASSUME positions \subseteq Positions, NEW a
  PROVE  /\ IsRows(OpenDetails(a))
         /\ \A p \in DOMAIN OpenDetails(a) : OpenDetails(a)[p] = NoPrice
  BY DEF IsRows, PriceOrNone, OpenDetails, OpenPositions

LEMMA RepricedRows ==
  ASSUME NEW rows, IsRows(rows), NEW quotes, IsQuotes(quotes)
  PROVE  IsRows(Repriced(rows, quotes))
  BY DEF IsRows, Repriced, IsQuotes, PriceOrNone

LEMMA UpdatedQuotes ==
  ASSUME NEW old, IsQuotes(old), NEW new, IsQuotes(new),
         DOMAIN old \subseteq DOMAIN new
  PROVE  Updated(old, new) = new /\ IsQuotes(Updated(old, new))
  BY DEF Updated, IsQuotes

(* A complete answer is an answer to every question. *)
LEMMA PublishesAll ==
  ASSUME FeedInv, Publish
  PROVE  /\ DOMAIN fetch.got = fetch.asked /\ cache' = fetch.got
         /\ IsQuotes(cache') /\ DOMAIN cache \subseteq DOMAIN cache'
  <1>1. /\ IsQuotes(cache) /\ IsQuotes(fetch.got)
        /\ fetch.asked \subseteq Tickers /\ DOMAIN fetch.got \subseteq fetch.asked
        /\ DOMAIN cache \subseteq fetch.asked
    BY DEF FeedInv, FeedTypeOK, IsFetch
  <1>2. Cardinality(DOMAIN fetch.got) = Cardinality(fetch.asked)
    BY DEF Publish, Complete, FeedInv, ExpectsAnswers
  <1>3. DOMAIN fetch.got = fetch.asked  BY <1>1, <1>2, CountIsEnough
  <1>4. cache' = Updated(cache, fetch.got)  BY DEF Publish
  <1> QED BY <1>1, <1>3, <1>4, UpdatedQuotes

LEMMA DeliveredKeeps ==
  ASSUME FeedInv, Delivered
  PROVE  /\ IsFetch(fetch') /\ fetch'.asked = fetch.asked
         /\ fetch'.state = "idle"
  BY DEF FeedInv, FeedTypeOK, IsFetch, Delivered, IsQuotes, NoQuotes

LEMMA AnswerKeeps ==
  ASSUME FeedInv, NEW S, S \subseteq fetch.asked, Answer(S)
  PROVE  /\ IsFetch(fetch') /\ fetch'.asked = fetch.asked
         /\ fetch.state = "running" /\ fetch'.state = "finished"
  <1>1. PICK got \in [S -> Prices] :
          fetch' = [fetch EXCEPT !.state = "finished", !.got = got]
    BY DEF Answer
  <1>2. S \subseteq Tickers  BY DEF FeedInv, FeedTypeOK
  <1>3. IsQuotes(got) /\ DOMAIN got \subseteq fetch.asked  BY <1>2 DEF IsQuotes
  <1>4. fetch = [state |-> fetch.state, asked |-> fetch.asked, got |-> fetch.got]
    BY DEF FeedInv, FeedTypeOK, IsFetch
  <1>5. fetch' = [state |-> "finished", asked |-> fetch.asked, got |-> got]
    BY <1>1, <1>4
  <1> QED BY <1>3, <1>5 DEF Answer, IsFetch

(* The view after a batch. *)
LEMMA ShowPricesKeeps ==
  ASSUME FeedInv, NEW quotes, IsQuotes(quotes), ShowPrices(quotes)
  PROVE  /\ details' = [a \in SecurityAccounts |-> details'[a]]
         /\ \A a \in SecurityAccounts : IsRows(details'[a])
         /\ current' = current
         /\ view'.account \in Accounts \cup {NoAccount} /\ IsRows(view'.rows)
         /\ running' \in BOOLEAN
  <1>1. CASE current = NoAccount \/ Mismatch(details[current], quotes)
    <2>1. UNCHANGED shown /\ (running' = FALSE \/ running' = running)
      BY <1>1 DEF ShowPrices
    <2> QED BY <2>1 DEF shown, FeedInv, FeedTypeOK
  <1>2. CASE ~ (current = NoAccount \/ Mismatch(details[current], quotes))
    <2> DEFINE rows == Repriced(details[current], quotes)
    <2>1. /\ details' = [details EXCEPT ![current] = rows]
          /\ view' = [account |-> current, rows |-> rows]
          /\ UNCHANGED <<current, running>>
      BY <1>2 DEF ShowPrices
    <2>2. current \in SecurityAccounts  BY <1>2 DEF FeedInv, FeedTypeOK
    <2>3. IsRows(rows)  BY <2>2, RepricedRows DEF FeedInv, FeedTypeOK
    <2> HIDE DEF rows
    <2> QED BY <2>1, <2>2, <2>3 DEF FeedInv, FeedTypeOK, Accounts
  <1> QED BY <1>1, <1>2

-----------------------------------------------------------------------------
LEMMA SelectKeeps ==
  ASSUME FeedInv, NEW a \in SecurityAccounts, SelectSecurity(a)
  PROVE  FeedTypeOK'
  <1> DEFINE rows == OpenDetails(a)
  <1>1. /\ details' = [details EXCEPT ![a] = rows]
        /\ view' = [account |-> a, rows |-> rows] /\ current' = a
        /\ UNCHANGED <<store, feed, running>>
    BY DEF SelectSecurity
  <1>2. IsRows(rows)  BY RowsOfAccount DEF FeedInv, FeedTypeOK
  <1> HIDE DEF rows
  <1>3. /\ details' = [b \in SecurityAccounts |-> details'[b]]
        /\ \A b \in SecurityAccounts : IsRows(details'[b])
        /\ IsRows(view'.rows) /\ view'.account = a
    BY <1>1, <1>2 DEF FeedInv, FeedTypeOK
  <1>4. UNCHANGED <<stocks, positions, tracked, expected, fetch, cache, running>>
    BY <1>1 DEF store, feed
  <1> QED BY <1>1, <1>3, <1>4 DEF FeedInv, FeedTypeOK, Accounts

LEMMA FeedGoesOn == FeedInv /\ [FeedNext]_feedVars => FeedInv'
  <1> SUFFICES ASSUME FeedInv, [FeedNext]_feedVars PROVE FeedInv'  OBVIOUS
  <1> USE DEF FeedInv
  <1>1. CASE Tick
    <2>1. FetchPrices(tracked) /\ tracked \subseteq Tickers
          /\ UNCHANGED <<store, tracked, cache, shown, running>>
      BY <1>1 DEF Tick, FeedTypeOK
    <2>2. /\ IsFetch(fetch') /\ fetch'.asked \subseteq tracked /\ expected' \in Nat
          /\ DOMAIN cache \subseteq fetch'.asked /\ ExpectsAnswers'
      BY <2>1, FetchKeeps
    <2> QED BY <2>1, <2>2 DEF FeedTypeOK, store, shown
  <1>2. CASE AnswerSome
    <2>1. PICK S \in SUBSET fetch.asked : Answer(S)  BY <1>2 DEF AnswerSome
    <2>2. /\ IsFetch(fetch') /\ fetch'.asked = fetch.asked
          /\ fetch.state = "running"
      BY <2>1, AnswerKeeps
    <2>3. UNCHANGED <<store, tracked, expected, cache, shown, running>>
      BY <2>1 DEF Answer
    <2> QED BY <2>2, <2>3 DEF FeedTypeOK, ExpectsAnswers, store, shown
  <1>3. CASE Discard
    <2>1. /\ IsFetch(fetch') /\ fetch'.asked = fetch.asked
          /\ fetch'.state = "idle"
          /\ UNCHANGED <<store, tracked, expected, cache, shown, running>>
      BY <1>3, DeliveredKeeps DEF Discard
    <2> QED BY <2>1 DEF FeedTypeOK, ExpectsAnswers, store, shown
  <1>4. CASE Publish
    <2>1. /\ IsFetch(fetch') /\ fetch'.asked = fetch.asked
          /\ fetch'.state = "idle"
          /\ UNCHANGED <<store, tracked, expected>>
      BY <1>4, DeliveredKeeps DEF Publish
    <2>2. IsQuotes(cache') /\ DOMAIN cache' = fetch.asked
      BY <1>4, PublishesAll
    <2>3. ShowPrices(cache')  BY <1>4 DEF Publish
    <2>4. /\ details' = [a \in SecurityAccounts |-> details'[a]]
          /\ \A a \in SecurityAccounts : IsRows(details'[a])
          /\ current' = current
          /\ view'.account \in Accounts \cup {NoAccount} /\ IsRows(view'.rows)
          /\ running' \in BOOLEAN
      BY <2>2, <2>3, ShowPricesKeeps
    <2>5. ExpectsAnswers'  BY <2>1 DEF ExpectsAnswers
    <2> QED BY <2>1, <2>2, <2>4, <2>5 DEF FeedTypeOK, store
  <1>5. CASE \E a \in CashAccounts : SelectCash(a)
    BY <1>5, NothingIsRows
    DEF SelectCash, FeedTypeOK, ExpectsAnswers, store, feed, Accounts
  <1>6. CASE \E a \in SecurityAccounts : SelectSecurity(a)
    <2>1. PICK a \in SecurityAccounts : SelectSecurity(a)  BY <1>6
    <2>2. FeedTypeOK'  BY <2>1, SelectKeeps
    <2> QED BY <2>1, <2>2 DEF SelectSecurity, ExpectsAnswers, feed
  <1>7. CASE \E t \in Tickers : AddStock(t)
    BY <1>7 DEF AddStock, FeedTypeOK, ExpectsAnswers, feed, shown
  <1>8. CASE \E p \in Positions : Trade(p)
    <2>1. PICK p \in Positions : Trade(p)  BY <1>8
    <2>2. p.ticker \in Tickers  BY FeedAssumption DEF FeedAssumption
    <2>3. /\ FetchPrices(tracked') /\ tracked \subseteq tracked'
          /\ tracked' \subseteq Tickers /\ positions' \subseteq Positions
          /\ UNCHANGED <<stocks, cache, shown, running>>
      BY <2>1, <2>2 DEF Trade, Collected, FeedTypeOK
    <2>4. /\ IsFetch(fetch') /\ fetch'.asked \subseteq tracked' /\ expected' \in Nat
          /\ DOMAIN cache \subseteq fetch'.asked /\ ExpectsAnswers'
      BY <2>3, FetchKeeps
    <2> QED BY <2>3, <2>4 DEF FeedTypeOK, shown
  <1>9. CASE Deposit
    <2>1. /\ FetchPrices(tracked') /\ tracked \subseteq tracked'
          /\ tracked' \subseteq Tickers
          /\ UNCHANGED <<store, cache, shown, running>>
      BY <1>9 DEF Deposit, FeedTypeOK
    <2>2. /\ IsFetch(fetch') /\ fetch'.asked \subseteq tracked' /\ expected' \in Nat
          /\ DOMAIN cache \subseteq fetch'.asked /\ ExpectsAnswers'
      BY <2>1, FetchKeeps
    <2> QED BY <2>1, <2>2 DEF FeedTypeOK, store, shown
  <1>10. CASE \E f \in Files : Restore(f)
    <2>1. stocks' \subseteq Tickers /\ positions' \subseteq Positions
          /\ UNCHANGED <<feed, shown, running>>
      BY <1>10, FeedAssumption DEF Restore, FeedAssumption
    <2> QED BY <2>1 DEF FeedTypeOK, ExpectsAnswers, feed, shown
  <1>11. CASE UNCHANGED feedVars
    BY <1>11 DEF feedVars, store, feed, shown, FeedTypeOK, ExpectsAnswers
  <1> QED BY <1>1, <1>2, <1>3, <1>4, <1>5, <1>6, <1>7, <1>8, <1>9, <1>10, <1>11
          DEF FeedNext

(* The feed is well typed: a batch in flight was asked for by what is         *)
(* tracked, and every quote there is belongs to what was last asked for.     *)
THEOREM FeedTypeCorrect == FeedSpec => []FeedTypeOK
  <1>1. FeedInv => FeedTypeOK  BY DEF FeedInv
  <1> QED BY FeedBegins, FeedGoesOn, <1>1, PTL DEF FeedSpec

-----------------------------------------------------------------------------
(* The feed implements the board: the gate counts, and as many answers as    *)
(* questions are all of them; and the questions only ever become more, so    *)
(* that merging them into the cache replaces it.                             *)
LEMMA BoardInit == FeedInit => Board!Init
  <1> SUFFICES ASSUME FeedInit PROVE Board!Init  OBVIOUS
  <1>1. tracked \subseteq Tickers  BY FeedBegins DEF FeedInv, FeedTypeOK
  <1>2. fetch.asked = tracked  BY <1>1, NewFetch DEF FeedInit
  <1>3. fetch.got = NoQuotes  BY DEF FeedInit, FetchOf
  <1> QED BY <1>1, <1>2, <1>3 DEF FeedInit, Board!Init, NoQuotes, Board!NoQuotes

LEMMA FetchAsks ==
  ASSUME NEW S, S \subseteq Tickers, FetchPrices(S)
  PROVE  \/ fetch' = fetch
         \/ fetch'.asked = S /\ fetch'.got = NoQuotes
  BY DEF FetchPrices, FetchOf

LEMMA BoardStep ==
  FeedInv /\ [FeedNext]_feedVars =>
    [Board!Track \/ Board!Ask \/ Board!Answer \/ Board!Drop \/ Board!Post]_
      <<tracked, fetch.asked, fetch.got, cache>>
  <1> SUFFICES ASSUME FeedInv, [FeedNext]_feedVars
               PROVE  \/ Board!Track \/ Board!Ask \/ Board!Answer
                      \/ Board!Drop \/ Board!Post
                      \/ UNCHANGED <<tracked, fetch.asked, fetch.got, cache>>
    OBVIOUS
  <1>1. CASE Publish
    <2>1. /\ DOMAIN fetch.got = fetch.asked /\ cache' = fetch.got
      BY <1>1, PublishesAll
    <2>2. fetch'.asked = fetch.asked /\ fetch'.got = NoQuotes /\ UNCHANGED tracked
      BY <1>1 DEF Publish, Delivered, FeedInv, FeedTypeOK, IsFetch
    <2> QED BY <2>1, <2>2 DEF Board!Post, NoQuotes, Board!NoQuotes
  <1>2. CASE Discard
    <2>1. /\ fetch'.asked = fetch.asked /\ fetch'.got = NoQuotes
          /\ UNCHANGED <<tracked, cache>>
      BY <1>2 DEF Discard, Delivered, FeedInv, FeedTypeOK, IsFetch
    <2> QED BY <2>1 DEF Board!Drop, NoQuotes, Board!NoQuotes
  <1>3. CASE AnswerSome
    <2>1. PICK S \in SUBSET fetch.asked : Answer(S)  BY <1>3 DEF AnswerSome
    <2>2. PICK got \in [S -> Prices] :
            fetch' = [fetch EXCEPT !.state = "finished", !.got = got]
      BY <2>1 DEF Answer
    <2>3. fetch'.asked = fetch.asked /\ fetch'.got = got
      BY <2>2 DEF FeedInv, FeedTypeOK, IsFetch
    <2>4. UNCHANGED <<tracked, cache>>  BY <2>1 DEF Answer
    <2> QED BY <2>3, <2>4 DEF Board!Answer
  <1>4. CASE Tick \/ Deposit \/ (\E p \in Positions : Trade(p))
    <2>1. /\ FetchPrices(tracked') /\ UNCHANGED cache
          /\ tracked \subseteq tracked' /\ tracked' \subseteq Tickers
      BY <1>4, FeedAssumption
      DEF FeedAssumption, Tick, Deposit, Trade, Collected, FeedInv, FeedTypeOK
    <2>2. \/ fetch' = fetch
          \/ fetch'.asked = tracked' /\ fetch'.got = NoQuotes
      BY <2>1, FetchAsks
    <2> QED BY <2>1, <2>2 DEF Board!Track, Board!Ask, Board!TracksMore,
                              NoQuotes, Board!NoQuotes
  <1>5. CASE \/ \E a \in CashAccounts : SelectCash(a)
             \/ \E a \in SecurityAccounts : SelectSecurity(a)
             \/ \E t \in Tickers : AddStock(t)
             \/ \E f \in Files : Restore(f)
    BY <1>5 DEF SelectCash, SelectSecurity, AddStock, Restore, feed
  <1>6. CASE UNCHANGED feedVars  BY <1>6 DEF feedVars, feed
  <1> QED BY <1>1, <1>2, <1>3, <1>4, <1>5, <1>6 DEF FeedNext

(* Quotes that are read together were fetched together: whatever is booked   *)
(* or restored during a fetch and however many answers fail, an update of    *)
(* PriceCache leaves the answers of one complete fetch and nothing else.     *)
THEOREM WholeBatches == FeedSpec => PostsWholeBatches
  <1>1. FeedSpec => []FeedInv  BY FeedBegins, FeedGoesOn, PTL DEF FeedSpec
  <1> QED BY BoardInit, BoardStep, <1>1, PTL DEF FeedSpec, PostsWholeBatches, Board!Spec

-----------------------------------------------------------------------------
(* Prices in the view. *)
LEMMA BatchReprices ==
  ASSUME ViewInv, NEW quotes, IsQuotes(quotes),
         DOMAIN cache \subseteq DOMAIN quotes, cache' = quotes,
         ShowPrices(quotes)
  PROVE  PricesHaveQuotes' /\ RowsHaveAccount' /\ ShownPricesAreCached'
  <1> USE DEF ViewInv
  <1>1. CASE current = NoAccount
    <2>1. UNCHANGED shown /\ view.rows = NoRows
      BY <1>1 DEF ShowPrices, RowsHaveAccount
    <2> QED BY <2>1 DEF shown, PricesHaveQuotes, RowsHaveAccount,
                        ShownPricesAreCached, NoRows
  <1>2. CASE current # NoAccount /\ Mismatch(details[current], quotes)
    <2>1. UNCHANGED shown /\ running' = FALSE  BY <1>2 DEF ShowPrices
    <2> QED BY <2>1 DEF shown, PricesHaveQuotes, RowsHaveAccount,
                        ShownPricesAreCached
  <1>3. CASE current # NoAccount /\ ~ Mismatch(details[current], quotes)
    <2> DEFINE rows == Repriced(details[current], quotes)
    <2>1. /\ details' = [details EXCEPT ![current] = rows]
          /\ view' = [account |-> current, rows |-> rows] /\ current' = current
      BY <1>3 DEF ShowPrices
    <2>2. current \in SecurityAccounts /\ DOMAIN details = SecurityAccounts
      BY <1>3 DEF FeedInv, FeedTypeOK
    <2>3. \A p \in DOMAIN rows : rows[p] # NoPrice =>
            p.ticker \in DOMAIN quotes /\ rows[p] = quotes[p.ticker]
      BY <2>2 DEF Repriced, PricesHaveQuotes
    <2> HIDE DEF rows
    <2>4. \A a \in SecurityAccounts :
            details'[a] = IF a = current THEN rows ELSE details[a]
      BY <2>1, <2>2
    <2>5. PricesHaveQuotes'  BY <2>3, <2>4 DEF PricesHaveQuotes
    <2>6. ShownPricesAreCached'  BY <2>1, <2>3 DEF ShownPricesAreCached
    <2> QED BY <1>3, <2>1, <2>5, <2>6 DEF RowsHaveAccount
  <1> QED BY <1>1, <1>2, <1>3

LEMMA SelectionHasNoPrice ==
  ASSUME ViewInv, NEW a \in SecurityAccounts, SelectSecurity(a)
  PROVE  PricesHaveQuotes' /\ RowsHaveAccount' /\ ShownPricesAreCached'
  <1> DEFINE rows == OpenDetails(a)
  <1>1. /\ details' = [details EXCEPT ![a] = rows]
        /\ view' = [account |-> a, rows |-> rows] /\ current' = a
        /\ cache' = cache
    BY DEF SelectSecurity, feed
  <1>2. \A p \in DOMAIN rows : rows[p] = NoPrice
    BY RowsOfAccount DEF ViewInv, FeedInv, FeedTypeOK
  <1>3. a # NoAccount  BY FeedAssumption DEF FeedAssumption
  <1>4. DOMAIN details = SecurityAccounts  BY DEF ViewInv, FeedInv, FeedTypeOK
  <1> HIDE DEF rows
  <1>5. \A b \in SecurityAccounts :
          details'[b] = IF b = a THEN rows ELSE details[b]
    BY <1>1, <1>4
  <1>6. PricesHaveQuotes'  BY <1>1, <1>2, <1>5 DEF PricesHaveQuotes, ViewInv
  <1> QED BY <1>1, <1>2, <1>3, <1>6 DEF RowsHaveAccount, ShownPricesAreCached

LEMMA ViewInit == FeedInit => ViewInv
  BY FeedBegins DEF FeedInit, ViewInv, PricesHaveQuotes, RowsHaveAccount,
                  ShownPricesAreCached, NoRows

LEMMA ViewStep == ViewInv /\ [FeedNext]_feedVars => ViewInv'
  <1> SUFFICES ASSUME ViewInv, [FeedNext]_feedVars
               PROVE  PricesHaveQuotes' /\ RowsHaveAccount' /\ ShownPricesAreCached'
    BY FeedGoesOn DEF ViewInv
  <1>1. CASE Publish
    <2>1. IsQuotes(cache') /\ DOMAIN cache \subseteq DOMAIN cache'
      BY <1>1, PublishesAll DEF ViewInv
    <2>2. ShowPrices(cache')  BY <1>1 DEF Publish
    <2> DEFINE quotes == cache'
    <2>3. IsQuotes(quotes) /\ DOMAIN cache \subseteq DOMAIN quotes
          /\ cache' = quotes /\ ShowPrices(quotes)
      BY <2>1, <2>2
    <2> QED BY <2>3, BatchReprices
  <1>2. CASE \E a \in SecurityAccounts : SelectSecurity(a)
    BY <1>2, SelectionHasNoPrice
  <1>3. CASE \E a \in CashAccounts : SelectCash(a)
    BY <1>3 DEF SelectCash, ViewInv, PricesHaveQuotes, RowsHaveAccount,
                ShownPricesAreCached, feed, NoRows
  <1>4. CASE Tick \/ AnswerSome \/ Discard \/ Deposit
             \/ (\E t \in Tickers : AddStock(t))
             \/ (\E p \in Positions : Trade(p))
             \/ (\E f \in Files : Restore(f))
    <2>1. UNCHANGED <<shown, cache, running>>
      BY <1>4 DEF Tick, AnswerSome, Answer, Discard, Deposit, AddStock, Trade,
                  Restore, feed
    <2> QED BY <2>1 DEF ViewInv, PricesHaveQuotes, RowsHaveAccount,
                        ShownPricesAreCached, shown
  <1>5. CASE UNCHANGED feedVars
    BY <1>5 DEF feedVars, feed, shown, ViewInv, PricesHaveQuotes, RowsHaveAccount,
                ShownPricesAreCached
  <1> QED BY <1>1, <1>2, <1>3, <1>4, <1>5 DEF FeedNext

(* A price in the view is the one in the cache, whatever was booked, fetched *)
(* and selected before.                                                      *)
THEOREM PricesAreCached == FeedSpec => []ShownPricesAreCached
  <1>1. ViewInv => ShownPricesAreCached  BY DEF ViewInv
  <1> QED BY ViewInit, ViewStep, <1>1, PTL DEF FeedSpec
=============================================================================
