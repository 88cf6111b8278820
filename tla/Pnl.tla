-------------------------------- MODULE Pnl --------------------------------
(***************************************************************************)
(* The profit and loss of one position: the fold over its trades           *)
(* (foldEvents of finance/transaction/pnl.cpp), one step per event.        *)
(***************************************************************************)
EXTENDS PositionMath

CONSTANTS
    StockTrades,    \* the stock trades a position is made of
    OptionTrades,   \* the option trades a position is made of
    Marks,          \* mark prices
    MaxTrades       \* bound: trades of a position

ASSUME TradesAssumption ==
    /\ StockTrades \subseteq StockTrade
    /\ OptionTrades \subseteq OptionTrade

ASSUME BoundsAssumption == Marks \subseteq Int /\ MaxTrades \in Nat

VARIABLES
    kind,       \* stock or option: the forms never mix them in a position
    position,   \* the PositionState that is folded
    failed,     \* the fold returned an error
    net,        \* ghost: the quantities traded, summed
    spent,      \* ghost: what the stock trades cost, summed
    taken,      \* ghost: the premiums received less those paid
    cuts,       \* ghost: the trades that closed something
    peak,       \* ghost: the most that was ever open, of stock or of a leg
    beyond,     \* ghost: a trade closed more than was open
    trades      \* the number of trades folded

vars == <<kind, position, failed, net, spent, taken, cuts, peak, beyond, trades>>

-----------------------------------------------------------------------------
(* The fold, one event at a time. *)

Init ==
    /\ kind \in {"stock", "option"}
    /\ position = Fresh
    /\ failed = FALSE
    /\ net = 0 /\ spent = 0 /\ taken = 0 /\ cuts = 0 /\ peak = 0
    /\ beyond = FALSE
    /\ trades = 0

(* The next event is there and the fold has not returned. *)
Event(k) == kind = k /\ ~failed /\ trades < MaxTrades

Extend ==
    /\ Event("stock")
    /\ \E t \in StockTrades :
        /\ Extends(position, t)
        /\ position' = WithStock(position, t)
        /\ net' = net + t.qty
        /\ spent' = spent + Times(t.price, t.qty)
        /\ peak' = Greater(peak, Abs(position'.openQuantity))
        /\ beyond' = (beyond \/ t.qty < 0)
    /\ trades' = trades + 1
    /\ UNCHANGED <<kind, failed, taken, cuts>>

Reduce ==
    /\ Event("stock")
    /\ \E t \in StockTrades :
        /\ ~Extends(position, t)
        /\ position' = WithStock(position, t)
        /\ net' = net + t.qty
        /\ spent' = spent + Times(t.price, t.qty)
        /\ peak' = Greater(peak, Abs(position'.openQuantity))
        /\ beyond' = (beyond \/ Abs(t.qty) > Abs(position.openQuantity))
    /\ cuts' = cuts + 1
    /\ trades' = trades + 1
    /\ UNCHANGED <<kind, failed, taken>>

Refuse ==
    /\ Event("option")
    /\ \E t \in OptionTrades : ~Fits(position, t)
    /\ failed' = TRUE
    /\ UNCHANGED <<kind, position, net, spent, taken, cuts, peak, beyond, trades>>

Open ==
    /\ Event("option")
    /\ \E t \in OptionTrades :
        /\ Fits(position, t) /\ t.action \in {"Open", "RollOpen"}
        /\ position' = WithOption(position, t)
        /\ peak' = Greater(peak, position'.legs[LegOf(t, t.side)])
        /\ taken' = taken + Received(t)
    /\ trades' = trades + 1
    /\ UNCHANGED <<kind, failed, net, spent, cuts, beyond>>

TooMany(t) == t.qty > position.legs[LegOf(t, Opposite(t.side))]

Close ==
    /\ Event("option")
    /\ \E t \in OptionTrades :
        /\ Fits(position, t) /\ t.action \in {"Close", "RollClose"}
        /\ position' = WithOption(position, t)
        /\ taken' = taken + Received(t)
        /\ beyond' = (beyond \/ TooMany(t))
    /\ cuts' = cuts + 1
    /\ trades' = trades + 1
    /\ UNCHANGED <<kind, failed, net, spent, peak>>

Exercise ==
    /\ Event("option")
    /\ \E t \in OptionTrades :
        /\ Fits(position, t) /\ t.action = "Exercised"
        /\ position' = WithOption(position, t)
        /\ beyond' = (beyond \/ TooMany(t))
    /\ cuts' = cuts + 1
    /\ trades' = trades + 1
    /\ UNCHANGED <<kind, failed, net, spent, taken, peak>>

Next == Extend \/ Reduce \/ Refuse \/ Open \/ Close \/ Exercise

Spec == Init /\ [][Next]_vars

-----------------------------------------------------------------------------
(* Properties. *)

TypeOK ==
    /\ kind \in {"stock", "option"}
    /\ position \in PositionState
    /\ failed \in BOOLEAN
    /\ {net, spent, taken} \subseteq Int
    /\ {cuts, peak, trades} \subseteq Nat
    /\ beyond \in BOOLEAN

(* Whatever is bought, sold, closed and turned around, in any order, the open
   quantity of a position is the sum of its trades (pnl.cpp:55). *)
QuantityIsNet == kind = "stock" => position.openQuantity = net

(* What cutting towards zero may cost when everything is closed: a unit for
   each whole share or contract, since it is valued at a whole average. *)
Residue == 1 + peak \div Factor

(* A unit more for each part that was closed, and one for the products with
   the mark and with the average. *)
Tolerance == cuts + 1 + Residue

(* The total profit shown for stock that is bought and sold out of what is
   held is, at every mark price, its worth at that price less what was spent
   on it: closing a part neither invents nor loses money (pnl.cpp:77). *)
MarkedToMarket ==
    kind = "stock" /\ ~beyond =>
        \A mark \in Marks :
            Abs(TotalPnL(position, mark) - (Times(mark, net) - spent))
                <= Tolerance

(* Open and close, roll and exercise the legs in any order: the premiums that
   are realized and those that are not are the premiums that were received
   and paid, to the unit (pnl.cpp:181). *)
PremiumsBalance ==
    kind = "option" =>
        position.realizedPnL + position.unrealizedOptionPnL = taken

(* An option position whose legs are closed, in any order and in any parts,
   shows no unrealized profit and no cost any more, but for what the last
   division by the contracts of a leg cut off (pnl.cpp:170). *)
ClosedIsRealized ==
    /\ kind = "option" /\ ~beyond
    /\ \A k \in LegKey : position.legs[k] = 0
    => /\ Abs(position.unrealizedOptionPnL) <= Residue
       /\ Abs(position.costBasis) <= Residue
=============================================================================
