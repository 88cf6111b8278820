----------------------------- MODULE MCPriceFeed -----------------------------
(* Two security accounts and one cash account; a foreign ticker, held as an  *)
(* option or not at all.                                                     *)
EXTENDS PriceFeed

CONSTANTS t1, t2, s1, s2

Pos(a, t, k) == [account |-> a, ticker |-> t, kind |-> k]
MCPositions == {Pos(s1, t1, "stock"), Pos(s2, t1, "stock"), Pos(s1, t2, "option")}
MCForeign == {[account |-> s1, ticker |-> t2]}
MCFiles == {[stocks |-> {}, positions |-> {}],
            [stocks |-> {t1}, positions |-> {}],
            [stocks |-> {t1, t2}, positions |-> {Pos(s1, t1, "stock")}]}
=============================================================================
