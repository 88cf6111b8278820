--------------------------- MODULE MCRepositories ---------------------------
(* A cash, an external and two security accounts, two positions, a stock    *)
(* and an option, and room for two transactions of any kind with all their  *)
(* rows; none for a watchlist, which is inserted the way an account is.     *)
EXTENDS Repositories

MCCash == {2}
MCSecurities == {3, 4}
MCExternals == {1}
MCPositions == {1, 2}

MCMaxOf ==
  [t \in Tables |-> CASE t = "account" -> 4
                      [] t \in {"position", "instrument", "transaction_"} -> 2
                      [] t \in Children -> 8
                      [] t = "watchlist" -> 0
                      [] OTHER -> 1]
=============================================================================
