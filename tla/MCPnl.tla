------------------------------- MODULE MCPnl -------------------------------
EXTENDS Pnl

MCStockTrades == {[qty |-> q, price |-> p, fees |-> 1] :
                     q \in {-5, -2, 0, 1, 4}, p \in {1, 4, 9}}

MCOptionTrades ==
    {[type |-> "Call", side |-> s, action |-> a, strike |-> k, qty |-> q,
      size |-> z, premium |-> p, fees |-> 1] :
        s \in Sides, a \in {"Open", "Close", "Exercised"}, k \in {2, 3},
        q \in {2, 3}, z \in {2}, p \in {5}}
    \cup {[type |-> "Put", side |-> "Sell", action |-> a, strike |-> 3,
           qty |-> 1, size |-> z, premium |-> 4, fees |-> 0] :
             a \in {"RollOpen", "RollClose"}, z \in {2, 3}}

MCMarks == {0, 1, 3}
=============================================================================
