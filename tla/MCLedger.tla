------------------------------ MODULE MCLedger ------------------------------
EXTENDS Ledger, TransactionTables

CONSTANTS c1, c2, s1, s2, k1, k2, euro, dollar

MCCurrencyOf == [a \in {c1, s1} |-> euro] @@ [a \in {c2, s2} |-> dollar]

MCContracts == {[ticker |-> k1, type |-> "Call", strike |-> 2, size |-> 1]}
=============================================================================
