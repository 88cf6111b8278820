CONSTANTS
    Factor = 3
    Strikes = {2, 3}
    StockTrades <- MCStockTrades
    OptionTrades <- MCOptionTrades
    Marks <- MCMarks
    MaxTrades = 6
SPECIFICATION Spec
INVARIANTS
    QuantityIsNet
    MarkedToMarket
    PremiumsBalance
    ClosedIsRealized
CHECK_DEADLOCK FALSE
