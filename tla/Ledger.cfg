CONSTANTS
    c1 = c1
    c2 = c2
    s1 = s1
    s2 = s2
    k1 = k1
    k2 = k2
    euro = euro
    dollar = dollar
    None = None
    External = External
    Factor = 3
    Strikes = {2}
    CashAccounts = {c1, c2}
    SecurityAccounts = {s1, s2}
    CurrencyOf <- MCCurrencyOf
    Tickers = {k1, k2}
    Moments = {1, 2}
    Amounts = {4}
    Fees = {1}
    Quantities = {2}
    Contracts <- MCContracts
    MaxBookings = 3
SPECIFICATION Spec
INVARIANTS
    ReadsBack
    PositionsAreShown
    PositionsAddUp
