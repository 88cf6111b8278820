SPECIFICATION Spec
CONSTANTS
  Names = {"giro"}
  Currencies = {"EUR"}
  Tickers = {"AAPL"}
  MaxTemp <- Restarts
  MaxRows = 1
  MaxStarts = 2
INVARIANTS
  CacheMirrorsDb
  DbUnique
  CashHasExternal
CHECK_DEADLOCK FALSE
