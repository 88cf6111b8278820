SPECIFICATION FairSpec
CONSTANTS
  Names = {"giro"}
  Currencies = {"EUR"}
  Tickers = {"AAPL", "MSFT"}
  MaxTemp <- OneSession
  MaxRows = 2
  MaxStarts = 1
INVARIANTS
  Consistent
  NoOrphans
PROPERTIES
  SaveConserves
  StaysBookable
  SaveSucceeds
CHECK_DEADLOCK FALSE
