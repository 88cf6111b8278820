CONSTANTS
  None = None
  CashAccounts <- MCCash
  Securities <- MCSecurities
  Externals <- MCExternals
  PositionIds <- MCPositions
  MaxOf <- MCMaxOf
SPECIFICATION Spec
INVARIANTS
  ReturnedIsDurable
  SavedReadsAsHeld
  PositionsOfTrades
PROPERTY RowsComeWhole
