CONSTANTS
  t1 = t1
  t2 = t2
  s1 = s1
  s2 = s2
  Tickers = {t1, t2}
  Prices = {p1, p2}
  CashAccounts = {c1}
  SecurityAccounts = {s1, s2}
  Positions <- MCPositions
  Files <- MCFiles
  Foreign <- MCForeign
  NoPrice = NoPrice
  NoAccount = NoAccount
SPECIFICATION FairSpec
INVARIANTS
  ShownPricesAreCached
PROPERTIES
  PostsWholeBatches
  ShownIsPriced
CHECK_DEADLOCK FALSE
