SPECIFICATION FormsSpec
CONSTANTS
  None = None
  e1 = e1
  u1 = u1
  e2 = e2
  u2 = u2
  Kinds = {"cash", "stock", "option"}
  Texts <- Typed
  Base = 2
  Half = 512
  Loaded <- LoadedWithProfile
  CashAccounts = {e1, u1}
  SecurityAccounts = {e2, u2}
  CurrencyOf <- Currencies
  Symbols = {"AAPL", "MSFT"}
  Cookies <- HeaderLines
  Foreign = "XYZ"
INVARIANTS
  EnabledIsPriced
  DraftIsShown
PROPERTY
  AddedIsDisplayed
CHECK_DEADLOCK FALSE
