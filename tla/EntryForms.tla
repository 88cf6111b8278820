----------------------------- MODULE EntryForms -----------------------------
(* The dialogs a transaction, a stock and an account are entered with: the *)
(* form of a transaction with its rows of amounts, its account and ticker  *)
(* fields and the Add button, whose state is recomputed only on some of    *)
(* the signals of some of the fields; the lookup of a stock; the form of   *)
(* an account. The first two stay open while the program is used.          *)
EXTENDS QuoteSource, Integers, FiniteSets

CONSTANTS
  Kinds,         \* the forms that are opened: "cash", "stock", "option"
  Texts,         \* bound: what the user types into the rows of each kind
  Base,          \* the base of a decimal: 10
  Half,          \* a micro_units is in -Half .. Half - 1: 2^63
  CashAccounts, SecurityAccounts,
  CurrencyOf,    \* the currency an account is created with
  Loaded,        \* the accounts and stocks loaded with the profile
  Symbols,       \* texts of the ticker field that may name a stock
  Cookies,       \* header lines of the address that hands out cookies
  Foreign,       \* a currency the program does not know
  None

(* The decimals of a row, and of a currency: all have six.                 *)
Coarse == 2
MicroUnit == 6
Precision == 8

(* A text in a row: digits in the form a row asks for, what only the       *)
(* parser reads ("-5", ".5"), nothing, or noise. Behind the point are so   *)
(* many places, of which no row keeps more than eight.                     *)
Text ==
  { t \in [as : {"digits", "read", "empty", "noise"}, sign : {1, -1}, whole : Int,
           digits : Nat, places : 0 .. Precision] :
      t.as = "digits" => t.sign = 1 /\ t.whole \in Nat }

ASSUME FormsAssumption ==
  /\ Kinds \subseteq {"cash", "stock", "option"}
  /\ \A k \in Kinds : Texts[k] \subseteq Text
  /\ Half \in Nat \ {0} /\ \A d \in 0 .. Precision : Base ^ d \in Nat \ {0}
  /\ Loaded.accounts \subseteq CashAccounts \cup SecurityAccounts

VARIABLES
  store,    \* [accounts, stocks] the stores hold
  form,     \* the form of a transaction
  lookup,   \* the lookup of a ticker
  event,    \* what the last step handed to the controller
  ended     \* an exception left a slot: the program has ended

formsVars == <<store, form, lookup, event, ended>>

Nothing == [what |-> "nothing"]
Shown(message) == [what |-> "error", of |-> message]

-----------------------------------------------------------------------------
(* One row of an amount: a required line of digits.                        *)

(* Typed places beyond those of the row are cut off.                       *)
RemoveExceedingDecimals(text, decimals) ==
  IF text.places <= decimals THEN text
  ELSE [text EXCEPT !.places = decimals,
                    !.digits = @ \div Base ^ (text.places - decimals)]

ValidateNonEmpty(text, decimals) == text.as = "digits" /\ text.places <= decimals

Validate(text, decimals) == text.as # "empty" /\ ValidateNonEmpty(text, decimals)

(* Noise throws, and a whole part beyond an int64.                         *)
MicroUnitsThrows(text) ==
  text.as = "noise" \/ (text.as # "empty" /\ text.whole \notin -Half .. Half - 1)

(* The amount of a text in units of so many decimals. Only its whole part  *)
(* was looked at: what does not fit once it is scaled wraps around.        *)
Amount(text, decimals) ==
  text.sign * (text.whole * Base ^ decimals
                 + IF text.places <= decimals
                   THEN text.digits * Base ^ (decimals - text.places)
                   ELSE text.digits \div Base ^ (text.places - decimals))
Fits(text, decimals) == Amount(text, decimals) \in -Half .. Half - 1
GetAmount(text, decimals) ==
  IF text.as = "empty" THEN 0
  ELSE ((Amount(text, decimals) + Half) % (2 * Half)) - Half

Row(text, decimals) ==
  [text |-> text, decimals |-> decimals, valid |-> Validate(text, decimals)]

(* The user edits a row: the text is cut, and validated as it is then.     *)
Edited(row, text) ==
  Row(RemoveExceedingDecimals(text, row.decimals), row.decimals)

(* Mutant: a row keeps the decimals it was made with.                      *)
KeepNDecimalPlaces(row, decimals) == row

(* More decimals do not validate again.                                    *)
SetNDecimalPlaces(row, decimals) == [row EXCEPT !.decimals = decimals]

-----------------------------------------------------------------------------
(* The three forms differ in their rows.                                   *)

RowsOf(kind) ==
  CASE kind = "cash"   -> {"amount", "fees"}
    [] kind = "stock"  -> {"quantity", "price", "fees"}
    [] kind = "option" -> {"quantity", "strike", "amount", "contract", "fees"}

(* The rows that must not be zero, in the order they are looked at.        *)
Checked(kind) ==
  CASE kind = "cash"   -> <<"amount">>
    [] kind = "stock"  -> <<"quantity", "price">>
    [] kind = "option" -> <<"quantity", "strike", "amount", "contract">>

(* What a forgotten connection would make of it.                           *)
WatchedLess(kind) == IF kind = "cash" THEN {"amount"} ELSE {"contract"} \cap RowsOf(kind)

(* The rows whose edits reach the Add button.                              *)
Watched(kind) ==
  CASE kind = "cash"   -> {"amount"}
    [] kind = "stock"  -> {"price"}
    [] kind = "option" -> {"strike", "amount", "contract"}

(* The rows that take the decimals of the currency.                        *)
Priced(kind) == RowsOf(kind) \ {"quantity", "contract"}

(* The rows without which there is nothing to book.                        *)
PriceRows(kind) == RowsOf(kind) \ {"quantity", "fees"}

(* The decimals a draft reads a row with.                                  *)
DecimalsOf(name) ==
  CASE name = "quantity" -> Precision
    [] name = "contract" -> 0
    [] OTHER             -> MicroUnit

Number(n) == [as |-> "digits", sign |-> 1, whole |-> n, digits |-> 0, places |-> 0]

FreshRow(name) ==
  CASE name = "quantity" -> Row(Number(0), Precision)
    [] name = "contract" -> Row(Number(100), 0)
    [] OTHER             -> Row(Number(0), Coarse)

HasRef(f) == f.kind # "cash"

Accounts == CashAccounts \cup SecurityAccounts

GetCashAccounts == store.accounts \cap CashAccounts
GetSecurityAccounts == store.accounts \cap SecurityAccounts

FreshForm(kind) ==
  [kind |-> kind, shown |-> FALSE, add |-> FALSE,
   accounts |-> {}, account |-> None, label |-> None,
   allRefs |-> {}, refs |-> {}, ref |-> None, refEnabled |-> FALSE,
   rows |-> [r \in RowsOf(kind) |-> FreshRow(r)],
   ticker |-> "", tickers |-> {}]

-----------------------------------------------------------------------------
(* The ticker field.                                                       *)

KnownTicker(f) == f.ticker \in f.tickers

UpdateTickers(f, tickers) == [f EXCEPT !.tickers = tickers]

-----------------------------------------------------------------------------
(* The Add button.                                                         *)

IsZero(row) == GetAmount(row.text, row.decimals) = 0

ChosenAndValid(f) ==
  /\ f.account # None
  /\ HasRef(f) => f.ref # None /\ KnownTicker(f)
  /\ \A i \in DOMAIN Checked(f.kind) : f.rows[Checked(f.kind)[i]].valid

(* The form asks its rows one after the other whether they are zero, and   *)
(* the first that is ends it; a row that cannot be read throws.            *)
Asked(f) ==
  { i \in DOMAIN Checked(f.kind) :
      \A j \in 1..(i - 1) : /\ ~MicroUnitsThrows(f.rows[Checked(f.kind)[j]].text)
                            /\ ~IsZero(f.rows[Checked(f.kind)[j]]) }

ZeroThrows(f) ==
  /\ ChosenAndValid(f)
  /\ \E i \in Asked(f) : MicroUnitsThrows(f.rows[Checked(f.kind)[i]].text)

FormIsValid(f) ==
  /\ ChosenAndValid(f)
  /\ \A i \in DOMAIN Checked(f.kind) : ~IsZero(f.rows[Checked(f.kind)[i]])

(* The form as it is after its button was updated; nobody catches what the *)
(* update throws.                                                          *)
UpdateAddButton(f) ==
  /\ form' = IF ZeroThrows(f) THEN f ELSE [f EXCEPT !.add = FormIsValid(f)]
  /\ ended' = ZeroThrows(f)

(* The form as it is after a change its button does not hear of.           *)
Unnoticed(f) == form' = f /\ ended' = FALSE

-----------------------------------------------------------------------------
(* The account fields.                                                     *)

(* A field that is given its accounts anew forgets the one that was chosen.*)
UpdateAccounts(f, accounts) ==
  [f EXCEPT !.accounts = accounts, !.account = None]

UpdateRefs(f, refs) == [f EXCEPT !.refs = refs, !.ref = None]

(* An account was chosen: rows and labels take its currency, and only the  *)
(* reference accounts in that currency are offered.                        *)
InCurrencyOf(f, a) ==
  [f EXCEPT !.account = a, !.label = CurrencyOf[a],
            !.rows = [r \in RowsOf(f.kind) |->
                        IF r \in Priced(f.kind)
                        THEN SetNDecimalPlaces(f.rows[r], MicroUnit)
                        ELSE f.rows[r]]]

Offering(f, refs) ==
  IF HasRef(f) THEN [UpdateRefs(f, refs) EXCEPT !.refEnabled = TRUE] ELSE f

OnAccountSelected(f, a) ==
  Offering(InCurrencyOf(f, a), {c \in f.allRefs : CurrencyOf[c] = CurrencyOf[a]})

(* The reference accounts change: they are filtered again only while an    *)
(* account is chosen.                                                      *)
UpdateReferenceAccounts(f, refs) ==
  LET new == [f EXCEPT !.allRefs = refs]
  IN IF f.account = None THEN new ELSE OnAccountSelected(new, f.account)

-----------------------------------------------------------------------------
(* What the user does to the form of a transaction.                        *)

Rest == UNCHANGED <<store, lookup>>

(* The form is opened from the menu, also while it is open: its accounts   *)
(* and tickers are given to it anew, its rows and its button stay.         *)
OpenForm ==
  /\ ~ended
  /\ LET own == IF HasRef(form) THEN GetSecurityAccounts ELSE GetCashAccounts
         given == UpdateAccounts(form, own)
     IN Unnoticed(IF HasRef(form)
                  THEN [UpdateTickers(UpdateReferenceAccounts(given, GetCashAccounts),
                                      store.stocks) EXCEPT !.shown = TRUE]
                  ELSE [given EXCEPT !.shown = TRUE])
  /\ event' = Nothing
  /\ Rest

ChooseAccount(a) ==
  /\ ~ended /\ form.shown /\ a \in form.accounts
  /\ UpdateAddButton(OnAccountSelected(form, a))
  /\ event' = Nothing
  /\ Rest

ChooseReferenceAccount(a) ==
  /\ ~ended /\ form.shown /\ form.refEnabled /\ a \in form.refs
  /\ UpdateAddButton([form EXCEPT !.ref = a])
  /\ event' = Nothing
  /\ Rest

EditRow(r, text) ==
  /\ ~ended /\ form.shown
  /\ LET f == [form EXCEPT !.rows[r] = Edited(form.rows[r], text)]
     IN IF r \in Watched(form.kind) THEN UpdateAddButton(f) ELSE Unnoticed(f)
  /\ event' = Nothing
  /\ Rest

(* The ticker field speaks only when its text names a stock.               *)
EditTicker(text) ==
  /\ ~ended /\ form.shown /\ HasRef(form)
  /\ LET f == [form EXCEPT !.ticker = text]
     IN IF KnownTicker(f) THEN UpdateAddButton(f) ELSE Unnoticed(f)
  /\ event' = Nothing
  /\ Rest

CloseForm ==
  /\ ~ended /\ form.shown
  /\ Unnoticed([form EXCEPT !.shown = FALSE])
  /\ event' = Nothing
  /\ Rest

-----------------------------------------------------------------------------
(* The Add button is pressed.                                              *)

(* Why there is no draft: everything that is missing or cannot be read is  *)
(* an exception, which the slot of the button catches and shows.           *)
DraftThrows(f) ==
  \/ f.account = None
  \/ HasRef(f) /\ (f.ref = None \/ ~KnownTicker(f))
  \/ \E r \in RowsOf(f.kind) : MicroUnitsThrows(f.rows[r].text)

Draft(account, ref, currency, ticker, amounts) ==
  [what |-> "draft", account |-> account, ref |-> ref, currency |-> currency,
   ticker |-> ticker, amounts |-> amounts]

(* The money of a draft is in the currency of the account it is paid from. *)
GetDraft(f) ==
  Draft(f.account, f.ref, CurrencyOf[IF HasRef(f) THEN f.ref ELSE f.account],
        f.ticker, [r \in RowsOf(f.kind) |-> GetAmount(f.rows[r].text, DecimalsOf(r))])

(* A trade of a stock that positions are open for asks which one it joins; *)
(* a new one, one that was selected, or none: then nothing is booked.      *)
SelectedPosition(f) ==
  IF f.kind = "stock" THEN {"select", "create", "cancel"} ELSE {"create"}

(* The stock has to be known to the store; the catch of the button covers  *)
(* the whole booking.                                                      *)
PressAdd ==
  /\ ~ended /\ form.shown /\ form.add
  /\ \/ /\ DraftThrows(form) \/ (HasRef(form) /\ form.ticker \notin store.stocks)
        /\ Unnoticed(form)
        /\ event' = Shown("draft")
     \/ /\ ~DraftThrows(form) /\ (HasRef(form) => form.ticker \in store.stocks)
        /\ \E choice \in SelectedPosition(form) :
             IF choice = "cancel"
             THEN Unnoticed(form) /\ event' = Nothing
             ELSE /\ Unnoticed([form EXCEPT !.shown = FALSE])
                  /\ event' = GetDraft(form)
  /\ Rest

-----------------------------------------------------------------------------
(* The lookup of a stock.                                                  *)

ClearResult(l) == [l EXCEPT !.displayed = None, !.accept = FALSE]

(* From the menu of the securities, or with the plus beside the ticker     *)
(* field. What is typed into it may find any stock: the answer names it.   *)
CreateStock ==
  /\ ~ended
  /\ lookup' = [ClearResult(lookup) EXCEPT !.shown = TRUE]
  /\ event' = Nothing
  /\ UNCHANGED <<store, form, ended>>

(* A quote that is only taken while there is none.                         *)
FoundFirst(l, symbol) ==
  [l EXCEPT !.quote = IF @ = None THEN symbol ELSE @, !.displayed = symbol, !.accept = TRUE]

Found(l, symbol) == [l EXCEPT !.quote = symbol, !.displayed = symbol, !.accept = TRUE]

NotFound(l) == [ClearResult(l) EXCEPT !.quote = None]

(* What the three answers the program waits for may come to.               *)
Results ==
  Lookup(Cookies, {"", "crumb"},
         {NoJson} \cup [symbol : Symbols, currency : {"EUR", Foreign}], {"EUR"})

FindTicker ==
  /\ ~ended /\ lookup.shown
  /\ \E result \in Results :
       lookup' = IF result.ok THEN Found(lookup, result.value) ELSE NotFound(lookup)
  /\ event' = Nothing
  /\ UNCHANGED <<store, form, ended>>

(* The quote is kept; what the stores answer is cleared with the result.   *)
(* A stock that was added reaches the ticker fields of the forms.          *)
AcceptTicker ==
  /\ ~ended /\ lookup.shown /\ lookup.accept
  /\ lookup' = [ClearResult(lookup) EXCEPT !.shown = FALSE]
  /\ IF lookup.quote = None \/ lookup.quote \in store.stocks
     THEN UNCHANGED <<store, form>> /\ event' = Nothing
     ELSE /\ store' = [store EXCEPT !.stocks = @ \cup {lookup.quote}]
          /\ form' = UpdateTickers(form, store'.stocks)
          /\ event' = [what |-> "added", stock |-> lookup.quote]
  /\ ended' = FALSE

-----------------------------------------------------------------------------
(* The form of an account is modal: it is opened, filled in and sent while *)
(* nothing else happens. A name that is not valid cannot be sent, and one  *)
(* that is taken is only logged; the forms that are open do not hear of it.*)
CreateAccount(a) ==
  /\ ~ended
  /\ store' = [store EXCEPT !.accounts = @ \cup {a}]
  /\ event' = Nothing
  /\ UNCHANGED <<form, lookup, ended>>

-----------------------------------------------------------------------------
(* The stores hold what was loaded with the profile; the forms are built   *)
(* from them at the start and stay hidden until they are opened.           *)
FormsInit ==
  /\ store = Loaded
  /\ \E kind \in Kinds :
       LET refs == IF kind = "cash" THEN {} ELSE GetCashAccounts
       IN form = [FreshForm(kind) EXCEPT !.allRefs = refs, !.refs = refs,
                                         !.tickers = store.stocks]
  /\ lookup = [shown |-> FALSE, quote |-> None, displayed |-> None, accept |-> FALSE]
  /\ event = Nothing
  /\ ended = FALSE

FormsNext ==
  \/ OpenForm \/ CloseForm \/ PressAdd
  \/ \E a \in Accounts :
       ChooseAccount(a) \/ ChooseReferenceAccount(a) \/ CreateAccount(a)
  \/ \E r \in RowsOf(form.kind), text \in Texts[form.kind] : EditRow(r, text)
  \/ \E text \in Symbols \cup {""} : EditTicker(text)
  \/ CreateStock \/ FindTicker \/ AcceptTicker

FormsSpec == FormsInit /\ [][FormsNext]_formsVars

-----------------------------------------------------------------------------
(* A lookup finds a stock only when all three answers were what was hoped  *)
(* for; what went wrong with the session is never said, the request that   *)
(* is empty without one fails instead (yf_client.cpp:140).                 *)
ASSUME SessionAssumption ==
  \A c \in Answers(Cookies, {""}), k \in Answers({<< >>}, {"", "crumb"}),
     q \in Answers({<< >>}, {NoJson} \cup [symbol : Symbols, currency : {"EUR", Foreign}]) :
    LET result == FetchTickerInfo(c, k, q, {"EUR"})
    IN /\ result.ok => /\ Authenticate(c, k).ok /\ q.transfer = "ok"
                       /\ q.body.currency = "EUR"
       /\ ~Authenticate(c, k).ok => result = Err("CurlPerform")

(* The Add button is recomputed on the signals of some of the fields, and  *)
(* the rows keep a validity from before the currency was chosen. Whatever  *)
(* was edited, opened again and chosen anew since: while the button can be *)
(* pressed, every row with a price can be read and is not zero, and an     *)
(* account that is chosen has its reference account                        *)
(* (stock_widget.cpp:455, option_widget.cpp:509).                          *)
EnabledIsPriced ==
  form.add /\ ~ended =>
    /\ \A r \in PriceRows(form.kind) :
         /\ Validate(form.rows[r].text, form.rows[r].decimals)
         /\ ~MicroUnitsThrows(form.rows[r].text) /\ ~IsZero(form.rows[r])
    /\ HasRef(form) /\ form.account # None => form.ref # None

(* What reaches the controller is what the form showed when the button was *)
(* pressed: accounts that were offered when it was opened, both in the     *)
(* currency on its labels, and every number in the units its row asked for *)
(* it with and no digit dropped; a price is not zero, and is the positive  *)
(* number that was typed unless that does not fit an int64                 *)
(* (stock_widget.cpp:185, option_widget.cpp:233, quantity.cpp:304).        *)
DraftIsShown ==
  event.what = "draft" =>
    /\ event.account \in form.accounts /\ event.currency = form.label
    /\ CurrencyOf[event.account] = form.label
    /\ HasRef(form) => event.ref \in form.allRefs
    /\ \A r \in RowsOf(form.kind) :
         /\ event.amounts[r] = GetAmount(form.rows[r].text, form.rows[r].decimals)
         /\ form.rows[r].text.places <= form.rows[r].decimals
    /\ \A r \in PriceRows(form.kind) :
         /\ event.amounts[r] # 0
         /\ Fits(form.rows[r].text, form.rows[r].decimals) => event.amounts[r] > 0

(* The lookup stays open while other tickers are typed and looked for, and *)
(* keeps its quote after it was closed: a stock that is added is the one   *)
(* on display (securities_controller.cpp:120).                             *)
AddedIsDisplayed ==
  [][event'.what = "added" => lookup.displayed = event'.stock]_formsVars
=============================================================================
