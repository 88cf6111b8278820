------------------------------- MODULE Drafts -------------------------------
(***************************************************************************)
(* The objects on their way between the forms, the domain and the tables:  *)
(* accounts, profiles, instruments, positions and the three kinds of       *)
(* transactions, the drafts the user interface has of them, and how one    *)
(* becomes the other.  There is no behaviour in this module; Ledger has    *)
(* it.  Getters and setters are the fields of the records and EXCEPT.      *)
(***************************************************************************)
EXTENDS Integers, Sequences
LOCAL INSTANCE SequencesExt
LOCAL INSTANCE FiniteSets

CONSTANT None

Invalid == -1               \* the id of what has not been given one

-----------------------------------------------------------------------------
(* Money. What has no currency yet fits every other. *)

Cash(c, amount) == [currency |-> c, amount |-> amount]

NoCash == Cash("Unknown", 0)

Minus(cash) == [cash EXCEPT !.amount = -@]

(* The sum of two currencies throws. *)
SumOf(a, b) ==
    Cash(IF a.currency = "Unknown" THEN b.currency ELSE a.currency,
         a.amount + b.amount)

-----------------------------------------------------------------------------
(* Accounts and profiles. *)

AccountKinds == {"Cash", "Security", "External"}
AccountStatuses == {"Active", "Closed"}

Account(id, status, name, currency, kind) ==
    [id |-> id, status |-> status, name |-> name, currency |-> currency,
     kind |-> kind]

IsExternal(account) == account.kind = "External"
IsActive(account) == account.status # "Closed"

FilterExternal(accounts, external) == {a \in accounts : IsExternal(a) = external}

(* What is known of an account: nothing, or whether it is external. *)
External_(accounts, id) ==
    {IsExternal(a) : a \in {b \in accounts : b.id = id}}

(* An account to be created has no status. *)
AccountDraft(id, status, name, currency, kind) ==
    [id |-> id, status |-> status, name |-> name, currency |-> currency,
     kind |-> kind]

ToAccountDraft(a) == AccountDraft(a.id, a.status, a.name, a.currency, a.kind)

ToAccount(d) ==
    Account(d.id, IF d.status = None THEN "Active" ELSE d.status,
            d.name, d.currency, d.kind)

Profile(id, name, email) == [id |-> id, name |-> name, email |-> email]

ProfileDraft(id, name, email) == [id |-> id, name |-> name, email |-> email]

ToProfileDraft(p) == ProfileDraft(p.id, p.name, p.email)
ToProfile(d) == Profile(d.id, d.name, d.email)

-----------------------------------------------------------------------------
(* Instruments. What a stock says of itself is one field here. *)

Equity(ticker, about) ==
    [id |-> Invalid, instrument |-> Invalid, ticker |-> ticker, about |-> about]

StockInfo(ticker, about) == [ticker |-> ticker, about |-> about]

ToStockInfo(stock) == StockInfo(stock.ticker, stock.about)

Tickers_(stocks) == {s.ticker : s \in stocks}

Option(id, instrument, underlying, type, strike, expiration, size) ==
    [id |-> id, instrument |-> instrument, underlying |-> underlying,
     type |-> type, strike |-> strike, expiration |-> expiration, size |-> size]

HasUnderlying(option, instrument) == option.underlying.instrument = instrument

UpdateUnderlying(option, instrument) ==
    [option EXCEPT !.underlying.instrument = instrument]

-----------------------------------------------------------------------------
(* Positions. One that is closed says when. *)

Position(created, closed) == [id |-> Invalid, created |-> created, closed |-> closed]

IsOpen(position) == position.closed = None

PositionDraft(id, info, created, closed) ==
    [position |-> id, info |-> info, created |-> created, closed |-> closed]

(* There is no price yet. *)
Unpriced == [price |-> NoCash, value |-> NoCash, unrealized |-> NoCash, percent |-> 0]

StockDetail(draft, quantity, average, total, realized, percent) ==
    [draft |-> draft, quantity |-> quantity, average |-> average,
     total |-> total, realized |-> realized, realizedPercent |-> percent,
     now |-> Unpriced]

OptionDetail(draft, quantity, realized, percent) ==
    [draft |-> draft, quantity |-> quantity, realized |-> realized,
     realizedPercent |-> percent, now |-> Unpriced]

UpdateUnrealized(detail, price, value, unrealized, percent) ==
    [detail EXCEPT !.now = [price |-> price, value |-> value,
                            unrealized |-> unrealized, percent |-> percent]]

-----------------------------------------------------------------------------
(* Transactions. *)

BaseTransaction(id, at, comment) ==
    [id |-> id, at |-> at, status |-> "Completed", comment |-> comment]

CashTransaction(base, cash, external, amount, fees) ==
    [base |-> base, type |-> "Cash", cash |-> cash, external |-> external,
     amount |-> amount, fees |-> fees]

(* What the trades of stocks and of options have in common. *)
SecurityTransaction(base, type, instrument, security, cash, external, quantity, fees, position) ==
    [base |-> base, type |-> type, instrument |-> instrument,
     security |-> security, cash |-> cash, external |-> external,
     quantity |-> quantity, fees |-> fees, position |-> position]

StockTransaction(trade, price) == [trade |-> trade, price |-> price]

OptionTransaction(trade, premium, action, side, rolled) ==
    [trade |-> trade, premium |-> premium, action |-> action, side |-> side,
     rolled |-> rolled]

InvolvedInCash(tx) == {tx.cash, tx.external}
InvolvedInTrade(trade) == {trade.cash, trade.external, trade.security}

TradeLeg(account, instrument, quantity, amount, position) ==
    [account |-> account, instrument |-> instrument, quantity |-> quantity,
     amount |-> amount, position |-> position]

OptionData(id, side, action, rolled) ==
    [id |-> id, side |-> side, action |-> action, rolled |-> rolled, legs |-> <<>>]

AddLeg(data, leg) == [data EXCEPT !.legs = Append(@, leg)]

PositionOf(data) == IF data.legs = <<>> THEN Invalid ELSE Head(data.legs).position

ToLeg(trade, amount) ==
    TradeLeg(trade.security, trade.instrument, trade.quantity, amount,
             trade.position)

ToOptionData(tx) ==
    AddLeg(OptionData(Invalid, tx.side, tx.action, tx.rolled),
           ToLeg(tx.trade, tx.premium))

-----------------------------------------------------------------------------
(* What the forms say. The ids of the instrument and of the position are     *)
(* filled in by the controller, when they are known.                         *)

CreateTransaction(at, comment) == [at |-> at, comment |-> comment]

CreateCash(base, amount, fees, account) ==
    [base |-> base, amount |-> amount, fees |-> fees, account |-> account]

CreateStock(base, ticker, quantity, price, fees, security, cash) ==
    [base |-> base, ticker |-> ticker, quantity |-> quantity, price |-> price,
     fees |-> fees, security |-> security, cash |-> cash,
     instrument |-> Invalid, position |-> Invalid]

CreateOption(base, contract, side, quantity, amount, fees, security, cash) ==
    [base |-> base, contract |-> contract, side |-> side,
     quantity |-> quantity, amount |-> amount, fees |-> fees,
     security |-> security, cash |-> cash, underlying |-> Invalid,
     instrument |-> Invalid, position |-> Invalid]

WithInstrument(draft, id) == [draft EXCEPT !.instrument = id]
WithUnderlying(draft, id) == [draft EXCEPT !.underlying = id]
WithPosition(draft, id) == [draft EXCEPT !.position = id]

(* The external account is found when the entries are made. *)
FromCreateCash(d) ==
    CashTransaction(BaseTransaction(Invalid, d.base.at, d.base.comment),
                    d.account, Invalid, d.amount, d.fees)

FromCreateStock(d) ==
    StockTransaction(
        SecurityTransaction(BaseTransaction(Invalid, d.base.at, d.base.comment),
            "Stock", d.instrument, d.security, d.cash, Invalid, d.quantity,
            d.fees, d.position),
        d.price)

FromCreateOption(d) ==
    OptionTransaction(
        SecurityTransaction(BaseTransaction(Invalid, d.base.at, d.base.comment),
            "Option", d.instrument, d.security, d.cash, Invalid, d.quantity,
            d.fees, d.position),
        d.amount, "Open", d.side, None)

ToNewOption(d, underlying) ==
    Option(Invalid, Invalid, underlying, d.contract.type, d.contract.strike,
           d.contract.expiration, d.contract.size)

-----------------------------------------------------------------------------
(* What the tables are given. *)

Overview_(at, comment) == [at |-> at, comment |-> comment]

CashOverview(base, amount, fees, cash, external) ==
    [base |-> base, amount |-> amount, fees |-> fees, cash |-> cash,
     external |-> external]

StockOverview(base, quantity, price, fees, ticker, security, cash) ==
    [base |-> base, quantity |-> quantity, price |-> price, fees |-> fees,
     ticker |-> ticker, security |-> security, cash |-> cash]

OptionOverview(base, quantity, premium, fees, name, side, action, security, cash) ==
    [base |-> base, quantity |-> quantity, premium |-> premium, fees |-> fees,
     name |-> name, side |-> side, action |-> action, security |-> security,
     cash |-> cash]

ToCashOverview(tx) ==
    CashOverview(Overview_(tx.base.at, tx.base.comment), tx.amount, tx.fees,
                 tx.cash, tx.external)

NameIn(names, id) == IF id \in DOMAIN names THEN names[id] ELSE "UNKNOWN"

ToStockOverview(tx, names) ==
    StockOverview(Overview_(tx.trade.base.at, tx.trade.base.comment),
        tx.trade.quantity, tx.price, tx.trade.fees,
        NameIn(names, tx.trade.instrument), tx.trade.security, tx.trade.cash)

(* The first option of the instrument, in any order: there is one. *)
OptionOf(options, instrument) == {o \in options : o.instrument = instrument}

ToOptionOverview(tx, options, nameOf) ==
    OptionOverview(Overview_(tx.trade.base.at, tx.trade.base.comment),
        tx.trade.quantity, tx.premium, tx.trade.fees,
        IF OptionOf(options, tx.trade.instrument) = {} THEN "UNKNOWN"
        ELSE nameOf[CHOOSE o \in OptionOf(options, tx.trade.instrument) : TRUE],
        tx.side, tx.action, tx.trade.security, tx.trade.cash)

(* Every transaction of a table becomes a row, in the same place. *)
ToCashRows(txs) == [i \in DOMAIN txs |-> ToCashOverview(txs[i])]

ToStockRows(txs, names) == [i \in DOMAIN txs |-> ToStockOverview(txs[i], names)]

ToOptionRows(txs, options, nameOf) ==
    [i \in DOMAIN txs |-> ToOptionOverview(txs[i], options, nameOf)]

-----------------------------------------------------------------------------
(* Checks over a few values of each kind. *)

SampleAccounts ==
    {Account(id, status, "savings", "EUR", kind) :
        id \in {Invalid, 3}, status \in AccountStatuses, kind \in AccountKinds}

SampleBases == {CreateTransaction(at, comment) : at \in {5, 29}, comment \in {None, "rent"}}

SampleMoney == {Cash("EUR", n) : n \in {-2, 0, 7}}

SampleStockDrafts ==
    {WithPosition(WithInstrument(CreateStock(b, "ACME", q, p, f, 4, 1), 8), 6) :
        b \in SampleBases, q \in {-3, 2}, p \in SampleMoney, f \in SampleMoney}

SampleContract == [type |-> "Call", strike |-> 9, expiration |-> 29, size |-> 100]

SampleOptionDrafts ==
    {WithPosition(WithInstrument(
        CreateOption(b, SampleContract, side, 2, a, f, 4, 1), 9), 7) :
        b \in SampleBases, side \in {"Buy", "Sell"}, a \in SampleMoney,
        f \in SampleMoney}

(* An account that becomes a draft and is made an account again is the same;
   one that is created is active (account_mapper.cpp:68). *)
ASSUME AccountsComeBack ==
    /\ \A a \in SampleAccounts : ToAccount(ToAccountDraft(a)) = a
    /\ \A a \in SampleAccounts :
        IsActive(ToAccount([ToAccountDraft(a) EXCEPT !.status = None]))
    /\ \A email \in {None, "a@b"} :
        LET p == Profile(3, "mine", email) IN ToProfile(ToProfileDraft(p)) = p

(* Every account is external or not, and what is not there is neither. *)
ASSUME ExternalOrNot ==
    /\ FilterExternal(SampleAccounts, TRUE) \cap FilterExternal(SampleAccounts, FALSE) = {}
    /\ FilterExternal(SampleAccounts, TRUE) \cup FilterExternal(SampleAccounts, FALSE)
        = SampleAccounts
    /\ External_(SampleAccounts, 12) = {}

(* A row of an overview says what the form said (the transactions between
   the two are those of Ledger), under the name of its instrument
   (transaction_overview_mapper.cpp:28). *)
ASSUME RowsSayWhatFormsSaid ==
    /\ \A b \in SampleBases, a, f \in SampleMoney :
        ToCashOverview(FromCreateCash(CreateCash(b, a, f, 1)))
            = CashOverview(b, a, f, 1, Invalid)
    /\ \A d \in SampleStockDrafts :
        ToStockOverview(FromCreateStock(d), [i \in {8} |-> d.ticker])
            = StockOverview(d.base, d.quantity, d.price, d.fees, d.ticker, 4, 1)
    /\ \A d \in SampleOptionDrafts :
        LET acme == [Equity("ACME", "a company") EXCEPT !.instrument = 8]
            option == [ToNewOption(d, acme) EXCEPT !.instrument = 9]
        IN  ToOptionOverview(FromCreateOption(d), {option},
                             [o \in {option} |-> o.underlying.ticker])
                = OptionOverview(d.base, d.quantity, d.amount, d.fees, "ACME",
                                 d.side, "Open", 4, 1)

(* The leg of a trade carries its position and what was traded, and the
   position of the data is that of its leg (option_data.cpp:64). *)
ASSUME LegsKeepThePosition ==
    /\ \A d \in SampleStockDrafts :
        LET tx == FromCreateStock(d)
            leg == ToLeg(tx.trade, tx.price)
        IN  /\ leg = TradeLeg(4, 8, d.quantity, d.price, 6)
            /\ InvolvedInTrade(tx.trade) = {1, 4, Invalid}
    /\ \A d \in SampleOptionDrafts :
        LET data == ToOptionData(FromCreateOption(d))
        IN  PositionOf(data) = d.position /\ Len(data.legs) = 1
    /\ PositionOf(OptionData(Invalid, "Buy", "Open", None)) = Invalid

(* A price changes nothing of a position but what depends on it
   (position_stock_draft.cpp:52). *)
ASSUME PricesChangeOnlyTheMark ==
    \A price, value, gain \in SampleMoney :
        LET info == PositionDraft(6, StockInfo("ACME", "a company"), 5, None)
            detail == StockDetail(info, 2, Cash("EUR", 7), Cash("EUR", 14), NoCash, 0)
        IN  [UpdateUnrealized(detail, price, value, gain, 1) EXCEPT !.now = Unpriced]
                = detail
=============================================================================
