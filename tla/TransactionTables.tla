-------------------------- MODULE TransactionTables --------------------------
(***************************************************************************)
(* The tables of transactions and of positions: how the transactions are   *)
(* kept, filtered and grouped for them, which columns they have, what the  *)
(* cells say and where, and what sorting, searching and selecting in them  *)
(* means.  There is no behaviour in this module.                           *)
(***************************************************************************)
EXTENDS Drafts
LOCAL INSTANCE SequencesExt
LOCAL INSTANCE FiniteSets
LOCAL INSTANCE Functions

-----------------------------------------------------------------------------
(* The transactions by kind, in the order they were added. *)

NoTransactions == [cash |-> <<>>, stocks |-> <<>>, options |-> <<>>]

AddCash(txs, tx) == [txs EXCEPT !.cash = Append(@, tx)]
AddStock_(txs, tx) == [txs EXCEPT !.stocks = Append(@, tx)]
AddOption_(txs, tx) == [txs EXCEPT !.options = Append(@, tx)]

Of(cash, stocks, options) == [cash |-> cash, stocks |-> stocks, options |-> options]

IsEmpty_(txs) == txs.cash \o txs.stocks \o txs.options = <<>>
HasOptions(txs) == txs.options # <<>>

InstrumentsOf(trades) == {tx.trade.instrument : tx \in ToSet(trades)}
SecurityInstruments(txs) == InstrumentsOf(txs.stocks) \cup InstrumentsOf(txs.options)

Places(seq, tx) == Cardinality({i \in DOMAIN seq : seq[i] = tx})

(* One of the sorted sequences of trades: the sort is not stable. *)
InTimeOrder(seq, sorted) ==
    /\ Len(sorted) = Len(seq)
    /\ \A tx \in ToSet(seq) : Places(sorted, tx) = Places(seq, tx)
    /\ \A i, j \in DOMAIN sorted :
        i < j => sorted[i].trade.base.at <= sorted[j].trade.base.at

Meets(accounts, involved) == accounts \cap involved # {}

FilterBy(txs, accounts) ==
    Of(SelectSeq(txs.cash, LAMBDA tx : Meets(accounts, InvolvedInCash(tx))),
       SelectSeq(txs.stocks, LAMBDA tx : Meets(accounts, InvolvedInTrade(tx.trade))),
       SelectSeq(txs.options, LAMBDA tx : Meets(accounts, InvolvedInTrade(tx.trade))))

(* Trades of no position are in no group, and cash never is. *)
GroupByPosition(txs) ==
    LET trades == ToSet(txs.stocks) \cup ToSet(txs.options)
        Trades(seq, p) == SelectSeq(seq, LAMBDA tx : tx.trade.position = p)
    IN  [p \in {tx.trade.position : tx \in trades} \ {Invalid} |->
            Of(<<>>, Trades(txs.stocks, p), Trades(txs.options, p))]

-----------------------------------------------------------------------------
(* Numbers are kept in units of 10^-6.  As text they have as many decimals
   as the fraction has digits, and zeros before it up to the precision. *)

Scale == 6

Magnitude(n) == IF n < 0 THEN -n ELSE n

DigitsOf(n) == CHOOSE k \in 1..Scale : n < 10^k /\ (k = 1 \/ n >= 10^(k - 1))

NumberText(v, precision) ==
    LET fraction == Magnitude(v) % 10^Scale
        digits == DigitsOf(fraction)
    IN  [minus |-> v < 0, whole |-> Magnitude(v) \div 10^Scale,
         fraction |-> fraction,
         decimals |-> IF digits > precision THEN digits ELSE precision]

(* Decimals beyond the precision are dropped, missing ones are zeros. *)
ReadNumber(text, precision) ==
    LET fraction == IF text.decimals <= precision
                    THEN text.fraction * 10^(precision - text.decimals)
                    ELSE text.fraction \div 10^(text.decimals - precision)
        size == text.whole * 10^precision + fraction
    IN  IF text.minus THEN -size ELSE size

(* The digits alone, and how many there are. *)
WithoutPoint(text) ==
    [minus |-> text.minus, length |-> text.decimals + DigitsOf(text.whole),
     digits |-> text.whole * 10^text.decimals + text.fraction]

MoneyText(cash, precision) ==
    [number |-> NumberText(cash.amount, precision),
     symbol |-> IF cash.currency = "Unknown" THEN "" ELSE cash.currency]

Dash == [number |-> None, symbol |-> ""]

(* A share of nothing is not a number. *)
PercentText(percent) ==
    IF percent = None THEN Dash ELSE [number |-> percent, symbol |-> "+%"]

HoursPerDay == 24

DayOf(at) == at \div HoursPerDay

(* The name of a contract. *)
OptionName(o) ==
    <<o.underlying.ticker, DayOf(o.expiration), o.type,
      WithoutPoint(NumberText(o.strike, 2))>>

-----------------------------------------------------------------------------
(* The columns of the tables. *)

CashColumns ==
    <<"Date", "Type", "Account", "ReferenceAccount", "Amount", "Fees", "Description">>

StockColumns ==
    <<"Date", "Type", "Stock", "Account", "ReferenceAccount", "Quantity", "Price",
      "Fees", "Description">>

OptionColumns ==
    <<"Date", "Type", "Option", "Account", "ReferenceAccount", "BuySell", "Action",
      "Quantity", "Premium", "Fees", "Description">>

StockPositionColumns ==
    <<"Ticker", "Name", "OpenedAt", "Quantity", "AvgCost", "CostBasis", "LastPrice",
      "MarketValue", "RealizedPnl", "RealizedPnlPct", "UnrealizedPnl",
      "UnrealizedPnlPct">>

OptionPositionColumns ==
    <<"Ticker", "Name", "OpenedAt", "Quantity", "LastPrice", "MarketValue",
      "RealizedPnl", "RealizedPnlPct", "UnrealizedPnl", "UnrealizedPnlPct">>

SelectionColumns == <<"Ticker", "Name", "OpenedAt">>

Label(column) ==
    CASE column = "ReferenceAccount" -> "Reference Account"
      [] column = "BuySell" -> "Buy/Sell"
      [] OTHER -> column

PositionLabels ==
    [OpenedAt |-> "Open Date", AvgCost |-> "Average Cost", CostBasis |-> "Cost Basis",
     LastPrice |-> "Last Price", MarketValue |-> "Market Value",
     UnrealizedPnl |-> "Unrealized P&L", UnrealizedPnlPct |-> "Unrealized P&L %"]

PositionLabel(column) ==
    IF column \in DOMAIN PositionLabels THEN PositionLabels[column] ELSE column

ColumnIndex(columns, column) == CHOOSE i \in DOMAIN columns : columns[i] = column

-----------------------------------------------------------------------------
(* The cells of the transactions. *)

NameOf(names, id) == IF id \in DOMAIN names /\ id # Invalid THEN names[id] ELSE ""

CommentText(base) == IF base.comment = None THEN "" ELSE base.comment

DateCell(base) == DayOf(base.at)

FeesCell(fees) == IF fees.amount = 0 THEN Dash ELSE MoneyText(fees, 2)

CashCells(row, names) ==
    [Date |-> DateCell(row.base), Type |-> "",
     Account |-> NameOf(names, row.cash),
     ReferenceAccount |-> NameOf(names, row.external),
     Amount |-> MoneyText(row.amount, 2), Fees |-> MoneyText(row.fees, 2),
     Description |-> CommentText(row.base)]

StockCells(row, names) ==
    [Date |-> DateCell(row.base), Type |-> "", Stock |-> row.ticker,
     Account |-> NameOf(names, row.security),
     ReferenceAccount |-> NameOf(names, row.cash),
     Quantity |-> NumberText(row.quantity, Scale),
     Price |-> MoneyText(row.price, 2), Fees |-> FeesCell(row.fees),
     Description |-> CommentText(row.base)]

OptionCells(row, names) ==
    [Date |-> DateCell(row.base), Type |-> "", Option |-> row.name,
     Account |-> NameOf(names, row.security),
     ReferenceAccount |-> NameOf(names, row.cash), BuySell |-> row.side,
     Action |-> row.action, Quantity |-> NumberText(row.quantity, Scale),
     Premium |-> MoneyText(row.premium, 2), Fees |-> FeesCell(row.fees),
     Description |-> CommentText(row.base)]

Sign(n) == IF n > 0 THEN "green" ELSE "red"

(* One cell of a row has a colour. *)
CashColour(row) == [Amount |-> Sign(row.amount.amount)]
StockColour(row) == [Quantity |-> Sign(row.quantity)]
OptionColour(row) == [Quantity |-> Sign(row.quantity)]

CashAtTheRight == {"Amount"}
StockAtTheRight == {"Quantity", "Price"}
OptionAtTheRight == {"Quantity", "Premium"}

-----------------------------------------------------------------------------
(* The cells of the positions. *)

PriceCell(cash) ==
    IF cash.currency = "Unknown" \/ cash.amount = 0 THEN Dash ELSE MoneyText(cash, 2)

PositionCells(detail) ==
    [Ticker |-> detail.draft.info.ticker, Name |-> detail.draft.info.about,
     OpenedAt |-> DayOf(detail.draft.created),
     Quantity |-> NumberText(detail.quantity, Scale),
     LastPrice |-> PriceCell(detail.now.price),
     MarketValue |-> PriceCell(detail.now.value),
     RealizedPnl |-> PriceCell(detail.realized),
     RealizedPnlPct |-> PercentText(detail.realizedPercent),
     UnrealizedPnl |-> PriceCell(detail.now.unrealized),
     UnrealizedPnlPct |-> PercentText(detail.now.percent)]

OptionPositionCells(detail) == PositionCells(detail)

StockPositionCells(detail) ==
    [c \in ToSet(StockPositionColumns) |->
        CASE c = "AvgCost" -> PriceCell(detail.average)
          [] c = "CostBasis" -> PriceCell(detail.total)
          [] OTHER -> PositionCells(detail)[c]]

(* The cells that are drawn again when there are new prices. *)
RefreshedColumns(columns) ==
    {columns[i] : i \in ColumnIndex(columns, "LastPrice")
                        ..ColumnIndex(columns, "UnrealizedPnlPct")}

(* The dialog that offers the positions of a stock to a trade. *)
SelectionCells(detail) ==
    [Ticker |-> detail.draft.info.ticker, Name |-> detail.draft.info.about,
     OpenedAt |-> detail.draft.created]

PositionAt(positions, row) ==
    IF row \in 1..Len(positions) THEN positions[row] ELSE None

(* The dialog ends with a position, with the wish for a new one, or not. *)
Answers(positions, selected) ==
    {[accepted |-> FALSE, position |-> None], [accepted |-> TRUE, position |-> None]}
    \cup IF selected = {} THEN {}
         ELSE {[accepted |-> TRUE, position |-> PositionAt(positions, row)] :
                row \in selected}

-----------------------------------------------------------------------------
(* What a view shows of a table: the rows of which a cell has the text that  *)
(* is searched for, sorted by the text of a column.  Which cells have it,    *)
(* and which text comes first, is given.                                     *)

Found(cells, having) ==
    {i \in DOMAIN cells : \E c \in DOMAIN cells[i] : <<c, cells[i][c]>> \in having}

TopDown(ranks, view) ==
    \A i, j \in DOMAIN view :
        i < j => \/ ranks[view[i]] < ranks[view[j]]
                 \/ ranks[view[i]] = ranks[view[j]] /\ view[i] < view[j]

(* The rows of the table that the view shows, from the top. *)
ViewOf(ranks, shown) == CHOOSE view \in SetToSeqs(shown) : TopDown(ranks, view)

(* The newest day first. *)
Newest(cells, shown) == ViewOf([i \in DOMAIN cells |-> -cells[i].Date], shown)

NewestPositions(cells) ==
    ViewOf([i \in DOMAIN cells |-> -cells[i].OpenedAt], DOMAIN cells)

SelectedRow(view, selected) == IF selected = None THEN None ELSE view[selected]

-----------------------------------------------------------------------------
(* Checks over a few values. *)

SampleTrade(kind, at, instrument, security, cash, position) ==
    SecurityTransaction(BaseTransaction(1, at, None), kind, instrument, security,
                        cash, 9, 2, NoCash, position)

SampleStocks ==
    {StockTransaction(SampleTrade("Stock", at, 7, 4, cash, position), Cash("EUR", 7)) :
        at \in {5, 29}, cash \in {1, 2}, position \in {Invalid, 6}}

SampleOptions ==
    {OptionTransaction(SampleTrade("Option", 5, instrument, 4, 1, 6), Cash("EUR", 7),
                       "Open", "Buy", None) : instrument \in {7, 8}}

SampleCash ==
    {CashTransaction(BaseTransaction(1, 5, None), cash, 9, Cash("EUR", 7), NoCash) :
        cash \in {1, 2}}

UpTo2(S) == UNION {[1..n -> S] : n \in 0..2}

SampleTransactions ==
    {Of(c, s, o) : c \in {<<x>> : x \in SampleCash}, s \in UpTo2(SampleStocks),
                   o \in {<<x>> : x \in SampleOptions}}

(* What is filtered keeps its order, what meets no account is left out, and
   to filter by two sets of accounts is to filter by what is in either
   (transactions.cpp:507). *)
ASSUME FiltersAddUp ==
    \A txs \in SampleTransactions :
        /\ FilterBy(txs, {1, 2, 4, 9}) = txs
        /\ IsEmpty_(FilterBy(txs, {}))
        /\ ToSet(FilterBy(txs, {1, 2}).stocks)
            = ToSet(FilterBy(txs, {1}).stocks) \cup ToSet(FilterBy(txs, {2}).stocks)
        /\ FilterBy(FilterBy(txs, {1}), {1}) = FilterBy(txs, {1})

(* Every trade that has a position is in the group of it and in no other, in
   the order of the whole (transactions.cpp:469). *)
ASSUME GroupsArePartition ==
    \A txs \in SampleTransactions :
        LET groups == GroupByPosition(txs)
            positioned == SelectSeq(txs.stocks, LAMBDA tx : tx.trade.position # Invalid)
        IN  /\ DOMAIN groups = {6}
            /\ groups[6] = Of(<<>>, positioned, txs.options)
            /\ SecurityInstruments(groups[6]) \subseteq SecurityInstruments(txs)

(* Sorting keeps every transaction; two of the same time may change places
   (transactions.cpp:19). *)
ASSUME SortingKeepsAll ==
    \A seq \in UpTo2(SampleStocks) :
        LET sorted == {t \in UpTo2(SampleStocks) : InTimeOrder(seq, t)}
        IN  sorted # {} /\ \A t \in sorted : InstrumentsOf(t) = InstrumentsOf(seq)

SampleNumbers ==
    {sign * (whole * 10^Scale + fraction) : sign \in {-1, 1}, whole \in {0, 1, 12},
        fraction \in {0, 5, 1050, 50000, 99999, 100000, 120000, 500000, 999999}}

(* With all its decimals a number reads back as itself (quantity.cpp:316). *)
ASSUME FullTextReadsBack ==
    \A v \in SampleNumbers : ReadNumber(NumberText(v, Scale), Scale) = v

(* With two decimals, as the tables have them, only a number that has no
   fraction or a tenth in it does: 12.05 is shown as 12.50000, and so is
   12.5 but for a zero (quantity.cpp:322). *)
ASSUME TwoDecimalsReadBack ==
    \A v \in SampleNumbers :
        (ReadNumber(NumberText(v, 2), Scale) = v)
            <=> (Magnitude(v) % 10^Scale = 0 \/ Magnitude(v) % 10^Scale >= 10^(Scale - 1))

(* The point is left out of the strike in the name of a contract, and two
   strikes may have one name: 1.05 and 1500 (option.cpp:98). *)
ASSUME NamesMayBeShared ==
    \A type \in {"Call", "Put"} :
        LET Contract(strike) ==
                Option(1, 1, Equity("ACME", "a company"), type, strike, 29, 100)
        IN  /\ OptionName(Contract(1050000)) = OptionName(Contract(1500000000))
            /\ OptionName(Contract(1000000)) # OptionName(Contract(2000000))

Names == [id \in {1, 4, 9} |-> CASE id = 1 -> "cash" [] id = 4 -> "broker" [] id = 9 -> "outside"]

SampleCashRow == CashOverview(Overview_(5, None), Cash("EUR", 7), NoCash, 1, 9)
SampleStockRow ==
    StockOverview(Overview_(5, "first"), 2, Cash("EUR", 7), NoCash, "ACME", 4, 1)
SampleOptionRow ==
    OptionOverview(Overview_(5, None), 2, Cash("EUR", 7), NoCash, "ACME", "Buy",
                   "Open", 4, 2)

SampleInfo == PositionDraft(6, StockInfo("ACME", "a company"), 5, None)
SampleStockDetail == StockDetail(SampleInfo, 2, Cash("EUR", 7), Cash("EUR", 14), NoCash, 0)
SampleOptionDetail == OptionDetail(SampleInfo, 2, NoCash, 0)

(* Every column of a table has a cell and a label of its own, and what is
   coloured or at the right is one (cash_transaction_table.cpp:207). *)
ASSUME EveryColumnHasACell ==
    /\ DOMAIN CashCells(SampleCashRow, Names) = ToSet(CashColumns)
    /\ DOMAIN StockCells(SampleStockRow, Names) = ToSet(StockColumns)
    /\ DOMAIN OptionCells(SampleOptionRow, Names) = ToSet(OptionColumns)
    /\ DOMAIN OptionPositionCells(SampleOptionDetail) = ToSet(OptionPositionColumns)
    /\ DOMAIN StockPositionCells(SampleStockDetail) = ToSet(StockPositionColumns)
    /\ DOMAIN SelectionCells(SampleStockDetail) = ToSet(SelectionColumns)
    /\ DOMAIN PositionLabels \subseteq ToSet(StockPositionColumns)
    /\ DOMAIN CashColour(SampleCashRow) \cup CashAtTheRight \subseteq ToSet(CashColumns)
    /\ DOMAIN StockColour(SampleStockRow) \cup StockAtTheRight \subseteq ToSet(StockColumns)
    /\ DOMAIN OptionColour(SampleOptionRow) \cup OptionAtTheRight
        \subseteq ToSet(OptionColumns)
    /\ \A columns \in {CashColumns, StockColumns, OptionColumns} :
        /\ Cardinality({Label(c) : c \in ToSet(columns)}) = Len(columns)
        /\ columns[ColumnIndex(columns, "Date")] = "Date"
        /\ ColumnIndex(columns, "Description") = Len(columns)
    /\ Cardinality({PositionLabel(c) : c \in ToSet(StockPositionColumns)})
        = Len(StockPositionColumns)

(* An account that is not among the names has none (here account 2). *)
ASSUME UnknownAccountsAreBlank ==
    /\ OptionCells(SampleOptionRow, Names).ReferenceAccount = ""
    /\ StockCells(SampleStockRow, Names).ReferenceAccount = "cash"
    /\ CashCells(SampleCashRow, Names).ReferenceAccount = "outside"

(* Whatever a new price changes in a row is among the columns that are drawn
   again (stock_position_table_model.cpp:203). *)
ASSUME RefreshCoversPrices ==
    \A price, value, gain \in {Cash("EUR", n) : n \in {-2, 0, 7}}, percent \in {None, 3} :
        LET Marked(detail) == UpdateUnrealized(detail, price, value, gain, percent)
            stock == StockPositionCells(SampleStockDetail)
            markedStock == StockPositionCells(Marked(SampleStockDetail))
            option == OptionPositionCells(SampleOptionDetail)
            markedOption == OptionPositionCells(Marked(SampleOptionDetail))
        IN  /\ {c \in DOMAIN stock : stock[c] # markedStock[c]}
                \subseteq RefreshedColumns(StockPositionColumns)
            /\ {c \in DOMAIN option : option[c] # markedOption[c]}
                \subseteq RefreshedColumns(OptionPositionColumns)

(* The view has the rows that were found, the newest day first, those of a
   day in the order of the table, and the row that is selected in it is the
   one that is shown there (transactions_overview.cpp:83,
   stock_position_table_view.cpp:62). *)
ASSUME ViewsShowTheFound ==
    \A days \in [1..3 -> {5, 29, 60}] :
        LET cells == [i \in 1..3 |->
                CashCells([SampleCashRow EXCEPT !.base.at = days[i],
                                                !.cash = IF i = 2 THEN 4 ELSE 1], Names)]
            everything == Found(cells, {<<"Date", DayOf(day)>> : day \in {5, 29, 60}})
            view == Newest(cells, Found(cells, {<<"Account", "cash">>}))
        IN  /\ everything = 1..3
            /\ ToSet(view) = {1, 3} /\ Len(view) = 2
            /\ DayOf(days[view[1]]) >= DayOf(days[view[2]])
            /\ DayOf(days[1]) = DayOf(days[3]) => view = <<1, 3>>
            /\ cells[SelectedRow(view, 1)].Date = cells[view[1]].Date

(* Of the positions that are offered one is taken, a new one is made, or the
   dialog is left; what is taken was offered
   (position_selection_dialog.cpp:124). *)
ASSUME OfferedIsTaken ==
    \A n \in 0..2, row \in 1..2 :
        LET positions == [i \in 1..n |-> i + 10]
        IN  /\ \A a \in Answers(positions, {row} \cap 1..n) :
                a.position # None => a.accepted /\ a.position = row + 10
            /\ PositionAt(positions, 0) = None /\ PositionAt(positions, n + 1) = None
=============================================================================
