------------------------------- MODULE Ledger -------------------------------
(***************************************************************************)
(* The booking of transactions and what is read back of them: the three    *)
(* forms, the drafts, the double entry of a transaction, the rows of the   *)
(* file, and the way back to the overview and to the open positions with   *)
(* their profit. The ids, remaps and failures of a save are modelled in    *)
(* StoreContainer; here a save keeps the bookings, all of them or cut off  *)
(* by the end of the process, and a restart forgets the rest.              *)
(***************************************************************************)
EXTENDS PositionMath, Drafts, Sequences, SequencesExt

CONSTANTS
    CashAccounts, SecurityAccounts,
    External,       \* the external account bookings are made against
    CurrencyOf,     \* the currency of each account
    Tickers,
    Moments,        \* what the timestamp field may say
    Amounts,        \* what a field that takes an amount of money may say
    Fees,           \* what a fee field may say
    Quantities,     \* what a quantity field may say
    Contracts,      \* option contracts: ticker, type, strike and size
    MaxBookings     \* bound: transactions booked

ASSUME AccountsAssumption ==
    /\ CashAccounts \cap SecurityAccounts = {}
    /\ External \notin CashAccounts \cup SecurityAccounts
    /\ CashAccounts \cup SecurityAccounts \subseteq DOMAIN CurrencyOf

ASSUME FieldsAssumption ==
    /\ Amounts \subseteq Nat \ {0}
    /\ Contracts \subseteq
        [ticker : Tickers, type : Types, strike : Strikes, size : Nat \ {0}]
    /\ Fees \subseteq Nat /\ Quantities \subseteq Nat /\ Moments \subseteq Nat
    /\ MaxBookings \in Nat

VARIABLES
    cache,      \* the transactions of the store, in the order they were added
    db,         \* the transactions of the file, in the order of their ids
    options,    \* the option contracts of the store
    dbOptions,  \* the option contracts of the file
    booked      \* ghost: what was booked and not lost, saved first

vars == <<cache, db, options, dbOptions, booked>>

-----------------------------------------------------------------------------
(* Forms and drafts. The fields take no sign: a withdrawal, and the fees of
   a trade, are negated on the way into the draft. *)

CashDrafts ==
    {[kind |-> "cash", at |-> at, cash |-> a,
      amount |-> Cash(CurrencyOf[a], sign * n), fees |-> Cash(CurrencyOf[a], f)] :
        at \in Moments, a \in CashAccounts, sign \in {1, -1},
        n \in Amounts, f \in Fees}

(* Cash accounts are offered in the currency of the security account, and a
   selection is dropped when the security account changes. *)
Offered == {p \in SecurityAccounts \X CashAccounts :
                CurrencyOf[p[1]] = CurrencyOf[p[2]]}

(* An instrument that is no option has no type, strike and size. *)
Stock(ticker) == [ticker |-> ticker, type |-> None, strike |-> 0, size |-> 0]

(* The quantity is not watched: it may be zero when the button is pressed. *)
StockDrafts ==
    {[kind |-> "stock", at |-> at, instrument |-> Stock(k), qty |-> q,
      security |-> p[1], cash |-> p[2], side |-> None,
      amount |-> Cash(CurrencyOf[p[2]], n), fees |-> Minus(Cash(CurrencyOf[p[2]], f))] :
        at \in Moments, k \in Tickers, q \in Quantities, p \in Offered,
        n \in Amounts, f \in Fees}

OptionDrafts ==
    {[kind |-> "option", at |-> at, instrument |-> o, qty |-> q, side |-> d,
      security |-> p[1], cash |-> p[2],
      amount |-> Cash(CurrencyOf[p[2]], n), fees |-> Minus(Cash(CurrencyOf[p[2]], f))] :
        at \in Moments, o \in Contracts, q \in Quantities, d \in Sides,
        p \in Offered, n \in Amounts, f \in Fees}

-----------------------------------------------------------------------------
(* The double entry. *)

Entry(account, cash, type) == [account |-> account, cash |-> cash, type |-> type]

(* The internal account first, then the external one with the negative. *)
Pair(account, cash, type) ==
    <<Entry(account, cash, type), Entry(External, Minus(cash), type)>>

FeePair(d) == Pair(d.cash, d.fees, "Fees")

CashEntries(d) == Pair(d.cash, d.amount, "General") \o FeePair(d)

(* What the shares cost leaves the cash account, and has no other side. *)
StockEntries(d) ==
    LET cost == [d.amount EXCEPT !.amount = Times(@, d.qty)]
    IN  <<Entry(d.cash, Minus(cost), "General")>> \o FeePair(d)

OptionEntries(d) == Pair(d.cash, d.amount, "General") \o FeePair(d)

Leg(d, p) ==
    [account |-> d.security, instrument |-> d.instrument, qty |-> d.qty,
     price |-> d.amount, position |-> p]

ToDomain(d, id, p) ==
    [id |-> id, at |-> d.at, kind |-> d.kind,
     entries |-> CASE d.kind = "cash" -> CashEntries(d)
                   [] d.kind = "stock" -> StockEntries(d)
                   [] d.kind = "option" -> OptionEntries(d),
     legs |-> IF d.kind = "cash" THEN <<>> ELSE <<Leg(d, p)>>,
     side |-> IF d.kind = "option" THEN d.side ELSE None]

-----------------------------------------------------------------------------
(* What is known: the transactions of the store, and the rows it does not
   have. The order does not matter to what is shown. *)

Ids(txs) == {tx.id : tx \in Range(txs)}

(* Mutant: a row is taken for another transaction than the saved one. *)
AllTransactions == ({"store"} \X DOMAIN cache) \cup ({"file"} \X DOMAIN db)

(* Where a transaction is: in the store, or only in the file. *)
Known ==
    LET seen == Ids(cache)
    IN  ({"store"} \X DOMAIN cache) \cup
        ({"file"} \X {i \in DOMAIN db : db[i].id \notin seen})

At(place) == IF place[1] = "store" THEN cache[place[2]] ELSE db[place[2]]

Transactions == {At(place) : place \in Known}

(* The entries of a type, by their places. *)
General(tx) == {i \in DOMAIN tx.entries : tx.entries[i].type = "General"}

FeesOf(tx) == {i \in DOMAIN tx.entries : tx.entries[i].type = "Fees"}

EntriesFit(tx) ==
    /\ Cardinality(General(tx)) = (IF tx.kind = "stock" THEN 1 ELSE 2)
    /\ Cardinality(FeesOf(tx)) \in {0, 2}

FirstOf(places) == CHOOSE i \in places : \A j \in places : i <= j

SecondOf(places) == FirstOf(places \ {FirstOf(places)})

Amount(tx) == tx.entries[FirstOf(General(tx))]

Has(list, places, account) == \E i \in places : list[i].account = account

(* The account of the user among the entries of a cash transaction. *)
Internal(tx) ==
    IF Amount(tx).account \in CashAccounts THEN Amount(tx).account
    ELSE tx.entries[SecondOf(General(tx))].account

CashFits(tx) ==
    /\ Internal(tx) \in CashAccounts
    /\ Has(tx.entries, General(tx), External)
    /\ FeesOf(tx) # {} => \A account \in {Internal(tx), External} :
                            Has(tx.entries, FeesOf(tx), account)

TradeFits(tx) ==
    /\ FeesOf(tx) # {} => Has(tx.entries, FeesOf(tx), Amount(tx).account)
    /\ Len(tx.legs) = 1

Converts(tx) ==
    EntriesFit(tx) /\ IF tx.kind = "cash" THEN CashFits(tx) ELSE TradeFits(tx)

(* The fees of an account; nothing, if there are no entries. *)
FeesPaid(tx, account) ==
    LET first == tx.entries[FirstOf(FeesOf(tx))]
    IN  IF FeesOf(tx) = {} THEN Cash(Amount(tx).cash.currency, 0)
        ELSE IF first.account = account THEN first.cash
        ELSE tx.entries[SecondOf(FeesOf(tx))].cash

ToCash(tx) ==
    [kind |-> "cash", at |-> tx.at, cash |-> Internal(tx),
     amount |-> Amount(tx).cash, fees |-> FeesPaid(tx, Internal(tx))]

ToTrade(tx, kind, side) ==
    LET cash == Amount(tx).account
        leg == tx.legs[1]
    IN  [kind |-> kind, at |-> tx.at, instrument |-> leg.instrument,
         qty |-> leg.qty, security |-> leg.account, cash |-> cash,
         side |-> side, amount |-> leg.price, fees |-> FeesPaid(tx, cash)]

ToStock(tx) == ToTrade(tx, "stock", None)

ToOption(tx) == ToTrade(tx, "option", tx.side)

Row(tx) ==
    CASE tx.kind = "cash" -> ToCash(tx)
      [] tx.kind = "stock" -> ToStock(tx)
      [] tx.kind = "option" -> ToOption(tx)

(* The first transaction that does not convert ends the reading with an
   error, for all of them. *)
Readable == \A tx \in Transactions : Converts(tx)

Overview == [place \in Known |-> Row(At(place))]

-----------------------------------------------------------------------------
(* The open positions of an account; none is ever closed. *)

Involves(tx, account) ==
    \/ Has(tx.entries, DOMAIN tx.entries, account)
    \/ Has(tx.legs, DOMAIN tx.legs, account)

InPosition(tx, p) == \E i \in DOMAIN tx.legs : tx.legs[i].position = p

TradesOf(account) == {tx \in Transactions : Involves(tx, account)}

Members(account, p) == {tx \in TradesOf(account) : InPosition(tx, p)}

Positions(account) == {p \in 1..MaxBookings : Members(account, p) # {}}

ContainsOptions(txs) == \E tx \in txs : tx.kind = "option"

InstrumentIds(txs, kind) ==
    {Row(tx).instrument : tx \in {t \in txs : t.kind = kind}}

EventOf(tx) ==
    LET row == Row(tx)
    IN  IF tx.kind = "stock"
        THEN [qty |-> row.qty, price |-> row.amount.amount,
              fees |-> row.fees.amount]
        ELSE [type |-> row.instrument.type, side |-> row.side,
              action |-> "Open", strike |-> row.instrument.strike,
              qty |-> row.qty, size |-> row.instrument.size,
              premium |-> row.amount.amount, fees |-> row.fees.amount]

(* Mutant: the money that was moved is taken for the price. *)
EventOfEntry(tx) ==
    LET row == Row(tx)
    IN  IF tx.kind = "stock"
        THEN [qty |-> row.qty, price |-> -Amount(tx).cash.amount,
              fees |-> row.fees.amount]
        ELSE EventOf(tx)

Event(tx) == EventOf(tx)

(* Sorted by timestamp; what has the same one may come in any order. *)
Orders(txs) ==
    {s \in SetToSeqs(txs) :
        \A i, j \in DOMAIN s : i < j => s[i].at <= s[j].at}

Trade(s, tx) ==
    IF tx.kind = "stock" THEN WithStock(s, Event(tx)) ELSE WithOption(s, Event(tx))

Fold(order) == FoldLeft(Trade, Fresh, order)

(* Money of two currencies throws when it is added, and so does a contract
   of another size end the fold. *)
Foldable(txs) ==
    /\ Cardinality({Row(tx).amount.currency : tx \in txs}
                   \cup {Row(tx).fees.currency : tx \in txs}) = 1
    /\ ContainsOptions(txs) =>
        Cardinality({Row(tx).instrument.size : tx \in txs}) = 1

(* One instrument of the kind, and a fold without an error. *)
Sound(txs, kind) ==
    Cardinality(InstrumentIds(txs, kind)) = 1 /\ Foldable(txs)

(* The table of the stock positions of an account has no error. *)
StocksShown(account) ==
    \A p \in Positions(account) :
        LET txs == Members(account, p)
        IN  ContainsOptions(txs) \/ Sound(txs, "stock")

OptionsShown(account) ==
    \A p \in Positions(account) :
        LET txs == Members(account, p)
        IN  ContainsOptions(txs) => Sound(txs, "option")

StockPositions(account) ==
    {p \in Positions(account) : ~ContainsOptions(Members(account, p))}

(* Mutant: the positions of every ticker are offered. *)
AnyTicker(account, ticker) == StockPositions(account)

(* What is offered to a new trade of the ticker. *)
Matching(account, ticker) ==
    {p \in StockPositions(account) :
        \A tx \in Members(account, p) : Row(tx).instrument.ticker = ticker}

-----------------------------------------------------------------------------
(* Actions. *)

Init ==
    /\ cache = <<>> /\ db = <<>>
    /\ options = {} /\ dbOptions = {}
    /\ booked = <<>>

NewPosition == Len(booked) + 1

Book(d, p) ==
    /\ Len(booked) < MaxBookings
    /\ cache' = Append(cache, ToDomain(d, -(Len(booked) + 1), p))
    /\ booked' = Append(booked, [draft |-> d, position |-> p])
    /\ UNCHANGED <<db, dbOptions>>

BookCash ==
    /\ \E d \in CashDrafts : Book(d, 0)
    /\ UNCHANGED options

(* If there are positions to choose from, the user takes one of them or
   wants a new one. *)
BookStock ==
    /\ \E account \in SecurityAccounts, ticker \in Tickers :
        /\ Readable /\ StocksShown(account)
        /\ \E p \in {NewPosition} \cup Matching(account, ticker) :
            \E d \in StockDrafts :
                /\ d.security = account /\ d.instrument = Stock(ticker)
                /\ Book(d, p)
    /\ UNCHANGED options

(* The name of a contract does not tell its size. *)
SameName(o, other) ==
    /\ o.ticker = other.ticker /\ o.type = other.type
    /\ o.strike = other.strike

(* Every booking makes a contract of its own; one that is there is refused. *)
OptionExists(o) == \E other \in options \cup dbOptions : SameName(o, other)

BookOption ==
    \E d \in OptionDrafts :
        /\ ~OptionExists(d.instrument)
        /\ options' = options \cup {d.instrument}
        /\ Book(d, NewPosition)

Pending == {i \in DOMAIN cache : cache[i].id < 0}

(* The rows of a transaction hold all of it, but for a new id. *)
RowsOf(tx, id) == [tx EXCEPT !.id = id]

(* They are inserted in the order in which they were added. *)
Turn(i) == Cardinality({j \in Pending : j <= i})

Inserted(n) == CHOOSE i \in Pending : Turn(i) = n

(* The first n transactions that are not saved, as they are inserted. *)
Rows(n) == [k \in 1..n |-> RowsOf(cache[Inserted(k)], Len(db) + k)]

Save ==
    /\ Pending # {}
    /\ db' = db \o Rows(Cardinality(Pending))
    /\ cache' = [i \in DOMAIN cache |->
                    IF i \in Pending THEN RowsOf(cache[i], Len(db) + Turn(i))
                    ELSE cache[i]]
    /\ dbOptions' = dbOptions \cup options
    /\ UNCHANGED <<options, booked>>

(* The process ends and is started again, perhaps in the middle of a save:
   the contracts are saved before the transactions. *)
Restart ==
    /\ \E n \in 0..Cardinality(Pending), saved \in SUBSET options :
        /\ n > 0 => saved = options
        /\ db' = db \o Rows(n)
        /\ dbOptions' = dbOptions \cup saved
        /\ options' = dbOptions'
        /\ booked' = SubSeq(booked, 1, Len(db) + n)
    /\ cache' = <<>>

Next == BookCash \/ BookStock \/ BookOption \/ Save \/ Restart

Spec == Init /\ [][Next]_vars

-----------------------------------------------------------------------------
(* Properties. *)

Occurrences(rows, x) == Cardinality({i \in DOMAIN rows : rows[i] = x})

(* Through the double entry, the rows of the file and back, before and after
   a save, a save cut off in the middle and a restart, the overview shows
   each transaction as it was booked, once (transaction_store.cpp:275). *)
ReadsBack ==
    /\ Readable
    /\ LET rows == Overview
       IN  /\ Cardinality(DOMAIN rows) = Len(booked)
           /\ \A i \in DOMAIN booked :
                Occurrences(rows, booked[i].draft)
                    = Cardinality({j \in DOMAIN booked :
                                    booked[j].draft = booked[i].draft})

(* The transactions of an open position are of one kind, one instrument and
   one currency, whatever was chosen for them: the tables of positions, which
   show nothing at all otherwise, can always be shown
   (position_gateway.cpp:226). *)
PositionsAreShown ==
    Readable /\ \A account \in SecurityAccounts :
                    StocksShown(account) /\ OptionsShown(account)

BookedTo(p) == {i \in DOMAIN booked : booked[i].position = p}

SumOver(p, Value(_)) == MapThenSumSet(LAMBDA i : Value(booked[i].draft), BookedTo(p))

(* In whichever order its events are folded, a stock position is the sum of
   the trades that were booked to it: quantity, cost and fees
   (position_gateway.cpp:108). *)
PositionsAddUp ==
    \A account \in SecurityAccounts : \A p \in Positions(account) :
        \A order \in Orders(Members(account, p)) :
            LET state == Fold(order)
            IN  /\ state.fees = SumOver(p, LAMBDA d : d.fees.amount)
                /\ ContainsOptions(Members(account, p)) \/
                    /\ state.openQuantity = SumOver(p, LAMBDA d : d.qty)
                    /\ state.costBasis =
                        SumOver(p, LAMBDA d : Times(d.amount.amount, d.qty))
                    /\ state.realizedPnL = 0
=============================================================================
