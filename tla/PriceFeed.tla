------------------------------ MODULE PriceFeed ------------------------------
(* The prices of open positions: PositionController fetches quotes in a      *)
(* worker thread, every minute and after a booking; PriceCache keeps them    *)
(* and tells AccountController, which recomputes the positions of an         *)
(* account and hands them to AccountDetailView.  The user books trades,      *)
(* adds stocks, selects accounts and restores backups meanwhile.  All but    *)
(* the worker runs in the event loop of one thread.                          *)
EXTENDS Naturals, FiniteSets

CONSTANTS
  Tickers, Prices,
  CashAccounts, SecurityAccounts,
  Positions,       \* what may be held: [account, ticker, kind]
  Files,           \* what a database may hold: [stocks, positions]
  Foreign,         \* [account, ticker] of different currencies
  NoPrice, NoAccount

ASSUME FeedAssumption ==
  /\ IsFiniteSet(Tickers)
  /\ NoPrice \notin Prices
  /\ CashAccounts \cap SecurityAccounts = {}
  /\ NoAccount \notin CashAccounts \cup SecurityAccounts
  /\ Positions \subseteq [account : SecurityAccounts, ticker : Tickers,
                          kind : {"stock", "option"}]
  /\ \A f \in Files : f.stocks \subseteq Tickers /\ f.positions \subseteq Positions

VARIABLES
  stocks,          \* the tickers of the stock store
  positions,       \* the open positions
  tracked,         \* PositionController::_tickers
  expected,        \* PositionController::_expectedSymbolCount
  fetch,           \* the future that is watched, see Idle below
  cache,           \* PriceCache::_quotes
  details,         \* the open positions that were shown, by account
  current,         \* AccountController::Details::currentAccount
  view,            \* the account and the rows that the detail view shows
  running          \* FALSE once an exception has ended the program

feed == <<tracked, expected, fetch, cache>>
store == <<stocks, positions>>
shown == <<details, current, view>>
feedVars == <<store, feed, shown, running>>

NoRows == [p \in {} |-> NoPrice]
NoQuotes == [t \in {} |-> t]

-----------------------------------------------------------------------------
(* Fetching.                                                                *)

(* A fetch is "running" in the worker; "finished" when the worker is done    *)
(* and the event that says so is in the queue; "idle" before and after.      *)
FetchOf(tickers) ==
  IF tickers = {} THEN [state |-> "idle", asked |-> {}, got |-> NoQuotes]
  ELSE [state |-> "running", asked |-> tickers, got |-> NoQuotes]

(* _initTickers runs before a profile is active.  It finds no position and   *)
(* no transaction, hence no id to look for, and to look for no id is to take *)
(* every stock of the database.                                              *)
FeedInit ==
  /\ \E f \in Files : stocks = f.stocks /\ positions = f.positions
  /\ tracked = stocks
  /\ expected = Cardinality(tracked) /\ fetch = FetchOf(tracked)
  /\ cache = NoQuotes
  /\ details = [a \in SecurityAccounts |-> NoRows]
  /\ current = NoAccount /\ view = [account |-> NoAccount, rows |-> NoRows]
  /\ running = TRUE

(* Mutant: the number of answers to wait for is not brought up to date. *)
FetchPricesForAsMany(tickers) ==
  IF fetch.state = "running" \/ tickers = {}
  THEN UNCHANGED <<expected, fetch>>
  ELSE fetch' = FetchOf(tickers) /\ expected' = expected

(* One fetch at a time.  A future that has finished does not run: a new one  *)
(* takes its place and removes its event from the queue.                     *)
FetchPrices(tickers) ==
  IF fetch.state = "running" \/ tickers = {}
  THEN UNCHANGED <<expected, fetch>>
  ELSE fetch' = FetchOf(tickers) /\ expected' = Cardinality(tickers)

(* Mutant: nothing is fetched once every ticker has a quote. *)
TickUntilQuoted ==
  /\ running /\ tracked # DOMAIN cache
  /\ FetchPrices(tracked)
  /\ UNCHANGED <<store, tracked, cache, shown, running>>

Tick ==
  /\ running
  /\ FetchPrices(tracked)
  /\ UNCHANGED <<store, tracked, cache, shown, running>>

(* The worker asks for one ticker after the other; those that fail are left  *)
(* out of the result.                                                        *)
Answer(answered) ==
  /\ running /\ fetch.state = "running"
  /\ \E got \in [answered -> Prices] :
       fetch' = [fetch EXCEPT !.state = "finished", !.got = got]
  /\ UNCHANGED <<store, tracked, expected, cache, shown, running>>
AnswerAll == Answer(fetch.asked)
AnswerSome == \E answered \in SUBSET fetch.asked : Answer(answered)

Delivered == fetch' = [fetch EXCEPT !.state = "idle", !.got = NoQuotes]

(* _onPricesFetched ignores a result that is not complete. *)
Complete == Cardinality(DOMAIN fetch.got) = expected
Discard ==
  /\ running /\ fetch.state = "finished" /\ ~ Complete
  /\ Delivered
  /\ UNCHANGED <<store, tracked, expected, cache, shown, running>>

-----------------------------------------------------------------------------
(* Prices in the view.                                                      *)

Repriced(rows, quotes) ==
  [p \in DOMAIN rows |-> IF p.ticker \in DOMAIN quotes
                         THEN quotes[p.ticker] ELSE rows[p]]

(* finance::snapshot subtracts the cost, in the currency of the account, and *)
(* the price, in that of the stock; Cash throws when they differ.            *)
Mismatch(rows, quotes) ==
  \E p \in DOMAIN rows :
    /\ p.ticker \in DOMAIN quotes
    /\ [account |-> p.account, ticker |-> p.ticker] \in Foreign

(* What the subscription of AccountController does; an exception leaves the  *)
(* slot and ends the program.                                                *)
ShowPrices(quotes) ==
  IF current = NoAccount THEN UNCHANGED <<shown, running>>
  ELSE IF Mismatch(details[current], quotes)
  THEN running' = FALSE /\ UNCHANGED shown
  ELSE LET rows == Repriced(details[current], quotes)
       IN /\ details' = [details EXCEPT ![current] = rows]
          /\ view' = [account |-> current, rows |-> rows]
          /\ UNCHANGED <<current, running>>

Updated(old, new) ==
  [t \in DOMAIN old \cup DOMAIN new |-> IF t \in DOMAIN new THEN new[t] ELSE old[t]]

(* PriceCache::update and its notification. *)
Publish ==
  /\ running /\ fetch.state = "finished" /\ Complete
  /\ Delivered
  /\ cache' = Updated(cache, fetch.got)
  /\ ShowPrices(cache')
  /\ UNCHANGED <<store, tracked, expected>>

(* PositionGateway: the rows come from the transactions and have no price.   *)
OpenPositions(a) == {p \in positions : p.account = a}
OpenDetails(a) == [p \in OpenPositions(a) |-> NoPrice]

(* accountSelected.  A cash account leaves currentAccount as it is.          *)
SelectCash(a) ==
  /\ running
  /\ view' = [account |-> a, rows |-> NoRows]
  /\ UNCHANGED <<store, feed, details, current, running>>

(* Mutant: the details of an account that was shown are used again. *)
SelectSecurityKept(a) ==
  /\ running
  /\ LET rows == [p \in OpenPositions(a) |->
                    IF p \in DOMAIN details[a] THEN details[a][p] ELSE NoPrice]
     IN /\ details' = [details EXCEPT ![a] = rows]
        /\ view' = [account |-> a, rows |-> rows]
  /\ current' = a
  /\ UNCHANGED <<store, feed, running>>

SelectSecurity(a) ==
  /\ running
  /\ details' = [details EXCEPT ![a] = OpenDetails(a)]
  /\ view' = [account |-> a, rows |-> OpenDetails(a)]
  /\ current' = a
  /\ UNCHANGED <<store, feed, running>>

-----------------------------------------------------------------------------
(* What the user books.                                                     *)

AddStock(t) ==
  /\ running /\ t \notin stocks
  /\ stocks' = stocks \cup {t}
  /\ UNCHANGED <<positions, feed, shown, running>>

(* _collectTickers after a trade: the id of a stock is looked up among the   *)
(* stocks, and so is that of an option, which is the option's own.           *)
Collected(p) == IF p.kind = "stock" THEN {p.ticker} ELSE {}

(* A trade opens a position or adds to one. *)
Trade(p) ==
  /\ running /\ p.ticker \in stocks
  /\ positions' = positions \cup {p}
  /\ tracked' = tracked \cup Collected(p)
  /\ FetchPrices(tracked')
  /\ UNCHANGED <<stocks, cache, shown, running>>

(* A deposit or a withdrawal has no instrument, and no id means all stocks. *)
Deposit ==
  /\ running
  /\ tracked' = tracked \cup stocks
  /\ FetchPrices(tracked')
  /\ UNCHANGED <<store, cache, shown, running>>

(* A restored file takes the place of the stores; the tickers, the cache and *)
(* the view are as they were.                                                *)
Restore(f) ==
  /\ running
  /\ stocks' = f.stocks /\ positions' = f.positions
  /\ UNCHANGED <<feed, shown, running>>

FeedNext ==
  \/ Tick \/ AnswerSome \/ Discard \/ Publish
  \/ (\E a \in CashAccounts : SelectCash(a))
  \/ (\E a \in SecurityAccounts : SelectSecurity(a))
  \/ (\E t \in Tickers : AddStock(t))
  \/ (\E p \in Positions : Trade(p))
  \/ Deposit
  \/ (\E f \in Files : Restore(f))

FeedSpec == FeedInit /\ [][FeedNext]_feedVars

(* The timer goes on, the network answers completely now and then, and the   *)
(* event of a complete answer is now and then delivered before a tick or a   *)
(* booking comes in between.                                                 *)
FairSpec ==
  FeedSpec /\ WF_feedVars(Tick) /\ SF_feedVars(AnswerAll) /\ SF_feedVars(Publish)

-----------------------------------------------------------------------------
(* Properties.                                                              *)

Accounts == CashAccounts \cup SecurityAccounts
PriceOrNone == Prices \cup {NoPrice}
IsRows(f) == f \in [DOMAIN f -> PriceOrNone] /\ DOMAIN f \subseteq Positions
IsQuotes(f) == f \in [DOMAIN f -> Prices] /\ DOMAIN f \subseteq Tickers

IsFetch(f) ==
  /\ f = [state |-> f.state, asked |-> f.asked, got |-> f.got]
  /\ f.state \in {"idle", "running", "finished"}
  /\ IsQuotes(f.got) /\ DOMAIN f.got \subseteq f.asked

FeedTypeOK ==
  /\ stocks \subseteq Tickers /\ positions \subseteq Positions
  /\ tracked \subseteq Tickers /\ expected \in Nat
  /\ IsFetch(fetch) /\ fetch.asked \subseteq tracked
  /\ IsQuotes(cache) /\ DOMAIN cache \subseteq fetch.asked
  /\ details = [a \in SecurityAccounts |-> details[a]]
  /\ \A a \in SecurityAccounts : IsRows(details[a])
  /\ current \in SecurityAccounts \cup {NoAccount}
  /\ view.account \in Accounts \cup {NoAccount} /\ IsRows(view.rows)
  /\ running \in BOOLEAN

(* A price in the view is the one in the cache, whatever was booked, fetched *)
(* and selected since: PriceCache notifies with the same update that changes *)
(* its quotes, and an account that is selected again starts without prices.  *)
ShownPricesAreCached ==
  running => \A p \in DOMAIN view.rows :
    view.rows[p] # NoPrice =>
      p.ticker \in DOMAIN cache /\ view.rows[p] = cache[p.ticker]

(* The gate of _onPricesFetched counts answers, and the cache is merged with *)
(* them.  That this posts a whole round and no more, also when tickers are   *)
(* collected during a fetch or a finished fetch is replaced by another, is   *)
(* that the feed implements the board.                                       *)
Board == INSTANCE QuoteBoard
         WITH asked <- fetch.asked, answers <- fetch.got, board <- cache
PostsWholeBatches == Board!Spec

(* A position that is shown without a price, of a ticker that is tracked,    *)
(* gets one, unless the user looks at something else or the program ends.    *)
Unpriced(p) ==
  /\ running /\ p.ticker \in tracked
  /\ p \in DOMAIN view.rows /\ view.rows[p] = NoPrice
ShownIsPriced == \A p \in Positions : Unpriced(p) ~> ~ Unpriced(p)
=============================================================================
