------------------------------- MODULE Schema -------------------------------
(* The schema of the database: the tables as the models of sql_models/      *)
(* declare them today, what a migration step of repo/migration does to a    *)
(* database, and the fifteen versions.  A database maps the names of its    *)
(* tables to tables; a table has columns, foreign keys, groups of unique    *)
(* columns and rows; a row maps the columns of its table to values.         *)
EXTENDS Naturals, Sequences, FiniteSets

Ref(col, to, cascade) == [col |-> col, to |-> to, cascade |-> cascade]

ProfileRow == [table |-> "profile", cols |-> {"id", "name", "email"},
               refs |-> {}, unique |-> {{"name"}}]

AccountRow == [table |-> "account",
               cols |-> {"id", "kind", "profile_id", "name", "status", "currency"},
               refs |-> {Ref("profile_id", "profile", FALSE)},
               unique |-> {{"profile_id", "kind", "name"}}]

InstrumentRow == [table |-> "instrument", cols |-> {"id"},
                  refs |-> {}, unique |-> {}]

TransactionRow == [table |-> "transaction_",
                   cols |-> {"id", "timestamp", "status", "comment", "type"},
                   refs |-> {}, unique |-> {}]

TransactionEntryRow ==
  [table |-> "tx_entry",
   cols |-> {"id", "transaction_id", "account_id", "amount", "currency", "type"},
   refs |-> {Ref("transaction_id", "transaction_", TRUE),
             Ref("account_id", "account", FALSE)},
   unique |-> {}]

TradeLegRow ==
  [table |-> "trade_leg",
   cols |-> {"id", "transaction_id", "account_id", "instrument_id", "quantity",
             "unit_price", "currency", "position_id"},
   refs |-> {Ref("transaction_id", "transaction_", TRUE),
             Ref("account_id", "account", FALSE),
             Ref("instrument_id", "instrument", FALSE),
             Ref("position_id", "position", FALSE)},
   unique |-> {}]

StockRow ==
  [table |-> "stock",
   cols |-> {"id", "ticker", "instrument_id", "currency", "short_name", "long_name",
             "asset_class", "sector", "industry", "exchange"},
   refs |-> {Ref("instrument_id", "instrument", TRUE)},
   unique |-> {{"ticker"}}]

PositionRow == [table |-> "position", cols |-> {"id", "opened_at", "closed_at"},
                refs |-> {}, unique |-> {}]

OptionRow ==
  [table |-> "option",
   cols |-> {"id", "instrument_id", "underlying_instrument_id", "option_type",
             "strike_price", "expiration_date", "currency", "contract_size"},
   refs |-> {Ref("instrument_id", "instrument", TRUE),
             Ref("underlying_instrument_id", "instrument", FALSE)},
   unique |-> {{"underlying_instrument_id", "option_type", "strike_price",
                "expiration_date", "contract_size"}}]

TransactionOptionRow ==
  [table |-> "transaction_option",
   cols |-> {"id", "transaction_id", "buy_sell", "action", "rolled_option_id"},
   refs |-> {Ref("transaction_id", "transaction_", TRUE),
             Ref("rolled_option_id", "transaction_", FALSE)},
   unique |-> {}]

WatchlistRow == [table |-> "watchlists", cols |-> {"id", "name", "created_at"},
                 refs |-> {}, unique |-> {}]

WatchlistInstrumentRow ==
  [table |-> "watchlist_instruments", cols |-> {"id", "watchlist_id", "symbol"},
   refs |-> {Ref("watchlist_id", "watchlists", TRUE)},
   unique |-> {{"watchlist_id", "symbol"}}]

Models == {ProfileRow, AccountRow, InstrumentRow, TransactionRow,
           TransactionEntryRow, TradeLegRow, StockRow, PositionRow, OptionRow,
           TransactionOptionRow, WatchlistRow, WatchlistInstrumentRow}

-----------------------------------------------------------------------------
(* The single migrations.                                                   *)

CreateAs(name, m) == [do |-> "create", table |-> name, model |-> m]
CreateTable(m) == CreateAs(m.table, m)
AddColumn(m, col, value) ==
  [do |-> "addColumn", table |-> m.table, col |-> col, value |-> value]
DropColumn(m, col) == [do |-> "dropColumn", table |-> m.table, col |-> col]
DropTable(m) == [do |-> "drop", table |-> m.table]
CopyTable(from, to) == [do |-> "copy", table |-> from, to |-> to]
RenameTable(from, to) == [do |-> "rename", table |-> from, to |-> to]

(* The pragma that turns foreign keys off and on frames these steps.  SQLite *)
(* ignores it in a transaction, and an upgrade is one: the keys stay on.    *)
CopyDropRename(m) ==
  LET tmp == m.table \o "_tmp"
  IN  <<CreateAs(tmp, m), CopyTable(m.table, tmp), DropTable(m),
        RenameTable(tmp, m.table)>>

DropAndRecreate(m) == <<DropTable(m), CreateTable(m)>>

-----------------------------------------------------------------------------
(* The versions.                                                            *)

Dedupe == [do |-> "dedupe", table |-> "account"]
RetypeTrades == [do |-> "retype", table |-> "transaction_"]

V1 == <<CreateTable(ProfileRow), CreateTable(AccountRow)>>
V2 == <<Dedupe>> \o CopyDropRename(AccountRow)
V3 == <<CreateTable(InstrumentRow), CreateTable(TransactionRow),
        CreateTable(TransactionEntryRow)>>
V4 == CopyDropRename(AccountRow)
V5 == <<AddColumn(InstrumentRow, "currency", "USD")>>
V6 == DropAndRecreate(TransactionEntryRow) \o DropAndRecreate(InstrumentRow)
        \o DropAndRecreate(TransactionRow) \o <<CreateTable(TradeLegRow)>>
V7 == <<CreateTable(StockRow)>>
V8 == <<AddColumn(StockRow, "currency", "USD"), DropColumn(InstrumentRow, "currency")>>
V9 == <<AddColumn(StockRow, "short_name", ""), AddColumn(StockRow, "long_name", ""),
        AddColumn(StockRow, "asset_class", "Unknown"),
        AddColumn(StockRow, "sector", ""), AddColumn(StockRow, "industry", ""),
        AddColumn(StockRow, "exchange", "")>>
V10 == <<CreateTable(PositionRow), AddColumn(TradeLegRow, "position_id", 0)>>
V11 == <<AddColumn(TransactionEntryRow, "type", "General")>>
V12 == <<RetypeTrades>>
V13 == <<CreateTable(OptionRow)>>
V14 == <<CreateTable(TransactionOptionRow)>>
V15 == <<CreateTable(WatchlistRow), CreateTable(WatchlistInstrumentRow)>>

Versions == <<V1, V2, V3, V4, V5, V6, V7, V8, V9, V10, V11, V12, V13, V14, V15>>
DbVersion == Len(Versions)

-----------------------------------------------------------------------------
(* What a single migration does.                                            *)

With(f, x, v) == [y \in DOMAIN f \cup {x} |-> IF y = x THEN v ELSE f[y]]
Without(f, x) == [y \in DOMAIN f \ {x} |-> f[y]]
Empty(m) == [cols |-> m.cols, refs |-> m.refs, unique |-> m.unique, rows |-> {}]

(* Mutant: the kind of the account is not compared. *)
IsFirstOfName(a, rows) == \A b \in rows : b["name"] = a["name"] => a["id"] <= b["id"]

(* UPDATE account: an account that is not the first of its name and kind    *)
(* has its id appended to its name.                                         *)
IsFirst(a, rows) ==
  \A b \in rows : b["name"] = a["name"] /\ b["kind"] = a["kind"] => a["id"] <= b["id"]
Deduped(rows) ==
  {IF IsFirst(a, rows) THEN a ELSE [a EXCEPT !["name"] = Append(@, a["id"])] : a \in rows}

Retyped(rows) ==
  {IF t["type"] = "Trade" THEN [t EXCEPT !["type"] = "Stock"] ELSE t : t \in rows}

(* DROP TABLE with foreign keys on deletes the rows first, and with them    *)
(* those that refer to them by a cascading key; no row refers to those.     *)
Dropped(db, t) ==
  [u \in DOMAIN db \ {t} |->
     IF \E k \in db[u].refs : k.to = t /\ k.cascade
     THEN [db[u] EXCEPT !.rows = {}] ELSE db[u]]

(* ALTER TABLE RENAME takes the keys that refer to the table with it.       *)
Renamed(db, from, to) ==
  LET taken == [t \in (DOMAIN db \ {from}) \cup {to} |->
                  IF t = to THEN db[from] ELSE db[t]]
  IN  [t \in DOMAIN taken |->
         [taken[t] EXCEPT !.refs = {[k EXCEPT !.to = IF @ = from THEN to ELSE @] : k \in @}]]

(* Columns that exist are not added, columns that do not are not dropped.   *)
WithColumn(tab, s) ==
  IF s.col \in tab.cols THEN tab
  ELSE [cols |-> tab.cols \cup {s.col}, refs |-> tab.refs, unique |-> tab.unique,
        rows |-> {With(r, s.col, s.value) : r \in tab.rows}]
WithoutColumn(tab, col) ==
  [cols |-> tab.cols \ {col}, refs |-> tab.refs, unique |-> tab.unique,
   rows |-> {Without(r, col) : r \in tab.rows}]

(* A step that names a table the database does not have fails. *)
Applicable(db, s) ==
  CASE s.do \in {"create", "dropColumn"} -> TRUE
    [] s.do = "copy" -> /\ {s.table, s.to} \subseteq DOMAIN db
                        /\ db[s.table].cols = db[s.to].cols
    [] s.do = "rename" -> s.table \in DOMAIN db /\ s.to \notin DOMAIN db
    [] OTHER -> s.table \in DOMAIN db

Applied(db, s) ==
  CASE s.do = "create" -> IF s.table \in DOMAIN db THEN db
                          ELSE With(db, s.table, Empty(s.model))
    [] s.do = "copy" -> [db EXCEPT ![s.to].rows = @ \cup db[s.table].rows]
    [] s.do = "drop" -> Dropped(db, s.table)
    [] s.do = "rename" -> Renamed(db, s.table, s.to)
    [] s.do = "addColumn" -> [db EXCEPT ![s.table] = WithColumn(@, s)]
    [] s.do = "dropColumn" -> IF s.table \in DOMAIN db
                              THEN [db EXCEPT ![s.table] = WithoutColumn(@, s.col)]
                              ELSE db
    [] s.do = "dedupe" -> [db EXCEPT ![s.table].rows = Deduped(@)]
    [] s.do = "retype" -> [db EXCEPT ![s.table].rows = Retyped(@)]

(* The constraints SQLite enforces, at the end of every statement. *)
UniqueIn(tab) ==
  \A group \in tab.unique : \A a, b \in tab.rows :
    (\A c \in group : a[c] = b[c]) => a = b
RefsHold(db) ==
  \A t \in DOMAIN db : \A k \in db[t].refs : \A r \in db[t].rows :
    /\ k.to \in DOMAIN db
    /\ \E p \in db[k.to].rows : p["id"] = r[k.col]
Constrained(db) == (\A t \in DOMAIN db : UniqueIn(db[t])) /\ RefsHold(db)

Allowed(db, s) == Applicable(db, s) /\ Constrained(Applied(db, s))

(* The schema of a database, without its rows. *)
SchemaOf(db) ==
  [t \in DOMAIN db |-> [cols |-> db[t].cols, refs |-> db[t].refs, unique |-> db[t].unique]]
CurrentSchema == [t \in {m.table : m \in Models} |->
                    LET m == CHOOSE m \in Models : m.table = t
                    IN  [cols |-> m.cols, refs |-> m.refs, unique |-> m.unique]]
=============================================================================
