--------------------------- MODULE StoreContainer ---------------------------
(***************************************************************************)
(* The in-memory stores of MolarTracker, the database they are saved to,   *)
(* and the save pipeline of store::StoreContainer that joins them.         *)
(*                                                                         *)
(* Every entity is first created in a store under a TEMPORARY id (-2, -3,  *)
(* ...; -1 is the invalid id).  A save walks the stores in a fixed order,  *)
(* inserts every New entry, learns the row id the database gave it and     *)
(* rewrites the temporary ids that other pending entries still hold.       *)
(* Nothing encloses a save in one database transaction: the process may    *)
(* die between any two insertions.                                         *)
(*                                                                         *)
(* A table that is never deleted from is a sequence: its row ids are       *)
(* 1..Len.  Tables of which only the existence of a row matters are        *)
(* represented by their number of rows.                                    *)
(***************************************************************************)
EXTENDS Integers, Sequences, FiniteSets

CONSTANTS
  Names,        \* account names
  Currencies,
  Tickers,
  MaxTemp,      \* bound: temporary ids every sequence hands out per process
  MaxRows,      \* bound: transactions that may exist, saved or not
  MaxStarts     \* bound: times the program is started

VARIABLES
  pc,           \* "off", "idle", or the store a running save has reached
  profiles, accounts, positions, stocks, options, txs,   \* cached entries
  activeProfile,    \* ProfileStore::_activeProfile
  acctProfile,      \* AccountStore::_activeProfileId
  session,          \* AccountStore::_session
  acctRemap, posRemap,     \* BaseStore::_idRemap of the two stores
  stockMap, optionMap,     \* _instrumentIdMap of the two stores
  seq,          \* the last temporary id of every sequence
  dialog,       \* the accounts offered by an open transaction dialog
  db,           \* the database file
  backups,      \* the backup files
  starts,       \* times the program was started
  fault,        \* why the program last ended on its own
  halfDone      \* some operation was cut off midway, at some time in the past

caches   == <<profiles, accounts, positions, stocks, options, txs>>
profileV == <<activeProfile, acctProfile, session>>
remaps   == <<acctRemap, posRemap, stockMap, optionMap>>
disk     == <<db, backups, starts, fault, halfDone>>
vars     == <<pc, caches, profileV, remaps, seq, dialog, disk>>

-----------------------------------------------------------------------------
(* Ids, entries and remaps.                                                *)
(*                                                                         *)
(* A definition that no other one uses, placed right before the one it     *)
(* resembles, is that one with a plausible defect: PROJECT.json lists the  *)
(* property each of them breaks.                                           *)

NoId == -1
States == {"New", "Clean"}
UserKinds == {"Cash", "Security"}
Kinds == UserKinds \cup {"External"}
Stages == {"profile", "account", "position", "stock", "option", "tx"}
SeqNames == {"profile", "account", "position", "stock", "option", "tx", "instr"}

ASSUME StoreAssumption ==
  /\ MaxTemp \in [SeqNames -> Nat] /\ MaxRows \in Nat /\ MaxStarts \in Nat
  /\ Names # {}

Faults == {"none", "combine", "committedRef", "fkProfile", "fkAccount",
           "fkInstrument"}

Pending(S) == {e \in S : e.state = "New"}
Ids(S) == {e.id : e \in S}

(* IdSequence::next. *)
Next1(name) == seq[name] - 1
MayDraw(name) == -1 - Next1(name) <= MaxTemp[name]

EmptyRemap == [i \in {} |-> NoId]
Remap(m, i) == IF i \in DOMAIN m THEN m[i] ELSE i
ExtendForgetting(m, old, new) == [i \in {old} |-> new]
Extend(m, old, new) ==
  [i \in DOMAIN m \cup {old} |-> IF i = old THEN new ELSE m[i]]

(* The entry a commit loop inserts next: entries are visited in the order  *)
(* in which they were added, and temporary ids descend.                    *)
IsNextPending(e, S) == e \in Pending(S) /\ \A f \in Pending(S) : f.id <= e.id

(* BaseStore::_commitEntry of a New entry: the persisted value, Clean.     *)
CommittedTwice(S, old, new) == S \cup {new}
Committed(S, old, new) == (S \ {old}) \cup {new}

Rows(n) == 1..n
ProfileRows == Rows(db.profile)
InstrumentRows == Rows(db.instrument)
PositionRows == Rows(db.position)
AccountRows == DOMAIN db.account

-----------------------------------------------------------------------------
(* What the stores read from the database. *)

LoadProfiles(d) == {[id |-> i, state |-> "Clean"] : i \in Rows(d.profile)}

LoadAccountsOfAll(d, p) ==
  {[id |-> i, name |-> d.account[i].name, kind |-> d.account[i].kind,
    cur |-> d.account[i].cur, state |-> "Clean"] : i \in DOMAIN d.account}
LoadAccounts(d, p) ==
  {[id |-> i, name |-> d.account[i].name, kind |-> d.account[i].kind,
    cur |-> d.account[i].cur, state |-> "Clean"] :
      i \in {j \in DOMAIN d.account : d.account[j].profile = p}}

LoadStocks(d) ==
  {[id |-> i, instr |-> d.stock[i].instr, ticker |-> d.stock[i].ticker,
    state |-> "Clean"] : i \in DOMAIN d.stock}

(* Options are read joined with the stock row of their underlying. *)
LoadOptions(d) ==
  {[id |-> ij[1], instr |-> d.option[ij[1]].instr, und |-> d.option[ij[1]].und,
    ticker |-> d.stock[ij[2]].ticker, state |-> "Clean"] :
      ij \in {k \in (DOMAIN d.option) \X (DOMAIN d.stock) :
                 d.option[k[1]].und = d.stock[k[2]].instr}}

(* Positions are found through the trade legs of the given accounts. *)
LoadPositions(d, ids) ==
  {[id |-> d.tx[i].pos, state |-> "Clean"] :
      i \in {j \in DOMAIN d.tx : d.tx[j].pos # NoId /\ d.tx[j].accts \cap ids # {}}}

(* finance::Accounts: what the session remembers of an account. *)
Known(S) == {[id |-> a.id, kind |-> a.kind, cur |-> a.cur] : a \in S}

(* IdObjectMap::setUnchecked adds and never overwrites or clears. *)
SetUnchecked(s, S) == s \cup {k \in Known(S) : k.id \notin Ids(s)}

-----------------------------------------------------------------------------
(* The empty process, and ending it. *)

ClearedMemory ==
  /\ profiles' = {} /\ accounts' = {} /\ positions' = {}
  /\ stocks' = {} /\ options' = {} /\ txs' = {}
  /\ activeProfile' = NoId /\ acctProfile' = NoId /\ session' = {}
  /\ acctRemap' = EmptyRemap /\ posRemap' = EmptyRemap
  /\ stockMap' = EmptyRemap /\ optionMap' = EmptyRemap
  /\ seq' = [n \in SeqNames |-> NoId]
  /\ dialog' = {}

(* An exception that leaves a Qt handler ends in ExceptionDialog::showFatal *)
(* and exit(0).                                                             *)
Fatal(cause) ==
  /\ pc' = "off"
  /\ ClearedMemory
  /\ fault' = cause
  /\ halfDone' = TRUE
  /\ UNCHANGED <<db, backups, starts>>

Init ==
  /\ pc = "off"
  /\ profiles = {} /\ accounts = {} /\ positions = {}
  /\ stocks = {} /\ options = {} /\ txs = {}
  /\ activeProfile = NoId /\ acctProfile = NoId /\ session = {}
  /\ acctRemap = EmptyRemap /\ posRemap = EmptyRemap
  /\ stockMap = EmptyRemap /\ optionMap = EmptyRemap
  /\ seq = [n \in SeqNames |-> NoId]
  /\ dialog = {}
  /\ db = [profile |-> 0, account |-> << >>, position |-> 0, instrument |-> 0,
           stock |-> << >>, option |-> << >>, tx |-> << >>]
  /\ backups = {}
  /\ starts = 0
  /\ fault = "none"
  /\ halfDone = FALSE

(* The repository makes a backup, then the stores are constructed: profiles, *)
(* stocks and options are cached, accounts and positions wait for a profile. *)
Start ==
  /\ pc = "off" /\ starts < MaxStarts
  /\ pc' = "idle"
  /\ starts' = starts + 1
  /\ backups' = backups \cup {db}
  /\ profiles' = LoadProfiles(db)
  /\ stocks' = LoadStocks(db)
  /\ options' = LoadOptions(db)
  /\ fault' = "none"
  /\ UNCHANGED <<accounts, positions, txs, profileV, remaps, seq, dialog, db,
                 halfDone>>

(* The user closes the window and discards what is not saved. *)
Quit ==
  /\ pc = "idle"
  /\ pc' = "off"
  /\ ClearedMemory
  /\ UNCHANGED disk

(* The process dies during a save: between two insertions, or because one  *)
(* failed.  The two rows of a stock or of an option are separate           *)
(* statements: a death in between leaves an instrument row alone.          *)
Interrupt ==
  /\ pc \in Stages
  /\ pc' = "off"
  /\ ClearedMemory
  /\ halfDone' = TRUE
  /\ \/ db' = db
     \/ /\ \/ pc = "stock" /\ Pending(stocks) # {}
           \/ pc = "option" /\ Pending(options) # {}
        /\ db' = [db EXCEPT !.instrument = @ + 1]
  /\ UNCHANGED <<backups, starts, fault>>

-----------------------------------------------------------------------------
(* The active profile.  ActiveProfile::set notifies the account store. *)

(* AccountStore::updateActiveProfile and _refresh, with no profile id the *)
(* store keeps.                                                           *)
ActivateProfile(p) ==
  /\ activeProfile' = p
  /\ acctProfile' = p
  /\ IF p = acctProfile \/ Pending(accounts) # {}
     THEN UNCHANGED <<accounts, session>>
     ELSE /\ accounts' = LoadAccounts(db, p)
          /\ session' = SetUnchecked(session, LoadAccounts(db, p))

Running == pc = "idle" /\ activeProfile # NoId

(* EnsureProfileController: an existing profile is selected at start ... *)
SelectProfile ==
  /\ pc = "idle" /\ activeProfile = NoId
  /\ \E p \in Ids(profiles) : ActivateProfile(p)
  /\ UNCHANGED <<pc, profiles, positions, stocks, options, txs, remaps, seq,
                 dialog, disk>>

(* ... or a new one is created and becomes the active one. *)
AddProfile ==
  /\ pc = "idle" /\ activeProfile = NoId /\ MayDraw("profile")
  /\ seq' = [seq EXCEPT !["profile"] = Next1("profile")]
  /\ profiles' = profiles \cup {[id |-> Next1("profile"), state |-> "New"]}
  /\ ActivateProfile(Next1("profile"))
  /\ UNCHANGED <<pc, positions, stocks, options, txs, remaps, dialog, disk>>

-----------------------------------------------------------------------------
(* What the user creates. *)

NewAccount(i, n, k, c) ==
  [id |-> i, name |-> n, kind |-> k, cur |-> c, state |-> "New"]

HasExternalOfAnyKind(c) == \E a \in accounts : a.cur = c
HasExternal(c) == \E a \in accounts : a.kind = "External" /\ a.cur = c

(* AccountStore::createAccount.  The external account carries the name of  *)
(* its currency, which no two currencies share.                            *)
ExternalName(c) == CHOOSE n \in Names : TRUE

CreateAccount(n, k, c) ==
  /\ Running
  /\ acctProfile # NoId
  /\ ~ \E a \in accounts : a.kind = k /\ a.name = n
  /\ MayDraw("account")
  /\ LET first == Next1("account")
         last == IF k = "Cash" /\ ~ HasExternal(c) THEN first - 1 ELSE first
         added == {NewAccount(first, n, k, c)} \cup
                  {NewAccount(i, ExternalName(c), "External", c) : i \in last..(first - 1)}
     IN /\ -1 - last <= MaxTemp["account"]
        /\ accounts' = accounts \cup added
        /\ session' = SetUnchecked(session, added)
        /\ seq' = [seq EXCEPT !["account"] = last]
  /\ UNCHANGED <<pc, profiles, positions, stocks, options, txs, activeProfile,
                 acctProfile, remaps, dialog, disk>>

(* StockStore::stockExists. *)
TickerTakenUnsavedOnly(t) == \E s \in Pending(stocks) : s.ticker = t
TickerTaken(t) == \E s \in stocks : s.ticker = t

(* StockStore::addStock: tickers are unique, the instrument id comes from  *)
(* the sequence shared with the option store.                              *)
AddStock(t) ==
  /\ Running
  /\ ~ TickerTaken(t)
  /\ MayDraw("stock") /\ MayDraw("instr")
  /\ stocks' = stocks \cup {[id |-> Next1("stock"), instr |-> Next1("instr"),
                             ticker |-> t, state |-> "New"]}
  /\ seq' = [seq EXCEPT !["stock"] = Next1("stock"), !["instr"] = Next1("instr")]
  /\ UNCHANGED <<pc, profiles, accounts, positions, options, txs, profileV,
                 remaps, dialog, disk>>

(* A transaction dialog is filled with the accounts of the moment it is    *)
(* shown.  It is not modal: anything may happen while it is open.          *)
OpenDialog ==
  /\ Running
  /\ dialog' = Known({a \in accounts : a.kind # "External"})
  /\ dialog' # dialog
  /\ UNCHANGED <<pc, caches, profileV, remaps, seq, disk>>

Offered(k) == {a \in dialog : a.kind = k}

(* finance::Accounts::getCorrespondingExternalAccountId: when the session   *)
(* knows the cash account, the first external account of the session, in    *)
(* the order of a hash table.                                               *)
ExternalOf(cash) ==
  {a \in session : a.kind = "External" /\ cash.id \in Ids(session)}

CountedTxs == Len(db.tx) + Cardinality(Pending(txs))
MayAddTx == CountedTxs < MaxRows /\ MayDraw("tx")

NewTx(accts, i, p) ==
  [id |-> Next1("tx"), accts |-> accts, instr |-> i, pos |-> p, state |-> "New"]

(* Cash transaction: an entry on the cash account, one on the external. *)
CreateCashTransaction ==
  /\ Running /\ MayAddTx
  /\ \E cash \in Offered("Cash") : \E ext \in ExternalOf(cash) :
       txs' = txs \cup {NewTx({cash.id, ext.id}, NoId, NoId)}
  /\ seq' = [seq EXCEPT !["tx"] = Next1("tx")]
  /\ dialog' = {}
  /\ UNCHANGED <<pc, profiles, accounts, positions, stocks, options, profileV,
                 remaps, disk>>

(* PositionGateway::getOpenStockPosition: positions that already carry a   *)
(* trade of this stock on this account, saved or not.                      *)
TradesOf(S) == {[accts |-> t.accts, instr |-> t.instr, pos |-> t.pos] : t \in S}
OpenStockPositions(sec, instr) ==
  {t.pos : t \in {u \in TradesOf(txs) \cup {db.tx[i] : i \in DOMAIN db.tx} :
                    sec \in u.accts /\ u.instr = instr}}

(* The cash account of a trade has the currency of its security account.   *)
OfferedPairs ==
  {pair \in Offered("Cash") \X Offered("Security") : pair[1].cur = pair[2].cur}

WithPositionAlways(p) ==
  positions \cup {[id |-> Next1("position"), state |-> "New"]}
WithPosition(p) ==
  IF p = Next1("position")
  THEN positions \cup {[id |-> p, state |-> "New"]} ELSE positions

(* Every handler creates the position first; a trade whose cash account has *)
(* no external account then throws: the dialog reports it and stays open.   *)
AddTrade(cash, sec, i, p) ==
  /\ positions' = WithPosition(p)
  /\ \/ /\ \E ext \in ExternalOf(cash) :
            txs' = txs \cup {NewTx({cash.id, sec.id, ext.id}, i, p)}
       /\ dialog' = {}
       /\ UNCHANGED halfDone
     \/ /\ ExternalOf(cash) = {}
       /\ halfDone' = (halfDone \/ positions' # positions)
       /\ UNCHANGED <<txs, dialog>>

Drawn(names) ==
  [n \in SeqNames |->
     IF n \in names \ {"tx"} \/ (n \in names /\ txs' # txs) THEN Next1(n) ELSE seq[n]]

CreateStockTransaction ==
  /\ Running /\ MayAddTx /\ MayDraw("position")
  /\ \E pair \in OfferedPairs, s \in stocks :
     \E p \in OpenStockPositions(pair[2].id, s.instr) \cup {Next1("position")} :
       /\ AddTrade(pair[1], pair[2], s.instr, p)
       /\ seq' = Drawn(IF p = Next1("position") THEN {"position", "tx"} ELSE {"tx"})
  /\ UNCHANGED <<pc, profiles, accounts, stocks, options, profileV, remaps, db,
                 backups, starts, fault>>

(* OptionStore::optionExists, one contract per underlying. *)
OptionExists(s) ==
  \/ \E o \in options : o.ticker = s.ticker
  \/ \E i \in DOMAIN db.option : db.option[i].und = s.instr

(* The option, its position and the trade are created by one handler; an   *)
(* option that already exists makes it throw before anything changes.      *)
CreateOptionTransaction ==
  /\ Running /\ MayAddTx
  /\ MayDraw("option") /\ MayDraw("instr") /\ MayDraw("position")
  /\ \E pair \in OfferedPairs, s \in stocks :
       /\ ~ OptionExists(s)
       /\ options' = options \cup
            {[id |-> Next1("option"), instr |-> Next1("instr"),
              und |-> s.instr, ticker |-> s.ticker, state |-> "New"]}
       /\ AddTrade(pair[1], pair[2], Next1("instr"), Next1("position"))
  /\ seq' = Drawn({"option", "instr", "position", "tx"})
  /\ UNCHANGED <<pc, profiles, accounts, stocks, profileV, remaps, db, backups,
                 starts, fault>>

-----------------------------------------------------------------------------
(* StoreContainer::commit. *)

Save ==
  /\ Running
  /\ pc' = "profile"
  /\ UNCHANGED <<caches, profileV, remaps, seq, dialog, disk>>

SaveProfile ==
  /\ pc = "profile"
  /\ \E e \in profiles :
       /\ IsNextPending(e, profiles)
       /\ LET row == db.profile + 1
          IN /\ db' = [db EXCEPT !.profile = row]
             /\ profiles' = Committed(profiles, e, [e EXCEPT !.id = row,
                                                            !.state = "Clean"])
             /\ IF activeProfile = e.id
                THEN ActivateProfile(row)
                ELSE UNCHANGED <<accounts, profileV>>
  /\ UNCHANGED <<pc, positions, stocks, options, txs, remaps, seq, dialog,
                 backups, starts, fault, halfDone>>

ProfilesSaved ==
  /\ pc = "profile" /\ Pending(profiles) = {}
  /\ pc' = "account"
  /\ UNCHANGED <<caches, profileV, remaps, seq, dialog, disk>>

SaveAccount ==
  /\ pc = "account"
  /\ \E e \in accounts :
       /\ IsNextPending(e, accounts)
       /\ IF acctProfile \notin ProfileRows
          THEN Fatal("fkProfile")
          ELSE LET row == Len(db.account) + 1
               IN /\ db' = [db EXCEPT !.account =
                              Append(@, [profile |-> acctProfile, name |-> e.name,
                                         kind |-> e.kind, cur |-> e.cur])]
                  /\ accounts' = Committed(accounts, e, [e EXCEPT !.id = row,
                                                                 !.state = "Clean"])
                  /\ acctRemap' = Extend(acctRemap, e.id, row)
                  /\ UNCHANGED <<pc, profiles, positions, stocks, options, txs,
                                 profileV, posRemap, stockMap, optionMap, seq,
                                 dialog, backups, starts, fault, halfDone>>

(* After the loop the ids of the saved accounts join the session. *)
AccountsSaved ==
  /\ pc = "account" /\ Pending(accounts) = {}
  /\ session' = SetUnchecked(session, accounts)
  /\ pc' = "position"
  /\ UNCHANGED <<caches, activeProfile, acctProfile, remaps, seq, dialog, disk>>

SavePosition ==
  /\ pc = "position"
  /\ \E e \in positions :
       /\ IsNextPending(e, positions)
       /\ LET row == db.position + 1
          IN /\ db' = [db EXCEPT !.position = row]
             /\ positions' = Committed(positions, e, [id |-> row, state |-> "Clean"])
             /\ posRemap' = Extend(posRemap, e.id, row)
  /\ UNCHANGED <<pc, profiles, accounts, stocks, options, txs, profileV,
                 acctRemap, stockMap, optionMap, seq, dialog, backups, starts,
                 fault, halfDone>>

(* StockStore::commit returns early when it is clean, and clears its map   *)
(* of instrument ids otherwise.                                            *)
PositionsSaved ==
  /\ pc = "position" /\ Pending(positions) = {}
  /\ pc' = "stock"
  /\ stockMap' = IF Pending(stocks) = {} THEN stockMap ELSE EmptyRemap
  /\ UNCHANGED <<caches, profileV, acctRemap, posRemap, optionMap, seq, dialog,
                 disk>>

(* InstrumentRepo::addStock. *)
WithStock(d, t) ==
  [d EXCEPT !.instrument = @ + 1,
            !.stock = Append(@, [instr |-> d.instrument + 1, ticker |-> t])]

SaveStock ==
  /\ pc = "stock"
  /\ \E e \in stocks :
       /\ IsNextPending(e, stocks)
       /\ db' = WithStock(db, e.ticker)
       /\ stocks' = Committed(stocks, e, [e EXCEPT !.id = Len(db.stock) + 1,
                                                  !.instr = db.instrument + 1,
                                                  !.state = "Clean"])
       /\ stockMap' = Extend(stockMap, e.instr, db.instrument + 1)
  /\ UNCHANGED <<pc, profiles, accounts, positions, options, txs, profileV,
                 acctRemap, posRemap, optionMap, seq, dialog, backups, starts,
                 fault, halfDone>>

(* OptionStore::commit first rewrites the underlyings of pending options.  *)
RemapOption(o) ==
  IF o.state = "New" THEN [o EXCEPT !.und = Remap(stockMap, @)] ELSE o

StocksSaved ==
  /\ pc = "stock" /\ Pending(stocks) = {}
  /\ IF Pending(options) = {}
     THEN pc' = "option" /\ UNCHANGED <<caches, profileV, remaps, seq, dialog, disk>>
     ELSE IF \E o \in options \ Pending(options) : o.und \in DOMAIN stockMap
     THEN Fatal("committedRef")
     ELSE /\ options' = {RemapOption(o) : o \in options}
          /\ optionMap' = EmptyRemap
          /\ pc' = "option"
          /\ UNCHANGED <<profiles, accounts, positions, stocks, txs, profileV,
                         acctRemap, posRemap, stockMap, seq, dialog, disk>>

(* InstrumentRepo::addOption adds the underlying stock when its ticker is  *)
(* not in the database, then the instrument and the option row.            *)
SaveOption ==
  /\ pc = "option"
  /\ \E e \in options :
       /\ IsNextPending(e, options)
       /\ LET known == \E i \in DOMAIN db.stock : db.stock[i].ticker = e.ticker
              d == IF known THEN db ELSE WithStock(db, e.ticker)
              instr == d.instrument + 1
          IN IF e.und \notin Rows(d.instrument)
             THEN Fatal("fkInstrument")
             ELSE /\ db' = [d EXCEPT !.instrument = instr,
                                     !.option = Append(@, [instr |-> instr,
                                                           und |-> e.und])]
                  /\ options' = Committed(options, e,
                                  [e EXCEPT !.id = Len(db.option) + 1,
                                            !.instr = instr, !.state = "Clean"])
                  /\ optionMap' = Extend(optionMap, e.instr, instr)
                  /\ UNCHANGED <<pc, profiles, accounts, positions, stocks, txs,
                                 profileV, acctRemap, posRemap, stockMap, seq,
                                 dialog, backups, starts, fault, halfDone>>

(* IdIdMap::combine of the two instrument maps. *)
InstrumentMap ==
  [i \in DOMAIN stockMap \cup DOMAIN optionMap |->
     IF i \in DOMAIN stockMap THEN stockMap[i] ELSE optionMap[i]]

(* TransactionStore::commit rewrites the account, instrument and position  *)
(* ids of every pending transaction.                                       *)
RemapTxNoPosition(t) ==
  IF t.state = "New"
  THEN [t EXCEPT !.accts = {Remap(acctRemap, a) : a \in @},
                 !.instr = Remap(InstrumentMap, @)]
  ELSE t
RemapTx(t) ==
  IF t.state = "New"
  THEN [t EXCEPT !.accts = {Remap(acctRemap, a) : a \in @},
                 !.instr = Remap(InstrumentMap, @),
                 !.pos = Remap(posRemap, @)]
  ELSE t

(* A transaction already saved must not name an id that was just remapped. *)
NamesRemappedId(t) ==
  \/ t.accts \cap DOMAIN acctRemap # {}
  \/ t.instr \in DOMAIN InstrumentMap
  \/ t.pos \in DOMAIN posRemap

OptionsSaved ==
  /\ pc = "option" /\ Pending(options) = {}
  /\ IF DOMAIN stockMap \cap DOMAIN optionMap # {}
     THEN Fatal("combine")
     ELSE IF Pending(txs) = {}
     THEN pc' = "tx" /\ UNCHANGED <<caches, profileV, remaps, seq, dialog, disk>>
     ELSE IF \E t \in txs \ Pending(txs) : NamesRemappedId(t)
     THEN Fatal("committedRef")
     ELSE /\ txs' = {RemapTx(t) : t \in txs}
          /\ pc' = "tx"
          /\ UNCHANGED <<profiles, accounts, positions, stocks, options, profileV,
                         remaps, seq, dialog, disk>>

(* TransactionRepo::addTransaction writes all rows of a transaction in one *)
(* database transaction; the foreign keys of the entries and legs are on.  *)
SaveTx ==
  /\ pc = "tx"
  /\ \E e \in txs :
       /\ IsNextPending(e, txs)
       /\ IF ~ (e.instr \in InstrumentRows \cup {NoId} /\ e.pos \in PositionRows \cup {NoId})
          THEN Fatal("fkInstrument")
          ELSE IF ~ (e.accts \subseteq AccountRows)
          THEN Fatal("fkAccount")
          ELSE /\ db' = [db EXCEPT !.tx = Append(@, [accts |-> e.accts,
                                            instr |-> e.instr, pos |-> e.pos])]
               /\ txs' = Committed(txs, e, [e EXCEPT !.id = Len(db.tx) + 1,
                                                     !.state = "Clean"])
               /\ UNCHANGED <<pc, profiles, accounts, positions, stocks, options,
                              profileV, remaps, seq, dialog, backups, starts,
                              fault, halfDone>>

(* StoreContainer::commit ends with clearIdRemap on every store. *)
TxsSaved ==
  /\ pc = "tx" /\ Pending(txs) = {}
  /\ acctRemap' = EmptyRemap /\ posRemap' = EmptyRemap
  /\ pc' = "idle"
  /\ UNCHANGED <<caches, profileV, stockMap, optionMap, seq, dialog, disk>>

-----------------------------------------------------------------------------
(* StoreContainer::restoreFromBackup: the file is replaced and every store *)
(* reloads; the profile that is active stays active.                       *)
Restore ==
  /\ Running
  /\ \E d \in backups :
       LET accts == IF acctProfile = NoId THEN {} ELSE LoadAccounts(d, acctProfile)
       IN /\ db' = d
          /\ profiles' = LoadProfiles(d)
          /\ accounts' = accts
          /\ session' = Known(accts)
          /\ stocks' = LoadStocks(d)
          /\ options' = LoadOptions(d)
          /\ positions' = LoadPositions(d, Ids(accts))
  /\ txs' = {}
  /\ UNCHANGED <<pc, activeProfile, acctProfile, remaps, seq, dialog, backups,
                 starts, fault, halfDone>>

CreateSomeAccount ==
  \E n \in Names, k \in UserKinds, c \in Currencies : CreateAccount(n, k, c)
AddSomeStock == \E t \in Tickers : AddStock(t)

UserAction ==
  \/ SelectProfile \/ AddProfile \/ CreateSomeAccount \/ AddSomeStock
  \/ OpenDialog \/ CreateCashTransaction \/ CreateStockTransaction
  \/ CreateOptionTransaction \/ Save \/ Restore

SaveStep ==
  \/ SaveProfile \/ ProfilesSaved \/ SaveAccount \/ AccountsSaved
  \/ SavePosition \/ PositionsSaved \/ SaveStock \/ StocksSaved
  \/ SaveOption \/ OptionsSaved \/ SaveTx \/ TxsSaved

Next == Start \/ Quit \/ Interrupt \/ UserAction \/ SaveStep

Spec == Init /\ [][Next]_vars

(* A save is one synchronous call: nothing else runs until it is over. *)
FairSpec == Spec /\ WF_vars(SaveStep)

-----------------------------------------------------------------------------
(* Properties. *)

AccountEntries == [id : Int, name : Names, kind : Kinds, cur : Currencies, state : States]
StockEntries   == [id : Int, instr : Int, ticker : Tickers, state : States]
OptionEntries  == [id : Int, instr : Int, und : Int, ticker : Tickers, state : States]
TxEntries      == [id : Int, accts : SUBSET Int, instr : Int, pos : Int, state : States]
AccountRecords == [profile : Int, name : Names, kind : Kinds, cur : Currencies]
StockRecords   == [instr : Int, ticker : Tickers]
OptionRecords  == [instr : Int, und : Int]
TxRecords      == [accts : SUBSET Int, instr : Int, pos : Int]
Databases ==
  [profile : Nat, position : Nat, instrument : Nat,
   account : Seq(AccountRecords), stock : Seq(StockRecords),
   option : Seq(OptionRecords), tx : Seq(TxRecords)]
IsRemap(m) == DOMAIN m \subseteq Int /\ \A i \in DOMAIN m : m[i] \in Nat

(* Every variable has its type. *)
TypeOK ==
  /\ pc \in Stages \cup {"off", "idle"}
  /\ profiles \subseteq [id : Int, state : States]
  /\ accounts \subseteq AccountEntries
  /\ positions \subseteq [id : Int, state : States]
  /\ stocks \subseteq StockEntries
  /\ options \subseteq OptionEntries
  /\ txs \subseteq TxEntries
  /\ activeProfile \in Int /\ acctProfile \in Int
  /\ session \subseteq [id : Int, kind : Kinds, cur : Currencies]
  /\ dialog \subseteq [id : Int, kind : Kinds, cur : Currencies]
  /\ IsRemap(acctRemap) /\ IsRemap(posRemap)
  /\ IsRemap(stockMap) /\ IsRemap(optionMap)
  /\ seq \in [SeqNames -> Int]
  /\ db \in Databases /\ backups \subseteq Databases
  /\ starts \in Nat /\ fault \in Faults /\ halfDone \in BOOLEAN

(* A save never trips over its own bookkeeping: the instrument maps of the *)
(* stock and the option store never share a key, no saved transaction or   *)
(* option names an id that was just remapped, and no option or transaction *)
(* reaches the database while it still names an instrument or a position   *)
(* that is not a row (StoreContainer::commit, TransactionStore::commit).   *)
NoInternalFault == fault \notin {"combine", "committedRef", "fkInstrument"}

(* Why it holds.  The references that a save can still turn into rows:     *)
(* those of rows, of entries the save has yet to reach, and of entries it  *)
(* has passed, which the maps it has filled since lead to rows.            *)
StockTemps == {s.instr : s \in Pending(stocks)}
OptionTemps == {o.instr : o \in Pending(options)}
Resolved(m, rows) == {i \in DOMAIN m : m[i] \in rows}

UnderlyingRefs ==
  InstrumentRows \cup StockTemps \cup
  (IF pc = "stock" THEN Resolved(stockMap, InstrumentRows) ELSE {})
InstrumentRefs ==
  {NoId} \cup InstrumentRows \cup StockTemps \cup OptionTemps \cup
  (IF pc \in {"stock", "option"} THEN Resolved(stockMap, InstrumentRows) ELSE {}) \cup
  (IF pc = "option" THEN Resolved(optionMap, InstrumentRows) ELSE {})
PositionRefs ==
  {NoId} \cup PositionRows \cup Ids(Pending(positions)) \cup
  (IF pc = "tx" THEN {} ELSE Resolved(posRemap, PositionRows))

(* Whatever is pending, at rest or in the middle of a save, names only      *)
(* underlyings, instruments and positions that the rest of the save turns   *)
(* into rows: no order of creating, saving and restoring leaves a dangling  *)
(* reference (OptionStore::commit, TransactionStore::commit).               *)
PendingResolves ==
  /\ \A o \in Pending(options) : o.und \in UnderlyingRefs
  /\ \A t \in Pending(txs) : t.instr \in InstrumentRefs /\ t.pos \in PositionRefs

(* A save leaves no pending entry in a store it has passed. *)
StagesInOrder ==
  /\ pc \in {"stock", "option", "tx"} => Pending(positions) = {}
  /\ pc \in {"option", "tx"} => Pending(stocks) = {}
  /\ pc = "tx" => Pending(options) = {}
  /\ pc = "off" => txs = {}

(* Temporary ids lie below NoId and not below the sequence that drew them. *)
TempIds == {i \in Int : i < NoId}
InstrTemps == {i \in TempIds : seq["instr"] <= i}
TempsInRange ==
  /\ \A n \in SeqNames : seq[n] <= NoId
  /\ Ids(Pending(accounts)) \subseteq TempIds /\ DOMAIN acctRemap \subseteq TempIds
  /\ Ids(Pending(positions)) \subseteq TempIds /\ DOMAIN posRemap \subseteq TempIds
  /\ StockTemps \subseteq InstrTemps /\ DOMAIN stockMap \subseteq InstrTemps
  /\ OptionTemps \subseteq InstrTemps /\ DOMAIN optionMap \subseteq InstrTemps

(* The stock and the option store draw from one sequence, so that no id is *)
(* ever known to both.                                                      *)
MapsDisjoint ==
  (StockTemps \cup DOMAIN stockMap) \cap (OptionTemps \cup DOMAIN optionMap) = {}

(* What is saved refers to rows only, in memory and in every file. *)
FileSound(d) ==
  /\ \A i \in DOMAIN d.stock : d.stock[i].instr \in Rows(d.instrument)
  /\ \A i \in DOMAIN d.option : d.option[i].und \in Rows(d.instrument)
  /\ \A i \in DOMAIN d.tx : d.tx[i].pos \in {NoId} \cup Rows(d.position)
CleanSound ==
  /\ \A s \in stocks \ Pending(stocks) : s.instr \in InstrumentRows
  /\ \A o \in options \ Pending(options) : o.und \in InstrumentRows
  /\ \A t \in txs \ Pending(txs) :
       /\ \A a \in t.accts : a > NoId
       /\ t.instr \in {NoId} \cup InstrumentRows
       /\ t.pos \in {NoId} \cup PositionRows

Consistent ==
  /\ TypeOK /\ NoInternalFault /\ PendingResolves /\ StagesInOrder
  /\ TempsInRange /\ MapsDisjoint /\ CleanSound
  /\ \A d \in backups \cup {db} : FileSound(d)

(* An entry that is Clean equals its database row: no step of a save, of a *)
(* profile change or of a restore leaves a cached value the file does not  *)
(* have (BaseStore::_commitEntry, reload).                                 *)
CacheMirrorsDb ==
  /\ \A a \in accounts \ Pending(accounts) :
       /\ a.id \in AccountRows
       /\ db.account[a.id] = [profile |-> acctProfile, name |-> a.name,
                              kind |-> a.kind, cur |-> a.cur]
  /\ \A s \in stocks \ Pending(stocks) :
       s.id \in DOMAIN db.stock /\ db.stock[s.id] = [instr |-> s.instr, ticker |-> s.ticker]
  /\ \A o \in options \ Pending(options) :
       o.id \in DOMAIN db.option /\ db.option[o.id] = [instr |-> o.instr, und |-> o.und]
  /\ \A t \in txs \ Pending(txs) :
       t.id \in DOMAIN db.tx /\ db.tx[t.id] \in TradesOf({t})

(* The database never holds two stocks of one ticker, two options of one   *)
(* contract, or two accounts of one profile with the same kind and name,   *)
(* whatever was interrupted, restored or retried.  The uniqueness checks   *)
(* look at caches only (addStock, optionExists, createAccount).            *)
SameAccount(a, b) ==
  /\ a.profile = b.profile /\ a.kind = b.kind
  /\ IF a.kind = "External" THEN a.cur = b.cur ELSE a.name = b.name
DbUnique ==
  /\ \A i, j \in DOMAIN db.stock : db.stock[i].ticker = db.stock[j].ticker => i = j
  /\ \A i, j \in DOMAIN db.option : db.option[i].und = db.option[j].und => i = j
  /\ \A i, j \in AccountRows : SameAccount(db.account[i], db.account[j]) => i = j

(* Unless some operation was cut off midway, every saved position carries a *)
(* trade and every instrument row belongs to a stock or an option.          *)
NoOrphans ==
  ~ halfDone /\ pc \in {"idle", "off"} =>
    /\ \A p \in PositionRows : \E i \in DOMAIN db.tx : db.tx[i].pos = p
    /\ \A n \in InstrumentRows :
         \/ \E i \in DOMAIN db.stock : db.stock[i].instr = n
         \/ \E i \in DOMAIN db.option : db.option[i].instr = n

(* Unless some operation was cut off midway, every cash account of the     *)
(* session has an external account of its currency, so that a transaction  *)
(* on it can be booked (createAccount, SaveAccount, reload).               *)
CashHasExternal ==
  ~ halfDone =>
    \A a \in session : a.kind = "Cash" =>
      \E b \in session : b.kind = "External" /\ b.cur = a.cur

(* A running save neither loses nor repeats an entry: what it takes out of *)
(* the pending entries of a store is what it adds to the table.            *)
Total(table, S) == table + Cardinality(Pending(S))
SaveConserves ==
  [][(pc \in Stages /\ pc' # "off") =>
       /\ Total(db.profile, profiles)' = Total(db.profile, profiles)
       /\ Total(Len(db.account), accounts)' = Total(Len(db.account), accounts)
       /\ Total(db.position, positions)' = Total(db.position, positions)
       /\ Total(Len(db.stock), stocks)' = Total(Len(db.stock), stocks)
       /\ Total(Len(db.option), options)' = Total(Len(db.option), options)
       /\ Total(Len(db.tx), txs)' = Total(Len(db.tx), txs)]_vars

(* The accounts a pending transaction names can all be turned into rows.   *)
Bookable(t) ==
  t.accts \subseteq AccountRows \cup Ids(Pending(accounts)) \cup DOMAIN acctRemap

(* A pending transaction that could be booked when it was entered can be    *)
(* booked until it is: no step of a save takes an account id away from it.  *)
StaysBookable ==
  [][\A t \in Pending(txs), u \in txs' :
       Bookable(t) /\ u.id = t.id => Bookable(u)']_vars

(* A save that starts with every account known and the active profile in   *)
(* the profile store ends with nothing pending, unless it is interrupted.  *)
Saveable ==
  /\ activeProfile \in Ids(profiles)
  /\ \A t \in Pending(txs) : Bookable(t)
AllClean ==
  /\ Pending(profiles) = {} /\ Pending(accounts) = {} /\ Pending(positions) = {}
  /\ Pending(stocks) = {} /\ Pending(options) = {} /\ Pending(txs) = {}
SaveSucceeds ==
  (pc = "profile" /\ Saveable) ~> (pc = "idle" /\ AllClean) \/ (halfDone /\ fault = "none")
=============================================================================
