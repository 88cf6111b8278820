------------------------ MODULE StoreContainerProofs ------------------------
(***************************************************************************)
(* What is proved of StoreContainer for every set of names, currencies and *)
(* tickers and for every bound: type correctness; Core, that whatever is   *)
(* pending can be turned into rows; and Mirror, that caches and file agree *)
(* and that a save neither loses nor repeats an entry.                     *)
(***************************************************************************)
EXTENDS StoreContainerMirror, FiniteSetTheorems, TLAPS

-----------------------------------------------------------------------------
(* Types of what the operators return. *)

(* Every cache a store loads from a database file has well-typed entries. *)
LEMMA LoadTypes ==
  ASSUME NEW d \in Databases, NEW p \in Int
  PROVE  /\ LoadProfiles(d) \subseteq [id : Int, state : States]
         /\ LoadAccounts(d, p) \subseteq AccountEntries
         /\ LoadStocks(d) \subseteq StockEntries
         /\ LoadOptions(d) \subseteq OptionEntries
<1>1. LoadProfiles(d) \subseteq [id : Int, state : States]
  BY DEF LoadProfiles, Databases, Rows, States
<1>2. LoadAccounts(d, p) \subseteq AccountEntries
  <2> SUFFICES ASSUME NEW i \in DOMAIN d.account
               PROVE  [id |-> i, name |-> d.account[i].name,
                       kind |-> d.account[i].kind, cur |-> d.account[i].cur,
                       state |-> "Clean"] \in AccountEntries
    BY DEF LoadAccounts
  <2>1. i \in Int /\ d.account[i] \in AccountRecords
    BY DEF Databases
  <2> QED BY <2>1 DEF AccountRecords, AccountEntries, States
<1>3. LoadStocks(d) \subseteq StockEntries
  <2> SUFFICES ASSUME NEW i \in DOMAIN d.stock
               PROVE  [id |-> i, instr |-> d.stock[i].instr,
                       ticker |-> d.stock[i].ticker, state |-> "Clean"] \in StockEntries
    BY DEF LoadStocks
  <2>1. i \in Int /\ d.stock[i] \in StockRecords
    BY DEF Databases
  <2> QED BY <2>1 DEF StockRecords, StockEntries, States
<1>4. LoadOptions(d) \subseteq OptionEntries
  <2> SUFFICES ASSUME NEW k \in (DOMAIN d.option) \X (DOMAIN d.stock)
               PROVE  [id |-> k[1], instr |-> d.option[k[1]].instr,
                       und |-> d.option[k[1]].und, ticker |-> d.stock[k[2]].ticker,
                       state |-> "Clean"] \in OptionEntries
    BY DEF LoadOptions
  <2>1. /\ k[1] \in Int /\ d.option[k[1]] \in OptionRecords
        /\ d.stock[k[2]] \in StockRecords
    BY DEF Databases
  <2> QED BY <2>1 DEF OptionRecords, StockRecords, OptionEntries, States
<1> QED BY <1>1, <1>2, <1>3, <1>4

(* The positions found through the trades of some accounts are well typed. *)
LEMMA LoadPositionsType ==
  ASSUME NEW d \in Databases, NEW ids
  PROVE  LoadPositions(d, ids) \subseteq [id : Int, state : States]
<1>1. \A j \in DOMAIN d.tx : d.tx[j] \in TxRecords
  BY DEF Databases
<1> QED BY <1>1 DEF LoadPositions, TxRecords, States

(* The session keeps its type when accounts join it. *)
LEMMA SetUncheckedType ==
  ASSUME NEW s, s \subseteq [id : Int, kind : Kinds, cur : Currencies],
         NEW S, S \subseteq AccountEntries
  PROVE  /\ Known(S) \subseteq [id : Int, kind : Kinds, cur : Currencies]
         /\ SetUnchecked(s, S) \subseteq [id : Int, kind : Kinds, cur : Currencies]
BY DEF SetUnchecked, Known, AccountEntries

(* A remap stays a map from ids to rows when a row is added to it. *)
LEMMA ExtendType ==
  ASSUME NEW m, IsRemap(m), NEW old \in Int, NEW new \in Nat
  PROVE  IsRemap(Extend(m, old, new))
BY DEF IsRemap, Extend

LEMMA EmptyRemapType == IsRemap(EmptyRemap)
BY DEF IsRemap, EmptyRemap

(* A remapped id is an id. *)
LEMMA RemapType ==
  ASSUME NEW m, IsRemap(m), NEW i \in Int
  PROVE  Remap(m, i) \in Int
BY DEF IsRemap, Remap

-----------------------------------------------------------------------------
(* Rows added to the file. *)

LEMMA DbFields ==
  ASSUME NEW A, NEW S, NEW O, NEW T,
         NEW d \in [profile : Nat, position : Nat, instrument : Nat,
                    account : A, stock : S, option : O, tx : T]
  PROVE  LET D == [profile : Nat, position : Nat, instrument : Nat,
                   account : A, stock : S, option : O, tx : T]
         IN /\ \A n \in Nat : /\ [d EXCEPT !.profile = n] \in D
                              /\ [d EXCEPT !.position = n] \in D
                              /\ [d EXCEPT !.instrument = n] \in D
            /\ \A a \in A : [d EXCEPT !.account = a] \in D
            /\ \A t \in T : [d EXCEPT !.tx = t] \in D
            /\ \A n \in Nat, s \in S : [d EXCEPT !.instrument = n, !.stock = s] \in D
            /\ \A n \in Nat, o \in O : [d EXCEPT !.instrument = n, !.option = o] \in D
OBVIOUS

(* Every row a save adds leaves a well-typed file. *)
LEMMA DbTypes ==
  ASSUME NEW d \in Databases
  PROVE  /\ [d EXCEPT !.profile = d.profile + 1] \in Databases
         /\ [d EXCEPT !.position = d.position + 1] \in Databases
         /\ [d EXCEPT !.instrument = @ + 1] \in Databases
         /\ \A r \in AccountRecords : [d EXCEPT !.account = Append(@, r)] \in Databases
         /\ \A r \in TxRecords : [d EXCEPT !.tx = Append(@, r)] \in Databases
         /\ \A t \in Tickers : WithStock(d, t) \in Databases
         /\ \A r \in OptionRecords :
              [d EXCEPT !.instrument = @ + 1, !.option = Append(@, r)] \in Databases
<1>1. /\ d.profile \in Nat /\ d.position \in Nat /\ d.instrument \in Nat
      /\ d.account \in Seq(AccountRecords) /\ d.stock \in Seq(StockRecords)
      /\ d.option \in Seq(OptionRecords) /\ d.tx \in Seq(TxRecords)
  BY DEF Databases
<1>2. ASSUME NEW r \in AccountRecords
      PROVE  [d EXCEPT !.account = Append(@, r)] \in Databases
  <2>1. Append(d.account, r) \in Seq(AccountRecords)
    BY <1>1
  <2> QED BY <1>1, <2>1, DbFields DEF Databases
<1>3. ASSUME NEW r \in TxRecords
      PROVE  [d EXCEPT !.tx = Append(@, r)] \in Databases
  <2>1. Append(d.tx, r) \in Seq(TxRecords)
    BY <1>1
  <2> QED BY <1>1, <2>1, DbFields DEF Databases
<1>4. ASSUME NEW t \in Tickers PROVE WithStock(d, t) \in Databases
  <2> DEFINE rows == Append(d.stock, [instr |-> d.instrument + 1, ticker |-> t])
  <2>1. rows \in Seq(StockRecords) /\ d.instrument + 1 \in Nat
    BY <1>1 DEF StockRecords
  <2>2. WithStock(d, t) = [d EXCEPT !.instrument = d.instrument + 1, !.stock = rows]
    BY DEF WithStock
  <2> HIDE DEF rows
  <2>3. [d EXCEPT !.instrument = d.instrument + 1, !.stock = rows] \in Databases
    BY <2>1, DbFields DEF Databases
  <2> QED BY <2>2, <2>3
<1>5. ASSUME NEW r \in OptionRecords
      PROVE  [d EXCEPT !.instrument = @ + 1, !.option = Append(@, r)] \in Databases
  <2> DEFINE rows == Append(d.option, r)
  <2>1. rows \in Seq(OptionRecords) /\ d.instrument + 1 \in Nat
    BY <1>1
  <2> HIDE DEF rows
  <2>2. [d EXCEPT !.instrument = d.instrument + 1, !.option = rows] \in Databases
    BY <2>1, DbFields DEF Databases
  <2> QED BY <2>2 DEF rows
<1>6. /\ [d EXCEPT !.profile = d.profile + 1] \in Databases
      /\ [d EXCEPT !.position = d.position + 1] \in Databases
      /\ [d EXCEPT !.instrument = @ + 1] \in Databases
  <2>1. d.profile + 1 \in Nat /\ d.position + 1 \in Nat /\ d.instrument + 1 \in Nat
    BY <1>1
  <2> QED BY <2>1, DbFields DEF Databases
<1> QED BY <1>2, <1>3, <1>4, <1>5, <1>6

-----------------------------------------------------------------------------
(* Type correctness. *)

LEMMA InitType == Init => TypeOK
<1> SUFFICES ASSUME Init PROVE TypeOK
  OBVIOUS
<1>1. db \in Databases
  BY DEF Init, Databases
<1>2. seq \in [SeqNames -> Int]
  BY DEF Init, NoId
<1>3. /\ IsRemap(acctRemap) /\ IsRemap(posRemap)
      /\ IsRemap(stockMap) /\ IsRemap(optionMap)
  BY EmptyRemapType DEF Init
<1>4. /\ profiles = {} /\ accounts = {} /\ positions = {} /\ stocks = {}
      /\ options = {} /\ txs = {} /\ session = {} /\ dialog = {} /\ backups = {}
      /\ pc = "off" /\ activeProfile = -1 /\ acctProfile = -1 /\ starts = 0
      /\ fault = "none" /\ halfDone = FALSE
  BY DEF Init, NoId
<1>5. /\ pc \in Stages \cup {"off", "idle"} /\ activeProfile \in Int /\ acctProfile \in Int
      /\ starts \in Nat /\ fault \in Faults
  BY <1>4 DEF Faults
<1>6. halfDone \in BOOLEAN
  BY <1>4
<1>7. /\ profiles \subseteq [id : Int, state : States]
      /\ accounts \subseteq AccountEntries
      /\ positions \subseteq [id : Int, state : States]
      /\ stocks \subseteq StockEntries
      /\ options \subseteq OptionEntries
      /\ txs \subseteq TxEntries
      /\ session \subseteq [id : Int, kind : Kinds, cur : Currencies]
      /\ dialog \subseteq [id : Int, kind : Kinds, cur : Currencies]
      /\ backups \subseteq Databases
  BY <1>4
<1> QED BY <1>1, <1>2, <1>3, <1>5, <1>6, <1>7 DEF TypeOK

(* Forgetting everything in memory leaves well-typed variables. *)
LEMMA ClearedType ==
  ASSUME TypeOK, ClearedMemory,
         pc' \in Stages \cup {"off", "idle"}, db' \in Databases,
         backups' \subseteq Databases, starts' \in Nat, fault' \in Faults,
         halfDone' \in BOOLEAN
  PROVE  TypeOK'
<1>1. seq' \in [SeqNames -> Int]
  BY DEF ClearedMemory, NoId
<1>2. /\ IsRemap(acctRemap') /\ IsRemap(posRemap')
      /\ IsRemap(stockMap') /\ IsRemap(optionMap')
  BY EmptyRemapType DEF ClearedMemory
<1> QED BY <1>1, <1>2 DEF ClearedMemory, TypeOK, NoId

LEMMA FatalType ==
  ASSUME TypeOK, NEW cause \in Faults, Fatal(cause)
  PROVE  TypeOK'
BY ClearedType DEF Fatal, TypeOK, disk

LEMMA ActivateType ==
  ASSUME TypeOK, NEW p \in Int, ActivateProfile(p)
  PROVE  /\ activeProfile' \in Int /\ acctProfile' \in Int
         /\ accounts' \subseteq AccountEntries
         /\ session' \subseteq [id : Int, kind : Kinds, cur : Currencies]
<1>1. /\ accounts \subseteq AccountEntries
      /\ session \subseteq [id : Int, kind : Kinds, cur : Currencies]
      /\ db \in Databases
  BY DEF TypeOK
<1>2. /\ LoadAccounts(db, p) \subseteq AccountEntries
      /\ SetUnchecked(session, LoadAccounts(db, p))
           \subseteq [id : Int, kind : Kinds, cur : Currencies]
  BY <1>1, LoadTypes, SetUncheckedType
<1> QED BY <1>1, <1>2 DEF ActivateProfile

LEMMA NextIdType == TypeOK => \A n \in SeqNames : Next1(n) \in Int
BY DEF TypeOK, Next1

LEMMA IdTypes ==
  TypeOK => /\ NoId \in Int
            /\ Ids(profiles) \subseteq Int /\ Ids(accounts) \subseteq Int
BY DEF TypeOK, NoId, Ids, AccountEntries

(* Starting, ending and interrupting the process. *)
LEMMA LifeType ==
  ASSUME TypeOK, Start \/ Quit \/ Interrupt
  PROVE  TypeOK'
<1>1. CASE Start
  <2>1. db \in Databases /\ NoId \in Int
    BY DEF TypeOK, NoId
  <2>2. /\ LoadProfiles(db) \subseteq [id : Int, state : States]
        /\ LoadStocks(db) \subseteq StockEntries
        /\ LoadOptions(db) \subseteq OptionEntries
    BY <2>1, LoadTypes
  <2> QED BY <1>1, <2>1, <2>2 DEF Start, TypeOK, profileV, remaps, Faults
<1>2. CASE Quit
  BY <1>2, ClearedType DEF Quit, TypeOK, disk
<1>3. CASE Interrupt
  <2>1. db' \in Databases
    BY <1>3, DbTypes DEF Interrupt, TypeOK
  <2> QED BY <1>3, <2>1, ClearedType DEF Interrupt, TypeOK
<1> QED BY <1>1, <1>2, <1>3

(* A trade, booked or refused, leaves well-typed stores. *)
LEMMA AddTradeType ==
  ASSUME TypeOK, NEW cash, NEW sec, cash.id \in Int, sec.id \in Int,
         NEW i \in Int, NEW p \in Int, AddTrade(cash, sec, i, p)
  PROVE  /\ txs' \subseteq TxEntries
         /\ positions' \subseteq [id : Int, state : States]
         /\ dialog' \subseteq [id : Int, kind : Kinds, cur : Currencies]
         /\ halfDone' \in BOOLEAN
<1>1. positions' \subseteq [id : Int, state : States]
  BY DEF AddTrade, WithPosition, TypeOK, States
<1>2. halfDone' \in BOOLEAN
  BY DEF AddTrade, TypeOK
<1>3. dialog' \subseteq [id : Int, kind : Kinds, cur : Currencies]
  BY DEF AddTrade, TypeOK
<1>4. txs' \subseteq TxEntries
  <2>1. Next1("tx") \in Int
    BY NextIdType DEF SeqNames
  <2>2. ASSUME NEW ext \in ExternalOf(cash)
        PROVE  NewTx({cash.id, sec.id, ext.id}, i, p) \in TxEntries
    BY <2>1 DEF ExternalOf, TypeOK, NewTx, TxEntries, States
  <2>3. txs \subseteq TxEntries
    BY DEF TypeOK
  <2>4. \/ txs' = txs
        \/ \E ext \in ExternalOf(cash) :
             txs' = txs \cup {NewTx({cash.id, sec.id, ext.id}, i, p)}
    BY DEF AddTrade
  <2>5. CASE txs' = txs
    BY <2>3, <2>5
  <2>6. ASSUME NEW ext \in ExternalOf(cash),
               txs' = txs \cup {NewTx({cash.id, sec.id, ext.id}, i, p)}
        PROVE  txs' \subseteq TxEntries
    <3> DEFINE t == NewTx({cash.id, sec.id, ext.id}, i, p)
    <3>1. t \in TxEntries
      BY <2>2
    <3> HIDE DEF t
    <3> QED BY <2>3, <2>6, <3>1 DEF t
  <2> QED BY <2>4, <2>5, <2>6
<1> QED BY <1>1, <1>2, <1>3, <1>4

LEMMA DrawnType ==
  ASSUME TypeOK, NEW names, \A n \in SeqNames : Next1(n) \in Int
  PROVE  Drawn(names) \in [SeqNames -> Int]
BY DEF TypeOK, Drawn

LEMMA OpenPositionType ==
  ASSUME TypeOK, NEW sec, NEW instr
  PROVE  OpenStockPositions(sec, instr) \subseteq Int
<1>1. \A j \in DOMAIN db.tx : db.tx[j].pos \in Int
  <2>1. db.tx \in Seq(TxRecords)
    BY DEF TypeOK, Databases
  <2>2. \A j \in DOMAIN db.tx : db.tx[j] \in TxRecords
    BY <2>1
  <2> QED BY <2>2 DEF TxRecords
<1>2. \A t \in txs : t.pos \in Int
  BY DEF TypeOK, TxEntries
<1> QED BY <1>1, <1>2 DEF OpenStockPositions, TradesOf

(* What the user does between two saves. *)
LEMMA UserType ==
  ASSUME TypeOK, UserAction
  PROVE  TypeOK'
<1> USE DEF caches, profileV, remaps, disk
<1>0. /\ \A n \in SeqNames : Next1(n) \in Int
      /\ Ids(profiles) \subseteq Int
  BY NextIdType, IdTypes
<1>1. CASE SelectProfile
  BY <1>0, <1>1, ActivateType DEF SelectProfile, TypeOK
<1>2. CASE AddProfile
  <2>1. Next1("profile") \in Int
    BY <1>0 DEF SeqNames
  <2>2. profiles' \subseteq [id : Int, state : States]
    BY <1>2, <2>1 DEF AddProfile, TypeOK, States
  <2>3. seq' \in [SeqNames -> Int]
    BY <1>2, <2>1 DEF AddProfile, TypeOK
  <2> QED BY <1>2, <2>1, <2>2, <2>3, ActivateType DEF AddProfile, TypeOK
<1>3. CASE CreateSomeAccount
  <2>1. PICK n \in Names, k \in UserKinds, c \in Currencies : CreateAccount(n, k, c)
    BY <1>3 DEF CreateSomeAccount
  <2> DEFINE first == Next1("account")
             last == IF k = "Cash" /\ ~ HasExternal(c) THEN first - 1 ELSE first
             added == {NewAccount(first, n, k, c)} \cup
               {NewAccount(i, ExternalName(c), "External", c) : i \in last..(first - 1)}
  <2>2. first \in Int /\ last \in Int
    BY <1>0 DEF SeqNames
  <2>3. ExternalName(c) \in Names
    BY StoreAssumption DEF ExternalName
  <2>4. added \subseteq AccountEntries
    BY <2>2, <2>3 DEF NewAccount, AccountEntries, Kinds, UserKinds, States
  <2>6. /\ accounts' = accounts \cup added
        /\ session' = SetUnchecked(session, added)
        /\ seq' = [seq EXCEPT !["account"] = last]
    BY <2>1 DEF CreateAccount
  <2> HIDE DEF added, first, last
  <2>7. seq' \in [SeqNames -> Int]
    BY <2>2, <2>6 DEF TypeOK
  <2>8. session' \subseteq [id : Int, kind : Kinds, cur : Currencies]
    BY <2>4, <2>6, SetUncheckedType DEF TypeOK
  <2> QED BY <2>1, <2>4, <2>6, <2>7, <2>8 DEF CreateAccount, TypeOK
<1>4. CASE AddSomeStock
  <2>1. PICK t \in Tickers : AddStock(t)
    BY <1>4 DEF AddSomeStock
  <2>2. Next1("stock") \in Int /\ Next1("instr") \in Int
    BY <1>0 DEF SeqNames
  <2>3. seq' \in [SeqNames -> Int]
    BY <2>1, <2>2 DEF AddStock, TypeOK
  <2>4. stocks' \subseteq StockEntries
    BY <2>1, <2>2 DEF AddStock, TypeOK, StockEntries, States
  <2> QED BY <2>1, <2>3, <2>4 DEF AddStock, TypeOK
<1>5. CASE OpenDialog
  <2>1. dialog' \subseteq [id : Int, kind : Kinds, cur : Currencies]
    BY <1>5 DEF OpenDialog, TypeOK, Known, AccountEntries
  <2> QED BY <1>5, <2>1 DEF OpenDialog, TypeOK
<1>6. CASE CreateCashTransaction
  <2>0. PICK cash \in Offered("Cash") : \E ext \in ExternalOf(cash) :
          txs' = txs \cup {NewTx({cash.id, ext.id}, NoId, NoId)}
    BY <1>6 DEF CreateCashTransaction
  <2>1. PICK ext \in ExternalOf(cash) :
          txs' = txs \cup {NewTx({cash.id, ext.id}, NoId, NoId)}
    BY <2>0
  <2>2. cash.id \in Int /\ ext.id \in Int /\ NoId \in Int
    BY <2>1 DEF Offered, ExternalOf, TypeOK, NoId
  <2>3. Next1("tx") \in Int
    BY <1>0 DEF SeqNames
  <2>4. txs' \subseteq TxEntries
    BY <2>1, <2>2, <2>3 DEF NewTx, TxEntries, TypeOK, States
  <2>5. seq' \in [SeqNames -> Int]
    BY <1>6, <2>3 DEF CreateCashTransaction, TypeOK
  <2> QED BY <1>6, <2>4, <2>5 DEF CreateCashTransaction, TypeOK
<1>7. CASE CreateStockTransaction
  <2>1. PICK pair \in OfferedPairs, s \in stocks : \E p \in
               OpenStockPositions(pair[2].id, s.instr) \cup {Next1("position")} :
          /\ AddTrade(pair[1], pair[2], s.instr, p)
          /\ seq' = Drawn(IF p = Next1("position") THEN {"position", "tx"} ELSE {"tx"})
    BY <1>7 DEF CreateStockTransaction
  <2>2. PICK p \in OpenStockPositions(pair[2].id, s.instr) \cup {Next1("position")} :
          /\ AddTrade(pair[1], pair[2], s.instr, p)
          /\ seq' = Drawn(IF p = Next1("position") THEN {"position", "tx"} ELSE {"tx"})
    BY <2>1
  <2>3. p \in Int
    BY <1>0, OpenPositionType DEF SeqNames
  <2>4. pair[1].id \in Int /\ pair[2].id \in Int /\ s.instr \in Int
    BY DEF OfferedPairs, Offered, TypeOK, StockEntries
  <2>5. /\ txs' \subseteq TxEntries
        /\ positions' \subseteq [id : Int, state : States]
        /\ dialog' \subseteq [id : Int, kind : Kinds, cur : Currencies]
        /\ halfDone' \in BOOLEAN
    BY <2>2, <2>3, <2>4, AddTradeType
  <2>6. seq' \in [SeqNames -> Int]
    BY <1>0, <2>2, DrawnType
  <2> QED BY <1>7, <2>5, <2>6 DEF CreateStockTransaction, TypeOK
<1>8. CASE CreateOptionTransaction
  <2>1. PICK pair \in OfferedPairs, s \in stocks :
          /\ options' = options \cup
               {[id |-> Next1("option"), instr |-> Next1("instr"),
                 und |-> s.instr, ticker |-> s.ticker, state |-> "New"]}
          /\ AddTrade(pair[1], pair[2], Next1("instr"), Next1("position"))
    BY <1>8 DEF CreateOptionTransaction
  <2>2. /\ Next1("option") \in Int /\ Next1("instr") \in Int
        /\ Next1("position") \in Int
    BY <1>0 DEF SeqNames
  <2>3. pair[1].id \in Int /\ pair[2].id \in Int
    BY DEF OfferedPairs, Offered, TypeOK
  <2>4. options' \subseteq OptionEntries
    BY <2>1, <2>2 DEF TypeOK, StockEntries, OptionEntries, States
  <2>5. /\ txs' \subseteq TxEntries
        /\ positions' \subseteq [id : Int, state : States]
        /\ dialog' \subseteq [id : Int, kind : Kinds, cur : Currencies]
        /\ halfDone' \in BOOLEAN
    BY <2>1, <2>2, <2>3, AddTradeType
  <2>6. seq' \in [SeqNames -> Int]
    BY <1>0, <1>8, DrawnType DEF CreateOptionTransaction
  <2> QED BY <1>8, <2>4, <2>5, <2>6 DEF CreateOptionTransaction, TypeOK
<1>9. CASE Save
  BY <1>9 DEF Save, TypeOK, Stages
<1>10. CASE Restore
  <2>1. PICK d \in backups :
          LET accts == IF acctProfile = NoId THEN {} ELSE LoadAccounts(d, acctProfile)
          IN /\ db' = d
             /\ profiles' = LoadProfiles(d)
             /\ accounts' = accts
             /\ session' = Known(accts)
             /\ stocks' = LoadStocks(d)
             /\ options' = LoadOptions(d)
             /\ positions' = LoadPositions(d, Ids(accts))
    BY <1>10 DEF Restore
  <2>2. d \in Databases /\ acctProfile \in Int
    BY DEF TypeOK
  <2>3. /\ profiles' \subseteq [id : Int, state : States]
        /\ accounts' \subseteq AccountEntries
        /\ stocks' \subseteq StockEntries
        /\ options' \subseteq OptionEntries
    BY <2>1, <2>2, LoadTypes
  <2>4. positions' \subseteq [id : Int, state : States]
    BY <2>1, <2>2, LoadPositionsType
  <2>5. session' \subseteq [id : Int, kind : Kinds, cur : Currencies]
    BY <2>1, <2>3 DEF Known, AccountEntries
  <2> QED BY <1>10, <2>1, <2>2, <2>3, <2>4, <2>5 DEF Restore, TypeOK
<1> QED BY <1>1, <1>2, <1>3, <1>4, <1>5, <1>6, <1>7, <1>8, <1>9, <1>10
       DEF UserAction

(* A committed entry replaces the pending one in a well-typed store. *)
LEMMA CommittedType ==
  ASSUME NEW T, NEW S, S \subseteq T, NEW old, NEW new \in T
  PROVE  Committed(S, old, new) \subseteq T
BY DEF Committed

(* An entry keeps its type when it learns its row id. *)
LEMMA SavedEntryType ==
  ASSUME NEW row \in Int
  PROVE  /\ [id |-> row, state |-> "Clean"] \in [id : Int, state : States]
         /\ \A e \in AccountEntries :
              [e EXCEPT !.id = row, !.state = "Clean"] \in AccountEntries
         /\ \A e \in TxEntries :
              [e EXCEPT !.id = row, !.state = "Clean"] \in TxEntries
         /\ \A e \in StockEntries, instr \in Int :
              [e EXCEPT !.id = row, !.instr = instr, !.state = "Clean"] \in StockEntries
         /\ \A e \in OptionEntries, instr \in Int :
              [e EXCEPT !.id = row, !.instr = instr, !.state = "Clean"] \in OptionEntries
BY DEF AccountEntries, TxEntries, StockEntries, OptionEntries, States

LEMMA InstrumentMapType == TypeOK => IsRemap(InstrumentMap)
BY DEF TypeOK, IsRemap, InstrumentMap

(* The steps of a save. *)
LEMMA SaveProfileType ==
  ASSUME TypeOK, SaveProfile
  PROVE  TypeOK'
<1>1. PICK e \in profiles :
        /\ db' = [db EXCEPT !.profile = db.profile + 1]
        /\ profiles' = Committed(profiles, e,
                         [e EXCEPT !.id = db.profile + 1, !.state = "Clean"])
        /\ IF activeProfile = e.id
           THEN ActivateProfile(db.profile + 1)
           ELSE UNCHANGED <<accounts, profileV>>
  BY DEF SaveProfile
<1>2. db \in Databases /\ db.profile + 1 \in Int
  BY DEF TypeOK, Databases
<1>3. db' \in Databases
  BY <1>1, <1>2, DbTypes
<1>4. profiles' \subseteq [id : Int, state : States]
  BY ZenonT(30), <1>1, <1>2, CommittedType DEF TypeOK, States
<1>5. /\ activeProfile' \in Int /\ acctProfile' \in Int
      /\ accounts' \subseteq AccountEntries
      /\ session' \subseteq [id : Int, kind : Kinds, cur : Currencies]
  BY <1>1, <1>2, ActivateType DEF TypeOK, profileV
<1> QED BY <1>3, <1>4, <1>5 DEF SaveProfile, TypeOK, remaps

LEMMA SaveAccountType ==
  ASSUME TypeOK, SaveAccount
  PROVE  TypeOK'
<1>1. CASE Fatal("fkProfile")
  BY <1>1, FatalType DEF Faults
<1>2. CASE ~ Fatal("fkProfile")
  <2> DEFINE row == Len(db.account) + 1
             record(e) == [profile |-> acctProfile, name |-> e.name,
                           kind |-> e.kind, cur |-> e.cur]
  <2>1. PICK e \in accounts :
          /\ db' = [db EXCEPT !.account = Append(@, record(e))]
          /\ accounts' = Committed(accounts, e, [e EXCEPT !.id = row, !.state = "Clean"])
          /\ acctRemap' = Extend(acctRemap, e.id, row)
          /\ UNCHANGED <<pc, profiles, positions, stocks, options, txs,
                         profileV, posRemap, stockMap, optionMap, seq,
                         dialog, backups, starts, fault, halfDone>>
    BY <1>2 DEF SaveAccount
  <2>2. row \in Nat
    BY DEF TypeOK, Databases
  <2>3. record(e) \in AccountRecords
    BY DEF TypeOK, AccountEntries, AccountRecords
  <2>4. db' \in Databases
    BY <2>1, <2>3, DbTypes DEF TypeOK
  <2>5. accounts' \subseteq AccountEntries
    <3>1. [e EXCEPT !.id = row, !.state = "Clean"] \in AccountEntries
      <4>1. row \in Int /\ e \in AccountEntries
        BY <2>2 DEF TypeOK
      <4> QED BY <4>1, SavedEntryType, Zenon
    <3> QED BY <2>1, <3>1, CommittedType DEF TypeOK
  <2>6. IsRemap(acctRemap')
    BY <2>1, <2>2, ExtendType DEF TypeOK, AccountEntries
  <2> QED BY <2>1, <2>4, <2>5, <2>6 DEF TypeOK, profileV
<1> QED BY <1>1, <1>2

LEMMA SavePositionType ==
  ASSUME TypeOK, SavePosition
  PROVE  TypeOK'
<1>1. PICK e \in positions :
        /\ db' = [db EXCEPT !.position = db.position + 1]
        /\ positions' = Committed(positions, e,
                          [id |-> db.position + 1, state |-> "Clean"])
        /\ posRemap' = Extend(posRemap, e.id, db.position + 1)
  BY DEF SavePosition
<1>2. db \in Databases /\ db.position + 1 \in Nat
  BY DEF TypeOK, Databases
<1>3. db' \in Databases
  BY <1>1, <1>2, DbTypes
<1>4. positions' \subseteq [id : Int, state : States]
  <2>1. [id |-> db.position + 1, state |-> "Clean"] \in [id : Int, state : States]
    <3>1. db.position + 1 \in Int
      BY <1>2
    <3> QED BY <3>1, SavedEntryType, Zenon
  <2>2. positions \subseteq [id : Int, state : States]
    BY DEF TypeOK
  <2> QED BY <1>1, <2>1, <2>2, CommittedType
<1>5. IsRemap(posRemap')
  BY <1>1, <1>2, ExtendType DEF TypeOK
<1> QED BY <1>3, <1>4, <1>5 DEF SavePosition, TypeOK, profileV

LEMMA SaveStockType ==
  ASSUME TypeOK, SaveStock
  PROVE  TypeOK'
<1>1. PICK e \in stocks :
        /\ db' = WithStock(db, e.ticker)
        /\ stocks' = Committed(stocks, e, [e EXCEPT !.id = Len(db.stock) + 1,
                                                   !.instr = db.instrument + 1,
                                                   !.state = "Clean"])
        /\ stockMap' = Extend(stockMap, e.instr, db.instrument + 1)
  BY DEF SaveStock
<1>2. db \in Databases /\ db.instrument + 1 \in Nat /\ Len(db.stock) + 1 \in Nat
  BY DEF TypeOK, Databases
<1>3. e.ticker \in Tickers /\ e.instr \in Int /\ e \in StockEntries
  BY DEF TypeOK, StockEntries
<1>4. db' \in Databases
  BY <1>1, <1>2, <1>3, DbTypes
<1>5. stocks' \subseteq StockEntries
  <2>1. [e EXCEPT !.id = Len(db.stock) + 1, !.instr = db.instrument + 1,
                  !.state = "Clean"] \in StockEntries
    <3>1. Len(db.stock) + 1 \in Int /\ db.instrument + 1 \in Int
      BY <1>2
    <3> QED BY <1>3, <3>1, SavedEntryType, Zenon
  <2> QED BY <1>1, <2>1, CommittedType DEF TypeOK
<1>6. IsRemap(stockMap')
  BY <1>1, <1>2, <1>3, ExtendType DEF TypeOK
<1> QED BY <1>4, <1>5, <1>6 DEF SaveStock, TypeOK, profileV

LEMMA SaveOptionType ==
  ASSUME TypeOK, SaveOption
  PROVE  TypeOK'
<1>1. CASE Fatal("fkInstrument")
  BY <1>1, FatalType DEF Faults
<1>2. CASE ~ Fatal("fkInstrument")
  <2> DEFINE known(e) == \E i \in DOMAIN db.stock : db.stock[i].ticker = e.ticker
             d(e) == IF known(e) THEN db ELSE WithStock(db, e.ticker)
             row(e) == [instr |-> d(e).instrument + 1, und |-> e.und]
  <2>1. PICK e \in options :
          /\ db' = [d(e) EXCEPT !.instrument = d(e).instrument + 1,
                                !.option = Append(@, row(e))]
          /\ options' = Committed(options, e,
                          [e EXCEPT !.id = Len(db.option) + 1,
                                    !.instr = d(e).instrument + 1, !.state = "Clean"])
          /\ optionMap' = Extend(optionMap, e.instr, d(e).instrument + 1)
          /\ UNCHANGED <<pc, profiles, accounts, positions, stocks, txs,
                         profileV, acctRemap, posRemap, stockMap, seq,
                         dialog, backups, starts, fault, halfDone>>
    BY <1>2 DEF SaveOption
  <2>2. e \in OptionEntries /\ e.ticker \in Tickers /\ e.instr \in Int /\ e.und \in Int
    BY DEF TypeOK, OptionEntries
  <2>3. d(e) \in Databases
    BY <2>2, DbTypes DEF TypeOK
  <2> HIDE DEF d
  <2>4. d(e).instrument + 1 \in Nat
    BY <2>3 DEF Databases
  <2>5. row(e) \in OptionRecords
    BY <2>2, <2>4 DEF OptionRecords
  <2>6. db' \in Databases
    BY <2>1, <2>3, <2>5, DbTypes
  <2>7. Len(db.option) + 1 \in Nat
    BY DEF TypeOK, Databases
  <2>8. options' \subseteq OptionEntries
    <3>1. [e EXCEPT !.id = Len(db.option) + 1, !.instr = d(e).instrument + 1,
                    !.state = "Clean"] \in OptionEntries
      <4>1. Len(db.option) + 1 \in Int /\ d(e).instrument + 1 \in Int
        BY <2>4, <2>7
      <4> QED BY <2>2, <4>1, SavedEntryType, Zenon
    <3> QED BY <2>1, <3>1, CommittedType DEF TypeOK
  <2>9. IsRemap(optionMap')
    BY <2>1, <2>2, <2>4, ExtendType DEF TypeOK
  <2> QED BY <2>1, <2>6, <2>8, <2>9 DEF TypeOK, profileV
<1> QED BY <1>1, <1>2

LEMMA SaveTxType ==
  ASSUME TypeOK, SaveTx
  PROVE  TypeOK'
<1>1. CASE Fatal("fkInstrument") \/ Fatal("fkAccount")
  BY <1>1, FatalType DEF Faults
<1>2. CASE ~ (Fatal("fkInstrument") \/ Fatal("fkAccount"))
  <2> DEFINE row(e) == [accts |-> e.accts, instr |-> e.instr, pos |-> e.pos]
  <2>1. PICK e \in txs :
          /\ db' = [db EXCEPT !.tx = Append(@, row(e))]
          /\ txs' = Committed(txs, e, [e EXCEPT !.id = Len(db.tx) + 1,
                                                !.state = "Clean"])
          /\ UNCHANGED <<pc, profiles, accounts, positions, stocks, options,
                         profileV, remaps, seq, dialog, backups, starts,
                         fault, halfDone>>
    BY <1>2 DEF SaveTx
  <2>2. Len(db.tx) + 1 \in Nat
    BY DEF TypeOK, Databases
  <2>3. row(e) \in TxRecords
    BY DEF TypeOK, TxEntries, TxRecords
  <2>4. db' \in Databases
    BY <2>1, <2>3, DbTypes DEF TypeOK
  <2>5. txs' \subseteq TxEntries
    <3>1. [e EXCEPT !.id = Len(db.tx) + 1, !.state = "Clean"] \in TxEntries
      <4>1. Len(db.tx) + 1 \in Int /\ e \in TxEntries
        BY <2>2 DEF TypeOK
      <4> QED BY <4>1, SavedEntryType, Zenon
    <3> QED BY <2>1, <3>1, CommittedType DEF TypeOK
  <2> QED BY <2>1, <2>4, <2>5 DEF TypeOK, profileV, remaps
<1> QED BY <1>1, <1>2

(* The steps between two stores. *)
LEMMA StageType ==
  ASSUME TypeOK,
         \/ ProfilesSaved \/ AccountsSaved \/ PositionsSaved \/ StocksSaved
         \/ OptionsSaved \/ TxsSaved
  PROVE  TypeOK'
<1> USE DEF caches, profileV, remaps, disk
<1>1. CASE ProfilesSaved
  BY <1>1 DEF ProfilesSaved, TypeOK, Stages
<1>2. CASE AccountsSaved
  BY <1>2, SetUncheckedType DEF AccountsSaved, TypeOK, Stages
<1>3. CASE PositionsSaved
  BY <1>3, EmptyRemapType DEF PositionsSaved, TypeOK, Stages
<1>4. CASE StocksSaved
  <2>1. ASSUME NEW o \in options PROVE RemapOption(o) \in OptionEntries
    BY RemapType DEF RemapOption, TypeOK, OptionEntries
  <2>2. {RemapOption(o) : o \in options} \subseteq OptionEntries
    BY <2>1
  <2>3. CASE Fatal("committedRef")
    BY <2>3, FatalType DEF Faults
  <2> QED BY <1>4, <2>2, <2>3, EmptyRemapType DEF StocksSaved, TypeOK, Stages
<1>5. CASE OptionsSaved
  <2>1. ASSUME NEW t \in txs PROVE RemapTx(t) \in TxEntries
    <3>1. /\ \A a \in t.accts : Remap(acctRemap, a) \in Int
          /\ Remap(InstrumentMap, t.instr) \in Int
          /\ Remap(posRemap, t.pos) \in Int
      BY RemapType, InstrumentMapType DEF TypeOK, TxEntries
    <3> QED BY ZenonT(30), <3>1 DEF RemapTx, TypeOK, TxEntries
  <2>2. {RemapTx(t) : t \in txs} \subseteq TxEntries
    BY <2>1
  <2>3. CASE Fatal("combine") \/ Fatal("committedRef")
    BY <2>3, FatalType DEF Faults
  <2> QED BY <1>5, <2>2, <2>3 DEF OptionsSaved, TypeOK, Stages
<1>6. CASE TxsSaved
  BY <1>6, EmptyRemapType DEF TxsSaved, TypeOK
<1> QED BY <1>1, <1>2, <1>3, <1>4, <1>5, <1>6

LEMMA StepType == TypeOK /\ [Next]_vars => TypeOK'
<1> SUFFICES ASSUME TypeOK, [Next]_vars PROVE TypeOK'
  OBVIOUS
<1>1. CASE Start \/ Quit \/ Interrupt
  BY <1>1, LifeType
<1>2. CASE UserAction
  BY <1>2, UserType
<1>3. CASE SaveStep
  BY <1>3, SaveProfileType, SaveAccountType, SavePositionType, SaveStockType,
     SaveOptionType, SaveTxType, StageType DEF SaveStep
<1>4. CASE UNCHANGED vars
  BY <1>4 DEF vars, caches, profileV, remaps, disk, TypeOK
<1> QED BY <1>1, <1>2, <1>3, <1>4 DEF Next

(* Every variable has its type, in every behaviour of the program. *)
THEOREM TypeCorrect == Spec => []TypeOK
<1>1. Init => TypeOK
  BY InitType
<1>2. TypeOK /\ [Next]_vars => TypeOK'
  BY StepType
<1> QED BY <1>1, <1>2, PTL DEF Spec

-----------------------------------------------------------------------------
(* A save never trips over its own bookkeeping.                            *)
(*                                                                         *)
(* NoInternalFault alone is not inductive: that a save finds every          *)
(* reference resolvable rests on how the references came about              *)
(* (PendingResolves), on temporary ids never being reused while a map still *)
(* holds them (TempsInRange), and on stocks and options drawing from one    *)
(* sequence (MapsDisjoint).                                                 *)

(* The inductive invariant, next to TypeOK. *)
Core ==
  /\ NoInternalFault /\ PendingResolves /\ StagesInOrder
  /\ TempsInRange /\ MapsDisjoint /\ CleanSound
  /\ \A d \in backups \cup {db} : FileSound(d)

-----------------------------------------------------------------------------
(* Starting and ending. *)

(* A process that has forgotten everything is consistent with any files.   *)
LEMMA ForgottenCore ==
  ASSUME ClearedMemory, pc' = "off",
         fault' \notin {"combine", "committedRef", "fkInstrument"},
         \A d \in backups' \cup {db'} : FileSound(d)
  PROVE  Core'
<1>1. /\ Pending(stocks)' = {} /\ Pending(options)' = {} /\ Pending(txs)' = {}
      /\ Pending(accounts)' = {} /\ Pending(positions)' = {} /\ txs' = {}
      /\ stocks' = {} /\ options' = {}
  BY DEF ClearedMemory, Pending
<1>2. /\ DOMAIN acctRemap' = {} /\ DOMAIN posRemap' = {}
      /\ DOMAIN stockMap' = {} /\ DOMAIN optionMap' = {}
  BY DEF ClearedMemory, EmptyRemap
<1>3. PendingResolves'
  BY <1>1 DEF PendingResolves
<1>4. StagesInOrder'
  BY <1>1 DEF StagesInOrder
<1>5. TempsInRange'
  <2>1. \A n \in SeqNames : seq'[n] <= NoId
    BY DEF ClearedMemory, NoId
  <2>2. /\ Ids(Pending(accounts))' = {} /\ Ids(Pending(positions))' = {}
        /\ StockTemps' = {} /\ OptionTemps' = {}
    BY <1>1 DEF Ids, StockTemps, OptionTemps
  <2> QED BY <1>2, <2>1, <2>2 DEF TempsInRange
<1>6. MapsDisjoint'
  BY <1>1, <1>2 DEF MapsDisjoint, StockTemps, OptionTemps
<1>7. CleanSound'
  BY <1>1 DEF CleanSound
<1> QED BY <1>3, <1>4, <1>5, <1>6, <1>7 DEF Core, NoInternalFault

LEMMA FatalCore ==
  ASSUME Core, NEW cause, cause \notin {"combine", "committedRef", "fkInstrument"},
         Fatal(cause)
  PROVE  Core'
BY ForgottenCore DEF Fatal, Core

(* An instrument row more keeps a file sound. *)
LEMMA MoreInstruments ==
  ASSUME NEW d \in Databases, FileSound(d)
  PROVE  FileSound([d EXCEPT !.instrument = @ + 1])
<1> DEFINE e == [d EXCEPT !.instrument = @ + 1]
<1>1. /\ e.stock = d.stock /\ e.option = d.option /\ e.tx = d.tx
      /\ e.position = d.position /\ e.instrument = d.instrument + 1
      /\ d.instrument \in Nat
  BY DEF Databases
<1> HIDE DEF e
<1>2. Rows(d.instrument) \subseteq Rows(e.instrument)
  BY <1>1 DEF Rows
<1> QED BY <1>1, <1>2 DEF FileSound, e

LEMMA LifeCore ==
  ASSUME TypeOK, Core, Start \/ Quit \/ Interrupt
  PROVE  Core'
<1>1. CASE Start
  <2>1. /\ Pending(stocks') = {} /\ Pending(options') = {}
        /\ txs' = {} /\ pc' = "idle" /\ Pending(txs') = {}
    BY <1>1 DEF Start, LoadStocks, LoadOptions, Pending, Core, StagesInOrder
  <2>2. NoInternalFault'
    BY <1>1 DEF Start, NoInternalFault
  <2>3. PendingResolves'
    BY <2>1 DEF PendingResolves, Pending
  <2>4. StagesInOrder'
    BY <2>1 DEF StagesInOrder
  <2>5. StockTemps' = {} /\ OptionTemps' = {}
    BY <2>1 DEF StockTemps, OptionTemps, Pending
  <2>6. TempsInRange'
    BY <1>1, <2>5 DEF Start, Core, TempsInRange, remaps, InstrTemps, Pending, Ids
  <2>7. MapsDisjoint'
    BY <1>1, <2>5 DEF Start, Core, MapsDisjoint, remaps
  <2>8. CleanSound'
    <3>1. FileSound(db)
      BY DEF Core
    <3>2. \A s \in LoadStocks(db) : s.instr \in InstrumentRows
      BY <3>1 DEF FileSound, LoadStocks, InstrumentRows
    <3>3. \A o \in LoadOptions(db) : o.und \in InstrumentRows
      BY <3>1 DEF FileSound, LoadOptions, InstrumentRows
    <3> QED BY <1>1, <2>1, <3>2, <3>3 DEF Start, CleanSound, InstrumentRows
  <2>9. \A d \in backups' \cup {db'} : FileSound(d)
    BY <1>1 DEF Start, Core
  <2> QED BY <2>2, <2>3, <2>4, <2>6, <2>7, <2>8, <2>9 DEF Core
<1>2. CASE Quit
  BY <1>2, ForgottenCore DEF Quit, Core, disk, NoInternalFault
<1>3. CASE Interrupt
  <2>1. FileSound(db')
    BY <1>3, MoreInstruments DEF Interrupt, Core, TypeOK
  <2> QED BY <1>3, <2>1, ForgottenCore DEF Interrupt, Core, NoInternalFault
<1> QED BY <1>1, <1>2, <1>3

-----------------------------------------------------------------------------
(* Steps that leave some of the state alone. *)

(* What Core says is not disturbed by steps on profiles and accounts. *)
Early == {"idle", "profile", "account", "position"}
LEMMA AccountSideCore ==
  ASSUME TypeOK, Core,
         UNCHANGED <<positions, stocks, options, txs, posRemap, stockMap, optionMap,
                     backups, fault>>,
         db'.instrument = db.instrument, db'.position = db.position,
         db'.stock = db.stock, db'.option = db.option, db'.tx = db.tx,
         seq'["instr"] = seq["instr"], \A n \in SeqNames : seq'[n] <= NoId,
         pc' = pc \/ (pc \in Early /\ pc' \in Early),
         Ids(Pending(accounts')) \subseteq TempIds, DOMAIN acctRemap' \subseteq TempIds
  PROVE  Core'
<1>1. /\ InstrumentRows' = InstrumentRows /\ PositionRows' = PositionRows
      /\ StockTemps' = StockTemps /\ OptionTemps' = OptionTemps
      /\ InstrTemps' = InstrTemps
      /\ Pending(stocks)' = Pending(stocks) /\ Pending(options)' = Pending(options)
      /\ Pending(txs)' = Pending(txs) /\ Pending(positions)' = Pending(positions)
  BY DEF InstrumentRows, PositionRows, StockTemps, OptionTemps, InstrTemps, Pending
<1>2. UnderlyingRefs' = UnderlyingRefs /\ InstrumentRefs' = InstrumentRefs
      /\ PositionRefs' = PositionRefs
  BY <1>1 DEF UnderlyingRefs, InstrumentRefs, PositionRefs, Early, Resolved, Ids
<1>3. PendingResolves'
  BY <1>1, <1>2 DEF PendingResolves, Core
<1>4. StagesInOrder'
  BY <1>1 DEF StagesInOrder, Core, Early
<1>5. TempsInRange'
  BY <1>1 DEF TempsInRange, Core, Ids, Pending
<1>6. MapsDisjoint'
  BY <1>1 DEF MapsDisjoint, Core
<1>7. CleanSound'
  BY <1>1 DEF CleanSound, Core
<1>8. \A d \in backups' \cup {db'} : FileSound(d)
  BY DEF Core, FileSound
<1> QED BY <1>3, <1>4, <1>5, <1>6, <1>7, <1>8 DEF Core, NoInternalFault

(* An activated profile brings in saved accounts only. *)
LEMMA ActivateTemps ==
  ASSUME Core, NEW p, ActivateProfile(p)
  PROVE  Ids(Pending(accounts')) \subseteq TempIds
BY DEF ActivateProfile, LoadAccounts, Pending, Ids, Core, TempsInRange

LEMMA NextTemps ==
  ASSUME TypeOK, Core
  PROVE  \A n \in SeqNames : Next1(n) \in TempIds /\ Next1(n) < seq[n] /\ seq[n] \in Int
BY DEF TypeOK, Core, TempsInRange, TempIds, Next1, NoId

LEMMA ProfileUserCore ==
  ASSUME TypeOK, Core, SelectProfile \/ AddProfile \/ CreateSomeAccount \/ OpenDialog \/ Save
  PROVE  Core'
<1> USE DEF caches, profileV, remaps, disk
<1>0. /\ \A n \in SeqNames : seq[n] <= NoId
      /\ Ids(Pending(accounts)) \subseteq TempIds /\ DOMAIN acctRemap \subseteq TempIds
  BY DEF Core, TempsInRange
<1>1. CASE SelectProfile
  BY <1>0, <1>1, ActivateTemps, AccountSideCore DEF SelectProfile
<1>2. CASE AddProfile
  <2>1. /\ seq'["instr"] = seq["instr"]
        /\ \A n \in SeqNames : seq'[n] <= NoId
    BY <1>0, <1>2, NextTemps DEF AddProfile, TypeOK, SeqNames, TempIds, NoId
  <2> QED BY <1>0, <1>2, <2>1, ActivateTemps, AccountSideCore DEF AddProfile
<1>3. CASE CreateSomeAccount
  <2>1. PICK n \in Names, k \in UserKinds, c \in Currencies : CreateAccount(n, k, c)
    BY <1>3 DEF CreateSomeAccount
  <2> DEFINE first == Next1("account")
             last == IF k = "Cash" /\ ~ HasExternal(c) THEN first - 1 ELSE first
             added == {NewAccount(first, n, k, c)} \cup
               {NewAccount(i, ExternalName(c), "External", c) : i \in last..(first - 1)}
  <2>2. first \in TempIds /\ last \in TempIds /\ first \in Int /\ last \in Int
    BY NextTemps DEF TempIds, SeqNames, NoId
  <2>3. /\ accounts' = accounts \cup added
        /\ seq' = [seq EXCEPT !["account"] = last]
    BY <2>1 DEF CreateAccount
  <2>4. Ids(added) \subseteq TempIds
    BY <2>2 DEF Ids, NewAccount, TempIds, NoId
  <2> HIDE DEF added, first, last
  <2>5. Ids(Pending(accounts')) \subseteq TempIds
    BY <1>0, <2>3, <2>4 DEF Ids, Pending
  <2>6. /\ seq'["instr"] = seq["instr"]
        /\ \A m \in SeqNames : seq'[m] <= NoId
    BY <1>0, <2>2, <2>3 DEF TypeOK, SeqNames, TempIds, NoId
  <2> QED BY <1>0, <2>1, <2>5, <2>6, AccountSideCore DEF CreateAccount
<1>4. CASE OpenDialog
  BY <1>0, <1>4, AccountSideCore DEF OpenDialog
<1>5. CASE Save
  BY <1>0, <1>5, AccountSideCore DEF Save, Early, Running
<1> QED BY <1>1, <1>2, <1>3, <1>4, <1>5

-----------------------------------------------------------------------------
(* What the user adds to the other stores. *)

LEMMA AddStockCore ==
  ASSUME TypeOK, Core, AddSomeStock
  PROVE  Core'
<1>1. PICK t \in Tickers : AddStock(t)
  BY DEF AddSomeStock
<1> DEFINE new == [id |-> Next1("stock"), instr |-> Next1("instr"),
                   ticker |-> t, state |-> "New"]
<1>2. /\ stocks' = stocks \cup {new} /\ pc = "idle" /\ pc' = pc
      /\ seq' = [seq EXCEPT !["stock"] = Next1("stock"), !["instr"] = Next1("instr")]
      /\ UNCHANGED <<positions, accounts, options, txs, acctRemap, posRemap, stockMap,
                     optionMap, db, backups, fault>>
  BY <1>1 DEF AddStock, Running, profileV, remaps, disk
<1>3. /\ Next1("instr") \in TempIds /\ Next1("instr") < seq["instr"]
      /\ Next1("stock") \in TempIds /\ seq["instr"] \in Int
      /\ Next1("instr") \in Int /\ Next1("stock") \in Int
  BY NextTemps DEF SeqNames, TempIds
<1>4. seq'["instr"] = Next1("instr") /\ \A n \in SeqNames : seq'[n] <= NoId
  BY <1>2, <1>3 DEF Core, TempsInRange, TempIds, TypeOK, SeqNames, NoId
<1>5. /\ Pending(stocks') = Pending(stocks) \cup {new}
      /\ stocks' \ Pending(stocks') \subseteq stocks \ Pending(stocks)
      /\ new.instr = Next1("instr")
  BY <1>2 DEF Pending
<1> HIDE DEF new
<1>6. /\ StockTemps' = StockTemps \cup {Next1("instr")}
      /\ OptionTemps' = OptionTemps
  BY <1>2, <1>5 DEF StockTemps, OptionTemps
<1>7. /\ InstrumentRows' = InstrumentRows /\ PositionRows' = PositionRows
      /\ InstrTemps \subseteq InstrTemps' /\ Next1("instr") \in InstrTemps'
      /\ Next1("instr") \notin InstrTemps
  BY <1>2, <1>3, <1>4 DEF InstrumentRows, PositionRows, InstrTemps, TempIds
<1>8. PendingResolves'
  <2>1. /\ UnderlyingRefs \subseteq UnderlyingRefs'
        /\ InstrumentRefs \subseteq InstrumentRefs'
        /\ PositionRefs' = PositionRefs
    BY <1>2, <1>6, <1>7 DEF UnderlyingRefs, InstrumentRefs, PositionRefs
  <2> QED BY <1>2, <2>1 DEF PendingResolves, Core
<1>9. StagesInOrder'
  BY <1>2 DEF StagesInOrder
<1>10. TempsInRange'
  <2>1. TempsInRange
    BY DEF Core
  <2>2. /\ StockTemps' \subseteq InstrTemps' /\ DOMAIN stockMap' \subseteq InstrTemps'
        /\ OptionTemps' \subseteq InstrTemps' /\ DOMAIN optionMap' \subseteq InstrTemps'
    BY <1>2, <1>6, <1>7, <2>1 DEF TempsInRange
  <2>3. TempIds' = TempIds
    BY DEF TempIds
  <2> QED BY <1>2, <1>4, <2>1, <2>2, <2>3 DEF TempsInRange
<1>11. MapsDisjoint'
  BY <1>2, <1>6, <1>7 DEF MapsDisjoint, TempsInRange, Core
<1>12. CleanSound'
  BY <1>2, <1>5, <1>7 DEF CleanSound, Core
<1> QED BY <1>2, <1>8, <1>9, <1>10, <1>11, <1>12 DEF Core, NoInternalFault

(* A trade's position is a saved one, one of the store, or a new one. *)
LEMMA AddTradeRefs ==
  ASSUME TypeOK, Core, pc = "idle", NEW cash, NEW sec, NEW i, NEW p,
         p \in PositionRefs \cup {Next1("position")},
         AddTrade(cash, sec, i, p)
  PROVE  /\ Ids(Pending(positions')) \subseteq TempIds
         /\ Ids(Pending(positions)) \subseteq Ids(Pending(positions'))
         /\ txs' \ Pending(txs') \subseteq txs \ Pending(txs)
         /\ \A t \in Pending(txs') :
              \/ t \in Pending(txs)
              \/ t.instr = i /\ (t.pos \in PositionRefs \/ t.pos \in Ids(Pending(positions')))
<1>1. Next1("position") \in TempIds
  BY NextTemps DEF SeqNames
<1>2. Ids(Pending(positions)) \subseteq TempIds
  BY DEF Core, TempsInRange
<1>3. positions' = WithPosition(p)
  BY DEF AddTrade
<1>4. /\ Ids(Pending(positions')) \subseteq TempIds
      /\ Ids(Pending(positions)) \subseteq Ids(Pending(positions'))
      /\ p = Next1("position") => p \in Ids(Pending(positions'))
  <2>1. CASE p = Next1("position")
    <3> DEFINE new == [id |-> p, state |-> "New"]
    <3>1. positions' = positions \cup {new} /\ new.id = p /\ new.state = "New"
      BY <1>3, <2>1 DEF WithPosition
    <3> HIDE DEF new
    <3>2. Pending(positions') = Pending(positions) \cup {new}
      BY <3>1 DEF Pending
    <3>3. Ids(Pending(positions')) = Ids(Pending(positions)) \cup {p}
      BY <3>1, <3>2 DEF Ids
    <3> QED BY <1>1, <1>2, <2>1, <3>3
  <2>2. CASE p # Next1("position")
    BY <1>2, <1>3, <2>2 DEF WithPosition
  <2> QED BY <2>1, <2>2
<1>5. \/ txs' = txs
      \/ \E ext \in ExternalOf(cash) :
           txs' = txs \cup {NewTx({cash.id, sec.id, ext.id}, i, p)}
  BY DEF AddTrade
<1>6. CASE txs' = txs
  BY <1>4, <1>6
<1>7. ASSUME NEW ext \in ExternalOf(cash),
             txs' = txs \cup {NewTx({cash.id, sec.id, ext.id}, i, p)}
      PROVE  /\ txs' \ Pending(txs') \subseteq txs \ Pending(txs)
             /\ \A t \in Pending(txs') : t \in Pending(txs) \/ (t.instr = i /\ t.pos = p)
  BY <1>7 DEF Pending, NewTx
<1> QED BY <1>4, <1>5, <1>6, <1>7

LEMMA OpenPositionRefs ==
  ASSUME Core, NEW sec, NEW instr
  PROVE  OpenStockPositions(sec, instr) \subseteq PositionRefs
<1>1. \A t \in txs : t.pos \in PositionRefs
  BY DEF Core, PendingResolves, CleanSound, PositionRefs
<1>2. \A j \in DOMAIN db.tx : db.tx[j].pos \in PositionRefs
  BY DEF Core, FileSound, PositionRefs, PositionRows
<1> QED BY <1>1, <1>2 DEF OpenStockPositions, TradesOf

(* Steps that only add a transaction, with or without a position. *)
LEMMA TradeSideCore ==
  ASSUME TypeOK, Core, pc = "idle",
         UNCHANGED <<pc, accounts, stocks, options, acctRemap, posRemap, stockMap,
                     optionMap, db, backups, fault>>,
         seq'["instr"] = seq["instr"], \A n \in SeqNames : seq'[n] <= NoId,
         Ids(Pending(positions')) \subseteq TempIds,
         Ids(Pending(positions)) \subseteq Ids(Pending(positions')),
         txs' \ Pending(txs') \subseteq txs \ Pending(txs),
         \A t \in Pending(txs') :
           \/ t \in Pending(txs)
           \/ /\ t.instr \in InstrumentRefs
              /\ t.pos \in PositionRefs \/ t.pos \in Ids(Pending(positions'))
  PROVE  Core'
<1>1. /\ InstrumentRows' = InstrumentRows /\ PositionRows' = PositionRows
      /\ StockTemps' = StockTemps /\ OptionTemps' = OptionTemps
      /\ InstrTemps' = InstrTemps
  BY DEF InstrumentRows, PositionRows, StockTemps, OptionTemps, InstrTemps, Pending
<1>2. UnderlyingRefs' = UnderlyingRefs /\ InstrumentRefs' = InstrumentRefs
  BY <1>1 DEF UnderlyingRefs, InstrumentRefs
<1>3. /\ PositionRefs \subseteq PositionRefs'
      /\ Ids(Pending(positions')) \subseteq PositionRefs'
  BY <1>1 DEF PositionRefs
<1>4. PendingResolves'
  <2>1. \A t \in Pending(txs') : t.instr \in InstrumentRefs /\ t.pos \in PositionRefs'
    BY <1>3 DEF PendingResolves, Core
  <2> QED BY <1>1, <1>2, <2>1 DEF PendingResolves, Core
<1>5. StagesInOrder'
  BY DEF StagesInOrder
<1>6. TempsInRange'
  BY <1>1 DEF TempsInRange, Core
<1>7. MapsDisjoint'
  BY <1>1 DEF MapsDisjoint, Core
<1>8. CleanSound'
  BY <1>1 DEF CleanSound, Core
<1> QED BY <1>4, <1>5, <1>6, <1>7, <1>8 DEF Core, NoInternalFault

LEMMA DrawnKeeps ==
  ASSUME TypeOK, Core, NEW names
  PROVE  /\ \A n \in SeqNames : Drawn(names)[n] <= NoId
         /\ "instr" \notin names => Drawn(names)["instr"] = seq["instr"]
         /\ "instr" \in names => Drawn(names)["instr"] = Next1("instr")
<1>1. \A n \in SeqNames : Next1(n) <= NoId /\ seq[n] <= NoId
  BY NextTemps DEF Core, TempsInRange, TempIds, NoId
<1> QED BY <1>1 DEF Drawn, SeqNames

LEMMA CashCore ==
  ASSUME TypeOK, Core, CreateCashTransaction
  PROVE  Core'
<1>1. PICK cash \in Offered("Cash") : \E ext \in ExternalOf(cash) :
        txs' = txs \cup {NewTx({cash.id, ext.id}, NoId, NoId)}
  BY DEF CreateCashTransaction
<1>2. PICK ext \in ExternalOf(cash) :
        txs' = txs \cup {NewTx({cash.id, ext.id}, NoId, NoId)}
  BY <1>1
<1>3. /\ txs' \ Pending(txs') \subseteq txs \ Pending(txs)
      /\ \A t \in Pending(txs') : t \in Pending(txs) \/ (t.instr = NoId /\ t.pos = NoId)
  BY <1>2 DEF Pending, NewTx
<1>4. NoId \in InstrumentRefs /\ NoId \in PositionRefs
  BY DEF InstrumentRefs, PositionRefs
<1>5. seq'["instr"] = seq["instr"] /\ \A n \in SeqNames : seq'[n] <= NoId
  BY NextTemps DEF CreateCashTransaction, Core, TempsInRange, TempIds, TypeOK, SeqNames, NoId
<1>6. /\ pc = "idle"
      /\ UNCHANGED <<pc, accounts, positions, stocks, options, acctRemap, posRemap,
                     stockMap, optionMap, db, backups, fault>>
  BY DEF CreateCashTransaction, Running, remaps, disk
<1>7. Ids(Pending(positions)) \subseteq TempIds
  BY DEF Core, TempsInRange
<1> QED BY <1>3, <1>4, <1>5, <1>6, <1>7, TradeSideCore

LEMMA StockTradeCore ==
  ASSUME TypeOK, Core, CreateStockTransaction
  PROVE  Core'
<1>1. PICK pair \in OfferedPairs, s \in stocks : \E p \in
             OpenStockPositions(pair[2].id, s.instr) \cup {Next1("position")} :
        /\ AddTrade(pair[1], pair[2], s.instr, p)
        /\ seq' = Drawn(IF p = Next1("position") THEN {"position", "tx"} ELSE {"tx"})
  BY DEF CreateStockTransaction
<1>2. PICK p \in OpenStockPositions(pair[2].id, s.instr) \cup {Next1("position")} :
        /\ AddTrade(pair[1], pair[2], s.instr, p)
        /\ seq' = Drawn(IF p = Next1("position") THEN {"position", "tx"} ELSE {"tx"})
  BY <1>1
<1>3. p \in PositionRefs \cup {Next1("position")}
  BY OpenPositionRefs
<1>4. s.instr \in InstrumentRefs
  BY DEF Core, CleanSound, InstrumentRefs, StockTemps
<1>5. /\ pc = "idle"
      /\ UNCHANGED <<pc, accounts, stocks, options, acctRemap, posRemap,
                     stockMap, optionMap, db, backups, fault>>
  BY DEF CreateStockTransaction, Running, remaps
<1>6. seq'["instr"] = seq["instr"] /\ \A n \in SeqNames : seq'[n] <= NoId
  <2>1. seq' = Drawn({"position", "tx"}) \/ seq' = Drawn({"tx"})
    BY <1>2
  <2> QED BY <2>1, DrawnKeeps
<1>7. /\ Ids(Pending(positions')) \subseteq TempIds
      /\ Ids(Pending(positions)) \subseteq Ids(Pending(positions'))
      /\ txs' \ Pending(txs') \subseteq txs \ Pending(txs)
      /\ \A t \in Pending(txs') :
           \/ t \in Pending(txs)
           \/ /\ t.instr = s.instr
              /\ t.pos \in PositionRefs \/ t.pos \in Ids(Pending(positions'))
  BY <1>2, <1>3, <1>5, AddTradeRefs
<1> QED BY <1>4, <1>5, <1>6, <1>7, TradeSideCore

LEMMA OptionTradeCore ==
  ASSUME TypeOK, Core, CreateOptionTransaction
  PROVE  Core'
<1>1. PICK pair \in OfferedPairs, s \in stocks :
        /\ options' = options \cup
             {[id |-> Next1("option"), instr |-> Next1("instr"),
               und |-> s.instr, ticker |-> s.ticker, state |-> "New"]}
        /\ AddTrade(pair[1], pair[2], Next1("instr"), Next1("position"))
  BY DEF CreateOptionTransaction
<1> DEFINE i == Next1("instr")
           new == [id |-> Next1("option"), instr |-> i,
                   und |-> s.instr, ticker |-> s.ticker, state |-> "New"]
<1>2. /\ pc = "idle"
      /\ UNCHANGED <<pc, accounts, stocks, acctRemap, posRemap,
                     stockMap, optionMap, db, backups, fault>>
  BY DEF CreateOptionTransaction, Running, remaps
<1>3. /\ seq'["instr"] = i /\ \A n \in SeqNames : seq'[n] <= NoId
  BY DrawnKeeps DEF CreateOptionTransaction
<1>4. i \in TempIds /\ i < seq["instr"] /\ seq["instr"] \in Int /\ i \in Int
  BY NextTemps DEF SeqNames, TempIds
<1>5. /\ Ids(Pending(positions')) \subseteq TempIds
      /\ Ids(Pending(positions)) \subseteq Ids(Pending(positions'))
      /\ txs' \ Pending(txs') \subseteq txs \ Pending(txs)
      /\ \A t \in Pending(txs') :
           \/ t \in Pending(txs)
           \/ t.instr = i /\ (t.pos \in PositionRefs \/ t.pos \in Ids(Pending(positions')))
  BY <1>1, <1>2, AddTradeRefs
<1>6. options' = options \cup {new} /\ new.instr = i /\ new.und = s.instr /\ new.state = "New"
  BY <1>1
<1> HIDE DEF i, new
<1>7. /\ Pending(options') = Pending(options) \cup {new}
      /\ options' \ Pending(options') \subseteq options \ Pending(options)
  BY <1>6 DEF Pending
<1>8. OptionTemps' = OptionTemps \cup {i} /\ StockTemps' = StockTemps
  BY <1>2, <1>6, <1>7 DEF OptionTemps, StockTemps
<1>9. /\ InstrumentRows' = InstrumentRows /\ PositionRows' = PositionRows
      /\ InstrTemps \subseteq InstrTemps' /\ i \in InstrTemps' /\ i \notin InstrTemps
      /\ TempIds' = TempIds
  BY <1>2, <1>3, <1>4 DEF InstrumentRows, PositionRows, InstrTemps, TempIds
<1>10. /\ UnderlyingRefs' = UnderlyingRefs
       /\ InstrumentRefs \subseteq InstrumentRefs' /\ i \in InstrumentRefs'
       /\ PositionRefs \subseteq PositionRefs'
       /\ Ids(Pending(positions')) \subseteq PositionRefs'
  BY <1>2, <1>5, <1>8, <1>9 DEF UnderlyingRefs, InstrumentRefs, PositionRefs
<1>11. PendingResolves'
  <2>1. s.instr \in UnderlyingRefs
    BY DEF Core, CleanSound, UnderlyingRefs, StockTemps
  <2>2. \A o \in Pending(options') : o.und \in UnderlyingRefs'
    BY <1>6, <1>7, <1>10, <2>1 DEF Core, PendingResolves
  <2>3. \A t \in Pending(txs') : t.instr \in InstrumentRefs' /\ t.pos \in PositionRefs'
    BY <1>5, <1>10 DEF Core, PendingResolves
  <2> QED BY <2>2, <2>3 DEF PendingResolves
<1>12. StagesInOrder'
  BY <1>2 DEF StagesInOrder
<1>13. TempsInRange'
  <2>1. TempsInRange
    BY DEF Core
  <2>2. /\ StockTemps' \subseteq InstrTemps' /\ DOMAIN stockMap' \subseteq InstrTemps'
        /\ OptionTemps' \subseteq InstrTemps' /\ DOMAIN optionMap' \subseteq InstrTemps'
    BY <1>2, <1>8, <1>9, <2>1 DEF TempsInRange
  <2> QED BY <1>2, <1>3, <1>5, <1>9, <2>1, <2>2 DEF TempsInRange
<1>14. MapsDisjoint'
  BY <1>2, <1>8, <1>9 DEF MapsDisjoint, TempsInRange, Core
<1>15. CleanSound'
  BY <1>2, <1>5, <1>7, <1>9 DEF CleanSound, Core
<1> QED BY <1>2, <1>11, <1>12, <1>13, <1>14, <1>15 DEF Core, NoInternalFault

LEMMA RestoreCore ==
  ASSUME TypeOK, Core, Restore
  PROVE  Core'
<1>1. PICK d \in backups :
        /\ db' = d
        /\ accounts' = (IF acctProfile = NoId THEN {} ELSE LoadAccounts(d, acctProfile))
        /\ stocks' = LoadStocks(d)
        /\ options' = LoadOptions(d)
        /\ \E ids : positions' = LoadPositions(d, ids)
  BY DEF Restore
<1>2. /\ txs' = {} /\ pc = "idle"
      /\ UNCHANGED <<pc, acctRemap, posRemap, stockMap, optionMap, seq, backups, fault>>
  BY DEF Restore, Running, remaps
<1>3. FileSound(d)
  BY DEF Core
<1>4. /\ Pending(accounts') = {} /\ Pending(stocks') = {} /\ Pending(options') = {}
      /\ Pending(positions') = {} /\ Pending(txs') = {}
  BY <1>1, <1>2
  DEF LoadAccounts, LoadStocks, LoadOptions, LoadPositions, Pending
<1>5. PendingResolves'
  BY <1>4 DEF PendingResolves
<1>6. StagesInOrder'
  BY <1>2 DEF StagesInOrder
<1>7. /\ StockTemps' = {} /\ OptionTemps' = {}
      /\ Ids(Pending(accounts')) = {} /\ Ids(Pending(positions')) = {}
  BY <1>4 DEF StockTemps, OptionTemps, Ids
<1>8. TempsInRange'
  BY <1>2, <1>7 DEF Core, TempsInRange, InstrTemps
<1>9. MapsDisjoint'
  BY <1>2, <1>7 DEF Core, MapsDisjoint
<1>10. CleanSound'
  <2>1. \A s \in LoadStocks(d) : s.instr \in Rows(d.instrument)
    BY <1>3 DEF FileSound, LoadStocks
  <2>2. \A o \in LoadOptions(d) : o.und \in Rows(d.instrument)
    BY <1>3 DEF FileSound, LoadOptions
  <2> QED BY <1>1, <1>2, <2>1, <2>2 DEF CleanSound, InstrumentRows
<1>11. \A f \in backups' \cup {db'} : FileSound(f)
  BY <1>1, <1>2 DEF Core
<1> QED BY <1>2, <1>5, <1>6, <1>8, <1>9, <1>10, <1>11 DEF Core, NoInternalFault

-----------------------------------------------------------------------------
(* The steps of a save, in the order of the stores. *)

(* Taking an entry out of the pending ones and putting a saved one in. *)
LEMMA CommittedPending ==
  ASSUME NEW S, NEW old \in Pending(S), NEW new, new.state = "Clean"
  PROVE  /\ Pending(Committed(S, old, new)) = Pending(S) \ {old}
         /\ Committed(S, old, new) \ Pending(Committed(S, old, new))
              = (S \ Pending(S)) \cup {new}
BY DEF Pending, Committed

LEMMA ProfileSaveCore ==
  ASSUME TypeOK, Core, SaveProfile \/ ProfilesSaved \/ SaveAccount \/ AccountsSaved
  PROVE  Core'
<1> USE DEF caches, profileV, remaps, disk
<1>0. /\ \A n \in SeqNames : seq[n] <= NoId
      /\ Ids(Pending(accounts)) \subseteq TempIds /\ DOMAIN acctRemap \subseteq TempIds
  BY DEF Core, TempsInRange
<1>d. db \in Databases
  BY DEF TypeOK
<1>1. CASE SaveProfile
  <2>1. PICK e \in profiles :
          /\ db' = [db EXCEPT !.profile = db.profile + 1]
          /\ IF activeProfile = e.id
             THEN ActivateProfile(db.profile + 1)
             ELSE UNCHANGED <<accounts, profileV>>
    BY <1>1 DEF SaveProfile
  <2>2. Ids(Pending(accounts')) \subseteq TempIds
    BY <1>0, <2>1, ActivateTemps
  <2>3. /\ db'.instrument = db.instrument /\ db'.position = db.position
        /\ db'.stock = db.stock /\ db'.option = db.option /\ db'.tx = db.tx
    BY <1>d, <2>1 DEF Databases
  <2> QED BY <1>0, <1>1, <2>2, <2>3, AccountSideCore DEF SaveProfile
<1>2. CASE ProfilesSaved
  BY <1>0, <1>2, AccountSideCore DEF ProfilesSaved, Early
<1>3. CASE SaveAccount
  <2>1. CASE Fatal("fkProfile")
    BY <2>1, FatalCore
  <2>2. CASE ~ Fatal("fkProfile")
    <3> DEFINE row == Len(db.account) + 1
               record(e) == [profile |-> acctProfile, name |-> e.name,
                             kind |-> e.kind, cur |-> e.cur]
    <3>1. PICK e \in accounts :
            /\ IsNextPending(e, accounts)
            /\ db' = [db EXCEPT !.account = Append(@, record(e))]
            /\ accounts' = Committed(accounts, e, [e EXCEPT !.id = row, !.state = "Clean"])
            /\ acctRemap' = Extend(acctRemap, e.id, row)
            /\ UNCHANGED <<pc, profiles, positions, stocks, options, txs,
                           profileV, posRemap, stockMap, optionMap, seq,
                           dialog, backups, starts, fault, halfDone>>
      BY <1>3, <2>2 DEF SaveAccount
    <3>2. /\ db'.instrument = db.instrument /\ db'.position = db.position
          /\ db'.stock = db.stock /\ db'.option = db.option /\ db'.tx = db.tx
      BY <1>d, <3>1 DEF Databases
    <3>3. e \in Pending(accounts) /\ e.id \in TempIds
      BY <1>0, <3>1 DEF IsNextPending, Ids
    <3>4. DOMAIN acctRemap' \subseteq TempIds
      BY <1>0, <3>1, <3>3 DEF Extend
    <3>5. [e EXCEPT !.id = row, !.state = "Clean"].state = "Clean"
      <4>1. e \in AccountEntries
        BY DEF TypeOK
      <4>2. \A x : [e EXCEPT !.id = x, !.state = "Clean"].state = "Clean"
        BY <4>1 DEF AccountEntries
      <4> QED BY <4>2, Zenon
    <3>6. Pending(accounts') = Pending(accounts) \ {e}
      <4> DEFINE saved == [e EXCEPT !.id = row, !.state = "Clean"]
      <4>1. accounts' = Committed(accounts, e, saved) /\ saved.state = "Clean"
        BY <3>1, <3>5
      <4> HIDE DEF saved
      <4> QED BY <3>3, <4>1, CommittedPending
    <3>7. Ids(Pending(accounts')) \subseteq TempIds
      BY <1>0, <3>6 DEF Ids
    <3> QED BY <1>0, <3>1, <3>2, <3>4, <3>7, AccountSideCore
  <2> QED BY <2>1, <2>2
<1>4. CASE AccountsSaved
  BY <1>0, <1>4, AccountSideCore DEF AccountsSaved, Early
<1> QED BY <1>1, <1>2, <1>3, <1>4

LEMMA PositionSaveCore ==
  ASSUME TypeOK, Core, SavePosition
  PROVE  Core'
<1> DEFINE row == db.position + 1
<1>1. PICK e \in positions :
        /\ IsNextPending(e, positions)
        /\ db' = [db EXCEPT !.position = row]
        /\ positions' = Committed(positions, e, [id |-> row, state |-> "Clean"])
        /\ posRemap' = Extend(posRemap, e.id, row)
  BY DEF SavePosition
<1>2. /\ pc = "position" /\ pc' = pc
      /\ UNCHANGED <<accounts, stocks, options, txs, acctRemap, stockMap, optionMap,
                     seq, backups, fault>>
  BY DEF SavePosition
<1>3. /\ db \in Databases /\ db.position \in Nat
  BY DEF TypeOK, Databases
<1>4. /\ db'.instrument = db.instrument /\ db'.position = row
      /\ db'.stock = db.stock /\ db'.option = db.option /\ db'.tx = db.tx
  BY <1>1, <1>3 DEF Databases
<1>5. /\ PositionRows \subseteq PositionRows' /\ row \in PositionRows'
      /\ InstrumentRows' = InstrumentRows
  BY <1>3, <1>4 DEF PositionRows, InstrumentRows, Rows
<1>6. Pending(positions') = Pending(positions) \ {e} /\ e \in Pending(positions)
  BY <1>1, CommittedPending DEF IsNextPending
<1>7. /\ Ids(Pending(positions)) \subseteq Ids(Pending(positions')) \cup {e.id}
      /\ Ids(Pending(positions')) \subseteq Ids(Pending(positions))
  BY <1>6 DEF Ids
<1>8. Resolved(posRemap, PositionRows) \cup {e.id} \subseteq Resolved(posRemap', PositionRows')
  BY <1>1, <1>5 DEF Resolved, Extend
<1>9. PositionRefs \subseteq PositionRefs'
  BY <1>2, <1>5, <1>7, <1>8 DEF PositionRefs
<1>10. /\ StockTemps' = StockTemps /\ OptionTemps' = OptionTemps
       /\ InstrTemps' = InstrTemps /\ TempIds' = TempIds
  BY <1>2 DEF StockTemps, OptionTemps, InstrTemps, TempIds
<1>11. UnderlyingRefs' = UnderlyingRefs /\ InstrumentRefs' = InstrumentRefs
  BY <1>2, <1>5, <1>10 DEF UnderlyingRefs, InstrumentRefs
<1>12. PendingResolves'
  BY <1>2, <1>9, <1>11 DEF PendingResolves, Core
<1>13. StagesInOrder'
  BY <1>2 DEF StagesInOrder
<1>14. TempsInRange'
  <2>1. DOMAIN posRemap' \subseteq TempIds
    BY <1>1, <1>6 DEF Extend, Core, TempsInRange, Ids
  <2> QED BY <1>2, <1>7, <1>10, <2>1 DEF TempsInRange, Core
<1>15. MapsDisjoint'
  BY <1>2, <1>10 DEF MapsDisjoint, Core
<1>16. CleanSound'
  BY <1>2, <1>5 DEF CleanSound, Core
<1>17. FileSound(db')
  BY <1>4, <1>5 DEF FileSound, Core, PositionRows
<1> QED BY <1>2, <1>12, <1>13, <1>14, <1>15, <1>16, <1>17 DEF Core, NoInternalFault

LEMMA PositionsSavedCore ==
  ASSUME TypeOK, Core, PositionsSaved
  PROVE  Core'
<1>1. /\ pc = "position" /\ pc' = "stock" /\ Pending(positions) = {}
      /\ DOMAIN stockMap' \subseteq DOMAIN stockMap
      /\ UNCHANGED <<accounts, positions, stocks, options, txs, acctRemap, posRemap,
                     optionMap, seq, db, backups, fault>>
  BY DEF PositionsSaved, EmptyRemap, caches, disk
<1>2. /\ StockTemps' = StockTemps /\ OptionTemps' = OptionTemps
      /\ InstrTemps' = InstrTemps /\ TempIds' = TempIds
      /\ InstrumentRows' = InstrumentRows /\ PositionRows' = PositionRows
  BY <1>1 DEF StockTemps, OptionTemps, InstrTemps, TempIds, InstrumentRows, PositionRows
<1>3. /\ UnderlyingRefs \subseteq UnderlyingRefs'
      /\ InstrumentRefs \subseteq InstrumentRefs'
      /\ PositionRefs' = PositionRefs
  BY <1>1, <1>2 DEF UnderlyingRefs, InstrumentRefs, PositionRefs
<1>4. PendingResolves'
  BY <1>1, <1>3 DEF PendingResolves, Core
<1>5. StagesInOrder'
  BY <1>1 DEF StagesInOrder
<1>6. TempsInRange'
  BY <1>1, <1>2 DEF TempsInRange, Core
<1>7. MapsDisjoint'
  BY <1>1, <1>2 DEF MapsDisjoint, Core
<1>8. CleanSound'
  BY <1>1, <1>2 DEF CleanSound, Core
<1> QED BY <1>1, <1>4, <1>5, <1>6, <1>7, <1>8 DEF Core, NoInternalFault

LEMMA StockSaveCore ==
  ASSUME TypeOK, Core, SaveStock
  PROVE  Core'
<1> DEFINE row == db.instrument + 1
           saved(e) == [e EXCEPT !.id = Len(db.stock) + 1, !.instr = row, !.state = "Clean"]
<1>1. PICK e \in stocks :
        /\ IsNextPending(e, stocks)
        /\ db' = WithStock(db, e.ticker)
        /\ stocks' = Committed(stocks, e, saved(e))
        /\ stockMap' = Extend(stockMap, e.instr, row)
  BY DEF SaveStock
<1>2. /\ pc = "stock" /\ pc' = pc
      /\ UNCHANGED <<accounts, positions, options, txs, acctRemap, posRemap, optionMap,
                     seq, backups, fault>>
  BY DEF SaveStock
<1>3. /\ db \in Databases /\ db.instrument \in Nat
  BY DEF TypeOK, Databases
<1>4. saved(e).state = "Clean" /\ saved(e).instr = row
  <2>1. e \in StockEntries
    BY DEF TypeOK
  <2> HIDE DEF row
  <2> QED BY <2>1 DEF StockEntries
<1>5. /\ db'.instrument = row /\ db'.position = db.position
      /\ db'.stock = Append(db.stock, [instr |-> row, ticker |-> e.ticker])
      /\ db'.option = db.option /\ db'.tx = db.tx
  BY <1>1, <1>3 DEF Databases, WithStock
<1>6. /\ InstrumentRows \subseteq InstrumentRows' /\ row \in InstrumentRows'
      /\ PositionRows' = PositionRows
  BY <1>3, <1>5 DEF PositionRows, InstrumentRows, Rows
<1>7. /\ e \in Pending(stocks)
      /\ Pending(stocks') = Pending(stocks) \ {e}
      /\ stocks' \ Pending(stocks') = (stocks \ Pending(stocks)) \cup {saved(e)}
  <2> HIDE DEF saved
  <2>1. e \in Pending(stocks)
    BY <1>1 DEF IsNextPending
  <2> QED BY <1>1, <1>4, <2>1, CommittedPending
<1> HIDE DEF saved
<1>8. /\ StockTemps \subseteq StockTemps' \cup {e.instr} /\ e.instr \in StockTemps
      /\ StockTemps' \subseteq StockTemps /\ OptionTemps' = OptionTemps
      /\ InstrTemps' = InstrTemps /\ TempIds' = TempIds
  BY <1>2, <1>7 DEF StockTemps, OptionTemps, InstrTemps, TempIds
<1>9. /\ Resolved(stockMap, InstrumentRows) \cup {e.instr}
           \subseteq Resolved(stockMap', InstrumentRows')
      /\ DOMAIN stockMap' = DOMAIN stockMap \cup {e.instr}
  BY <1>1, <1>6 DEF Resolved, Extend
<1>10. /\ UnderlyingRefs \subseteq UnderlyingRefs'
       /\ InstrumentRefs \subseteq InstrumentRefs'
       /\ PositionRefs' = PositionRefs
  BY <1>2, <1>6, <1>8, <1>9 DEF UnderlyingRefs, InstrumentRefs, PositionRefs
<1>11. PendingResolves'
  BY <1>2, <1>10 DEF PendingResolves, Core
<1>12. StagesInOrder'
  BY <1>2 DEF StagesInOrder, Core
<1>13. TempsInRange'
  BY <1>2, <1>8, <1>9 DEF TempsInRange, Core
<1>14. MapsDisjoint'
  BY <1>2, <1>8, <1>9 DEF MapsDisjoint, Core
<1>15. CleanSound'
  BY <1>2, <1>4, <1>6, <1>7 DEF CleanSound, Core
<1>16. FileSound(db')
  <2>1. FileSound(db) /\ db.stock \in Seq(StockRecords)
    BY DEF Core, TypeOK, Databases
  <2>2. \A i \in DOMAIN db'.stock :
          \/ i \in DOMAIN db.stock /\ db'.stock[i] = db.stock[i]
          \/ db'.stock[i].instr = row
    BY <1>5, <2>1
  <2> QED BY <1>5, <1>6, <2>1, <2>2 DEF FileSound, InstrumentRows
<1> QED BY <1>2, <1>11, <1>12, <1>13, <1>14, <1>15, <1>16 DEF Core, NoInternalFault

LEMMA StocksSavedCore ==
  ASSUME TypeOK, Core, StocksSaved
  PROVE  Core'
<1>1. /\ pc = "stock" /\ Pending(stocks) = {} /\ Pending(positions) = {}
  BY DEF StocksSaved, Core, StagesInOrder
<1>2. StockTemps = {}
  BY <1>1 DEF StockTemps
<1>3. \A o \in options \ Pending(options) : o.und \notin DOMAIN stockMap
  BY DEF Core, CleanSound, TempsInRange, InstrTemps, TempIds, InstrumentRows, Rows, NoId
<1>4. \A o \in Pending(options) : RemapOption(o).und \in InstrumentRows
  <2> SUFFICES ASSUME NEW o \in Pending(options)
               PROVE  RemapOption(o).und \in InstrumentRows
    OBVIOUS
  <2>1. o.und \in InstrumentRows \cup Resolved(stockMap, InstrumentRows)
    BY <1>1, <1>2 DEF Core, PendingResolves, UnderlyingRefs
  <2>2. o.und \in InstrumentRows => o.und \notin DOMAIN stockMap
    BY DEF Core, TempsInRange, InstrTemps, TempIds, InstrumentRows, Rows, NoId
  <2>3. Remap(stockMap, o.und) \in InstrumentRows
    BY <2>1, <2>2 DEF Remap, Resolved
  <2>4. o \in OptionEntries /\ o.state = "New"
    BY DEF TypeOK, Pending
  <2> QED BY <2>3, <2>4 DEF RemapOption, OptionEntries
<1>5. /\ pc' = "option"
      /\ DOMAIN optionMap' \subseteq DOMAIN optionMap
      /\ UNCHANGED <<accounts, positions, stocks, txs, acctRemap, posRemap, stockMap,
                     seq, db, backups, fault>>
      /\ \/ options' = options /\ Pending(options) = {}
         \/ options' = {RemapOption(o) : o \in options}
  BY <1>3 DEF StocksSaved, EmptyRemap, caches, profileV, remaps, disk
<1>6. /\ \A o \in Pending(options') : o.und \in InstrumentRows
      /\ \A o \in options' \ Pending(options') : o \in options \ Pending(options)
      /\ OptionTemps' = OptionTemps
  <2>1. CASE options' = options /\ Pending(options) = {}
    BY <2>1 DEF OptionTemps
  <2>2. CASE options' = {RemapOption(o) : o \in options}
    <3>1. \A o \in options : /\ RemapOption(o).state = o.state
                             /\ RemapOption(o).instr = o.instr
                             /\ o.state # "New" => RemapOption(o) = o
      <4>1. \A o \in OptionEntries : \A x :
              [o EXCEPT !.und = x].state = o.state /\ [o EXCEPT !.und = x].instr = o.instr
        BY DEF OptionEntries
      <4> QED BY <4>1 DEF RemapOption, TypeOK
    <3> QED BY <1>4, <2>2, <3>1 DEF OptionTemps, Pending
  <2> QED BY <1>5, <2>1, <2>2
<1>7. /\ StockTemps' = StockTemps /\ InstrTemps' = InstrTemps /\ TempIds' = TempIds
      /\ InstrumentRows' = InstrumentRows /\ PositionRows' = PositionRows
  BY <1>5 DEF StockTemps, InstrTemps, TempIds, InstrumentRows, PositionRows
<1>8. /\ InstrumentRows \subseteq UnderlyingRefs'
      /\ InstrumentRefs \subseteq InstrumentRefs'
      /\ PositionRefs' = PositionRefs
  BY <1>1, <1>5, <1>6, <1>7 DEF UnderlyingRefs, InstrumentRefs, PositionRefs
<1>9. PendingResolves'
  BY <1>5, <1>6, <1>8 DEF PendingResolves, Core
<1>10. StagesInOrder'
  BY <1>1, <1>5 DEF StagesInOrder
<1>11. TempsInRange'
  BY <1>5, <1>6, <1>7 DEF TempsInRange, Core
<1>12. MapsDisjoint'
  BY <1>5, <1>6, <1>7 DEF MapsDisjoint, Core
<1>13. CleanSound'
  BY <1>5, <1>6, <1>7 DEF CleanSound, Core
<1> QED BY <1>5, <1>9, <1>10, <1>11, <1>12, <1>13 DEF Core, NoInternalFault

LEMMA WithStockFields ==
  ASSUME NEW d \in Databases, NEW t
  PROVE  /\ WithStock(d, t).instrument = d.instrument + 1
         /\ WithStock(d, t).position = d.position
         /\ WithStock(d, t).stock = Append(d.stock, [instr |-> d.instrument + 1, ticker |-> t])
         /\ WithStock(d, t).option = d.option /\ WithStock(d, t).tx = d.tx
BY DEF WithStock, Databases

LEMMA WithStockSound ==
  ASSUME NEW d \in Databases, NEW t, FileSound(d)
  PROVE  FileSound(WithStock(d, t))
<1> DEFINE e == WithStock(d, t)
           row == d.instrument + 1
<1>1. /\ e.instrument = row /\ e.position = d.position
      /\ e.stock = Append(d.stock, [instr |-> row, ticker |-> t])
      /\ e.option = d.option /\ e.tx = d.tx
  BY WithStockFields
<1>2. d.instrument \in Nat /\ d.stock \in Seq(StockRecords)
  BY DEF Databases
<1> HIDE DEF e
<1>3. Rows(d.instrument) \subseteq Rows(e.instrument) /\ row \in Rows(e.instrument)
  BY <1>1, <1>2 DEF Rows
<1>4. \A i \in DOMAIN e.stock :
        \/ i \in DOMAIN d.stock /\ e.stock[i] = d.stock[i]
        \/ e.stock[i].instr = row
  BY <1>1, <1>2
<1> QED BY <1>1, <1>3, <1>4 DEF FileSound, e

LEMMA OptionSaveCore ==
  ASSUME TypeOK, Core, SaveOption
  PROVE  Core'
<1> DEFINE known(e) == \E i \in DOMAIN db.stock : db.stock[i].ticker = e.ticker
           d(e) == IF known(e) THEN db ELSE WithStock(db, e.ticker)
           saved(e, row) == [e EXCEPT !.id = Len(db.option) + 1, !.instr = row,
                                      !.state = "Clean"]
<1>1. /\ pc = "option" /\ Pending(stocks) = {} /\ Pending(positions) = {}
      /\ db \in Databases /\ db.instrument \in Nat /\ FileSound(db)
  BY DEF SaveOption, Core, StagesInOrder, TypeOK, Databases
<1>2. PICK e \in options :
        /\ IsNextPending(e, options)
        /\ IF e.und \notin Rows(d(e).instrument)
           THEN Fatal("fkInstrument")
           ELSE /\ db' = [d(e) EXCEPT !.instrument = d(e).instrument + 1,
                            !.option = Append(@, [instr |-> d(e).instrument + 1,
                                                  und |-> e.und])]
                /\ options' = Committed(options, e, saved(e, d(e).instrument + 1))
                /\ optionMap' = Extend(optionMap, e.instr, d(e).instrument + 1)
                /\ UNCHANGED <<pc, profiles, accounts, positions, stocks, txs,
                               profileV, acctRemap, posRemap, stockMap, seq,
                               dialog, backups, starts, fault, halfDone>>
  BY DEF SaveOption
<1>3. /\ d(e) \in Databases /\ FileSound(d(e)) /\ d(e).position = db.position
      /\ d(e).instrument \in Nat /\ InstrumentRows \subseteq Rows(d(e).instrument)
  <2>1. CASE known(e)
    BY <1>1, <2>1 DEF InstrumentRows
  <2>2. CASE ~ known(e)
    <3>1. e.ticker \in Tickers
      BY DEF TypeOK, OptionEntries
    <3>2. WithStock(db, e.ticker) \in Databases
      BY <1>1, <3>1, DbTypes
    <3>3. FileSound(WithStock(db, e.ticker))
      BY <1>1, WithStockSound
    <3>4. /\ WithStock(db, e.ticker).instrument = db.instrument + 1
          /\ WithStock(db, e.ticker).position = db.position
      BY <1>1, WithStockFields
    <3> QED BY <1>1, <2>2, <3>2, <3>3, <3>4 DEF InstrumentRows, Rows
  <2> QED BY <2>1, <2>2
<1> DEFINE f == d(e)
           row == f.instrument + 1
           new == saved(e, row)
<1>4. /\ e \in Pending(options) /\ e \in OptionEntries
  BY <1>2 DEF IsNextPending, TypeOK
<1>5. e.und \in InstrumentRows
  BY <1>1, <1>4 DEF Core, PendingResolves, UnderlyingRefs, StockTemps
<1> HIDE DEF d
<1>6. /\ db' = [f EXCEPT !.instrument = row,
                         !.option = Append(@, [instr |-> row, und |-> e.und])]
      /\ options' = Committed(options, e, new)
      /\ optionMap' = Extend(optionMap, e.instr, row)
      /\ UNCHANGED <<pc, accounts, positions, stocks, txs, acctRemap, posRemap,
                     stockMap, seq, backups, fault>>
  BY <1>2, <1>3, <1>5
<1>7. new.state = "Clean" /\ new.und = e.und
  <2>1. \A x, y : /\ [e EXCEPT !.id = x, !.instr = y, !.state = "Clean"].state = "Clean"
                  /\ [e EXCEPT !.id = x, !.instr = y, !.state = "Clean"].und = e.und
    BY <1>4 DEF OptionEntries
  <2> QED BY <2>1, Zenon
<1>8. f \in Databases /\ FileSound(f) /\ f.position = db.position
      /\ f.instrument \in Nat /\ InstrumentRows \subseteq Rows(f.instrument)
  BY <1>3
<1> HIDE DEF f, new
<1>9. /\ db'.instrument = row /\ db'.position = db.position
      /\ db'.option = Append(f.option, [instr |-> row, und |-> e.und])
      /\ db'.stock = f.stock /\ db'.tx = f.tx
  BY <1>6, <1>8 DEF Databases
<1>10. /\ Rows(f.instrument) \subseteq InstrumentRows' /\ row \in InstrumentRows'
       /\ InstrumentRows \subseteq InstrumentRows' /\ PositionRows' = PositionRows
  BY <1>8, <1>9 DEF PositionRows, InstrumentRows, Rows
<1>11. /\ Pending(options') = Pending(options) \ {e}
       /\ options' \ Pending(options') = (options \ Pending(options)) \cup {new}
  BY <1>4, <1>6, <1>7, CommittedPending
<1>12. /\ OptionTemps \subseteq OptionTemps' \cup {e.instr} /\ e.instr \in OptionTemps
       /\ OptionTemps' \subseteq OptionTemps /\ StockTemps' = StockTemps
       /\ InstrTemps' = InstrTemps /\ TempIds' = TempIds
  BY <1>4, <1>6, <1>11 DEF StockTemps, OptionTemps, InstrTemps, TempIds
<1>13. /\ Resolved(optionMap, InstrumentRows) \cup {e.instr}
            \subseteq Resolved(optionMap', InstrumentRows')
       /\ Resolved(stockMap, InstrumentRows) \subseteq Resolved(stockMap', InstrumentRows')
       /\ DOMAIN optionMap' = DOMAIN optionMap \cup {e.instr}
  BY <1>6, <1>10 DEF Resolved, Extend
<1>14. /\ UnderlyingRefs \subseteq UnderlyingRefs'
       /\ InstrumentRefs \subseteq InstrumentRefs'
       /\ PositionRefs' = PositionRefs
  BY <1>1, <1>6, <1>10, <1>12, <1>13 DEF UnderlyingRefs, InstrumentRefs, PositionRefs
<1>15. PendingResolves'
  BY <1>6, <1>11, <1>14 DEF PendingResolves, Core
<1>16. StagesInOrder'
  BY <1>1, <1>6 DEF StagesInOrder
<1>17. TempsInRange'
  BY <1>6, <1>12, <1>13 DEF TempsInRange, Core
<1>18. MapsDisjoint'
  BY <1>6, <1>12, <1>13 DEF MapsDisjoint, Core
<1>19. CleanSound'
  BY <1>5, <1>6, <1>7, <1>10, <1>11 DEF CleanSound, Core
<1>20. FileSound(db')
  <2>1. f.option \in Seq(OptionRecords)
    BY <1>8 DEF Databases
  <2>2. \A i \in DOMAIN db'.option :
          \/ i \in DOMAIN f.option /\ db'.option[i] = f.option[i]
          \/ db'.option[i].und = e.und
    BY <1>9, <2>1
  <2> QED BY <1>5, <1>8, <1>9, <1>10, <2>2 DEF FileSound, InstrumentRows
<1> QED BY <1>6, <1>15, <1>16, <1>17, <1>18, <1>19, <1>20 DEF Core, NoInternalFault

LEMMA OptionsSavedCore ==
  ASSUME TypeOK, Core, OptionsSaved
  PROVE  Core'
<1>1. /\ pc = "option" /\ Pending(options) = {} /\ Pending(stocks) = {}
      /\ Pending(positions) = {} /\ StockTemps = {} /\ OptionTemps = {}
  BY DEF OptionsSaved, Core, StagesInOrder, StockTemps, OptionTemps
<1>2. DOMAIN stockMap \cap DOMAIN optionMap = {}
  BY DEF Core, MapsDisjoint
<1>3. DOMAIN InstrumentMap = DOMAIN stockMap \cup DOMAIN optionMap
  BY DEF InstrumentMap
<1>4. \A i \in {NoId} \cup InstrumentRows \cup PositionRows :
        i \notin DOMAIN InstrumentMap /\ i \notin DOMAIN posRemap
  BY <1>3 DEF Core, TempsInRange, InstrTemps, TempIds, InstrumentRows, PositionRows,
              Rows, NoId
<1>5. \A t \in txs \ Pending(txs) : ~ NamesRemappedId(t)
  <2> SUFFICES ASSUME NEW t \in txs \ Pending(txs) PROVE ~ NamesRemappedId(t)
    OBVIOUS
  <2>1. t.accts \cap DOMAIN acctRemap = {}
    BY DEF Core, CleanSound, TempsInRange, TempIds, NoId, TypeOK, TxEntries
  <2>2. t.instr \notin DOMAIN InstrumentMap /\ t.pos \notin DOMAIN posRemap
    BY <1>4 DEF Core, CleanSound
  <2> QED BY <2>1, <2>2 DEF NamesRemappedId
<1>6. \A t \in Pending(txs) : /\ RemapTx(t).instr \in {NoId} \cup InstrumentRows
                              /\ RemapTx(t).pos \in {NoId} \cup PositionRows
  <2> SUFFICES ASSUME NEW t \in Pending(txs)
               PROVE  /\ RemapTx(t).instr \in {NoId} \cup InstrumentRows
                      /\ RemapTx(t).pos \in {NoId} \cup PositionRows
    OBVIOUS
  <2>1. /\ t.instr \in {NoId} \cup InstrumentRows \cup Resolved(stockMap, InstrumentRows)
                         \cup Resolved(optionMap, InstrumentRows)
        /\ t.pos \in {NoId} \cup PositionRows \cup Resolved(posRemap, PositionRows)
    BY <1>1 DEF Core, PendingResolves, InstrumentRefs, PositionRefs, Ids
  <2>2. Remap(InstrumentMap, t.instr) \in {NoId} \cup InstrumentRows
    BY <1>2, <1>3, <1>4, <2>1 DEF Remap, Resolved, InstrumentMap
  <2>3. Remap(posRemap, t.pos) \in {NoId} \cup PositionRows
    BY <1>4, <2>1 DEF Remap, Resolved
  <2>4. t \in TxEntries /\ t.state = "New"
    BY DEF TypeOK, Pending
  <2>5. RemapTx(t).instr = Remap(InstrumentMap, t.instr)
        /\ RemapTx(t).pos = Remap(posRemap, t.pos)
    BY <2>4 DEF RemapTx, TxEntries
  <2> QED BY <2>2, <2>3, <2>5
<1>7. /\ pc' = "tx"
      /\ UNCHANGED <<accounts, positions, stocks, options, acctRemap, posRemap, stockMap,
                     optionMap, seq, db, backups, fault>>
      /\ \/ txs' = txs /\ Pending(txs) = {}
         \/ txs' = {RemapTx(t) : t \in txs}
  BY <1>2, <1>5 DEF OptionsSaved, caches, profileV, remaps, disk
<1>8. /\ \A t \in Pending(txs') : /\ t.instr \in {NoId} \cup InstrumentRows
                                  /\ t.pos \in {NoId} \cup PositionRows
      /\ \A t \in txs' \ Pending(txs') : t \in txs \ Pending(txs)
  <2>1. CASE txs' = txs /\ Pending(txs) = {}
    BY <2>1
  <2>2. CASE txs' = {RemapTx(t) : t \in txs}
    <3>1. \A t \in txs : /\ RemapTx(t).state = t.state
                         /\ t.state # "New" => RemapTx(t) = t
      <4>1. \A t \in TxEntries : \A x, y, z :
              [t EXCEPT !.accts = x, !.instr = y, !.pos = z].state = t.state
        BY DEF TxEntries
      <4> QED BY <4>1 DEF RemapTx, TypeOK
    <3> QED BY <1>6, <2>2, <3>1 DEF Pending
  <2> QED BY <1>7, <2>1, <2>2
<1>9. /\ StockTemps' = StockTemps /\ OptionTemps' = OptionTemps
      /\ InstrTemps' = InstrTemps /\ TempIds' = TempIds
      /\ InstrumentRows' = InstrumentRows /\ PositionRows' = PositionRows
  BY <1>7 DEF StockTemps, OptionTemps, InstrTemps, TempIds, InstrumentRows, PositionRows
<1>10. /\ {NoId} \cup InstrumentRows \subseteq InstrumentRefs'
       /\ {NoId} \cup PositionRows \subseteq PositionRefs'
  BY <1>9 DEF InstrumentRefs, PositionRefs
<1>11. PendingResolves'
  BY <1>1, <1>7, <1>8, <1>10 DEF PendingResolves
<1>12. StagesInOrder'
  BY <1>1, <1>7 DEF StagesInOrder
<1>13. TempsInRange'
  BY <1>7, <1>9 DEF TempsInRange, Core
<1>14. MapsDisjoint'
  BY <1>7, <1>9 DEF MapsDisjoint, Core
<1>15. CleanSound'
  BY <1>7, <1>8, <1>9 DEF CleanSound, Core
<1> QED BY <1>7, <1>11, <1>12, <1>13, <1>14, <1>15 DEF Core, NoInternalFault

LEMMA TxSaveCore ==
  ASSUME TypeOK, Core, SaveTx
  PROVE  Core'
<1> DEFINE record(e) == [accts |-> e.accts, instr |-> e.instr, pos |-> e.pos]
           saved(e) == [e EXCEPT !.id = Len(db.tx) + 1, !.state = "Clean"]
<1>1. PICK e \in txs :
        /\ IsNextPending(e, txs)
        /\ IF ~ (e.instr \in InstrumentRows \cup {NoId} /\ e.pos \in PositionRows \cup {NoId})
           THEN Fatal("fkInstrument")
           ELSE IF ~ (e.accts \subseteq AccountRows)
           THEN Fatal("fkAccount")
           ELSE /\ db' = [db EXCEPT !.tx = Append(@, record(e))]
                /\ txs' = Committed(txs, e, saved(e))
                /\ UNCHANGED <<pc, profiles, accounts, positions, stocks, options,
                               profileV, remaps, seq, dialog, backups, starts,
                               fault, halfDone>>
  BY DEF SaveTx
<1>2. /\ pc = "tx" /\ Pending(stocks) = {} /\ Pending(options) = {}
      /\ Pending(positions) = {} /\ StockTemps = {} /\ OptionTemps = {}
  BY DEF SaveTx, Core, StagesInOrder, StockTemps, OptionTemps
<1>3. e \in Pending(txs) /\ e \in TxEntries
  BY <1>1 DEF IsNextPending, TypeOK
<1>4. /\ e.instr \in InstrumentRows \cup {NoId} /\ e.pos \in PositionRows \cup {NoId}
  BY <1>2, <1>3 DEF Core, PendingResolves, InstrumentRefs, PositionRefs, Ids
<1>5. CASE Fatal("fkAccount")
  BY <1>5, FatalCore
<1>6. CASE ~ Fatal("fkAccount")
  <2>1. /\ db' = [db EXCEPT !.tx = Append(@, record(e))]
        /\ txs' = Committed(txs, e, saved(e))
        /\ e.accts \subseteq AccountRows
        /\ UNCHANGED <<pc, accounts, positions, stocks, options, acctRemap, posRemap,
                       stockMap, optionMap, seq, backups, fault>>
    BY <1>1, <1>4, <1>6 DEF remaps
  <2>2. /\ saved(e).state = "Clean" /\ saved(e).accts = e.accts
        /\ saved(e).instr = e.instr /\ saved(e).pos = e.pos
    <3>1. \A x : LET u == [e EXCEPT !.id = x, !.state = "Clean"]
                 IN u.state = "Clean" /\ u.accts = e.accts /\ u.instr = e.instr /\ u.pos = e.pos
      BY <1>3 DEF TxEntries
    <3> QED BY <3>1, Zenon
  <2>3. /\ Pending(txs') = Pending(txs) \ {e}
        /\ txs' \ Pending(txs') = (txs \ Pending(txs)) \cup {saved(e)}
    <3> HIDE DEF saved
    <3> QED BY <1>3, <2>1, <2>2, CommittedPending
  <2> HIDE DEF saved
  <2>4. /\ db \in Databases /\ db.tx \in Seq(TxRecords) /\ FileSound(db)
    BY DEF TypeOK, Core, Databases
  <2>5. /\ db'.instrument = db.instrument /\ db'.position = db.position
        /\ db'.stock = db.stock /\ db'.option = db.option
        /\ db'.tx = Append(db.tx, record(e))
    BY <2>1, <2>4 DEF Databases
  <2>6. /\ InstrumentRows' = InstrumentRows /\ PositionRows' = PositionRows
        /\ StockTemps' = StockTemps /\ OptionTemps' = OptionTemps
        /\ InstrTemps' = InstrTemps /\ TempIds' = TempIds
    BY <2>1, <2>5 DEF StockTemps, OptionTemps, InstrTemps, TempIds, InstrumentRows,
                      PositionRows
  <2>7. /\ UnderlyingRefs' = UnderlyingRefs /\ InstrumentRefs' = InstrumentRefs
        /\ PositionRefs' = PositionRefs
    BY <1>2, <2>1, <2>6 DEF UnderlyingRefs, InstrumentRefs, PositionRefs
  <2>8. PendingResolves'
    BY <2>1, <2>3, <2>7 DEF PendingResolves, Core
  <2>9. StagesInOrder'
    BY <1>2, <2>1 DEF StagesInOrder
  <2>10. TempsInRange'
    BY <2>1, <2>6 DEF TempsInRange, Core
  <2>11. MapsDisjoint'
    BY <2>1, <2>6 DEF MapsDisjoint, Core
  <2>12. CleanSound'
    <3>1. \A a \in e.accts : a > NoId
      BY <2>1 DEF AccountRows, TypeOK, Databases, NoId
    <3> QED BY <1>4, <2>1, <2>2, <2>3, <2>6, <3>1 DEF CleanSound, Core
  <2>13. FileSound(db')
    <3>1. \A i \in DOMAIN db'.tx :
            \/ i \in DOMAIN db.tx /\ db'.tx[i] = db.tx[i]
            \/ db'.tx[i].pos = e.pos
      BY <2>4, <2>5
    <3> QED BY <1>4, <2>4, <2>5, <3>1 DEF FileSound, PositionRows
  <2> QED BY <2>1, <2>8, <2>9, <2>10, <2>11, <2>12, <2>13 DEF Core, NoInternalFault
<1> QED BY <1>5, <1>6

LEMMA TxsSavedCore ==
  ASSUME TypeOK, Core, TxsSaved
  PROVE  Core'
<1>1. /\ pc = "tx" /\ pc' = "idle" /\ Pending(txs) = {} /\ Pending(options) = {}
      /\ DOMAIN acctRemap' = {} /\ DOMAIN posRemap' = {}
      /\ UNCHANGED <<accounts, positions, stocks, options, txs, stockMap, optionMap,
                     seq, db, backups, fault>>
  BY DEF TxsSaved, Core, StagesInOrder, EmptyRemap, caches, disk
<1>2. /\ StockTemps' = StockTemps /\ OptionTemps' = OptionTemps
      /\ InstrTemps' = InstrTemps /\ TempIds' = TempIds
      /\ InstrumentRows' = InstrumentRows /\ PositionRows' = PositionRows
  BY <1>1 DEF StockTemps, OptionTemps, InstrTemps, TempIds, InstrumentRows, PositionRows
<1>3. PendingResolves'
  BY <1>1 DEF PendingResolves
<1>4. StagesInOrder'
  BY <1>1 DEF StagesInOrder
<1>5. TempsInRange'
  BY <1>1, <1>2 DEF TempsInRange, Core
<1>6. MapsDisjoint'
  BY <1>1, <1>2 DEF MapsDisjoint, Core
<1>7. CleanSound'
  BY <1>1, <1>2 DEF CleanSound, Core
<1> QED BY <1>1, <1>3, <1>4, <1>5, <1>6, <1>7 DEF Core, NoInternalFault

-----------------------------------------------------------------------------
(* The theorems. *)

LEMMA InitCore == Init => Core
<1> SUFFICES ASSUME Init PROVE Core
  OBVIOUS
<1>1. /\ Pending(stocks) = {} /\ Pending(options) = {} /\ Pending(txs) = {}
      /\ Pending(accounts) = {} /\ Pending(positions) = {}
  BY DEF Init, Pending
<1>2. /\ StockTemps = {} /\ OptionTemps = {}
      /\ Ids(Pending(accounts)) = {} /\ Ids(Pending(positions)) = {}
  BY <1>1 DEF StockTemps, OptionTemps, Ids
<1>3. /\ DOMAIN acctRemap = {} /\ DOMAIN posRemap = {}
      /\ DOMAIN stockMap = {} /\ DOMAIN optionMap = {}
  BY DEF Init, EmptyRemap
<1>4. TempsInRange
  BY <1>2, <1>3 DEF Init, TempsInRange, NoId
<1>5. PendingResolves /\ StagesInOrder /\ MapsDisjoint /\ CleanSound
  BY <1>1, <1>2, <1>3
  DEF Init, PendingResolves, StagesInOrder, MapsDisjoint, CleanSound
<1>6. \A d \in backups \cup {db} : FileSound(d)
  BY DEF Init, FileSound
<1>7. NoInternalFault
  BY DEF Init, NoInternalFault
<1> QED BY <1>4, <1>5, <1>6, <1>7 DEF Core

LEMMA StepCore == TypeOK /\ Core /\ [Next]_vars => Core'
<1> SUFFICES ASSUME TypeOK, Core, [Next]_vars PROVE Core'
  OBVIOUS
<1>1. CASE Start \/ Quit \/ Interrupt
  BY <1>1, LifeCore
<1>2. CASE UserAction
  BY <1>2, ProfileUserCore, AddStockCore, CashCore, StockTradeCore, OptionTradeCore,
     RestoreCore DEF UserAction
<1>3. CASE SaveStep
  BY <1>3, ProfileSaveCore, PositionSaveCore, PositionsSavedCore, StockSaveCore,
     StocksSavedCore, OptionSaveCore, OptionsSavedCore, TxSaveCore, TxsSavedCore
  DEF SaveStep
<1>4. CASE UNCHANGED vars
  <2>1. /\ Ids(Pending(accounts')) \subseteq TempIds /\ DOMAIN acctRemap' \subseteq TempIds
        /\ \A n \in SeqNames : seq'[n] <= NoId
    BY <1>4 DEF Core, TempsInRange, vars, caches, remaps
  <2> QED BY <1>4, <2>1, AccountSideCore DEF vars, caches, remaps, disk
<1> QED BY <1>1, <1>2, <1>3, <1>4 DEF Next

(* The inductive invariant holds in every behaviour: whatever is pending    *)
(* can be turned into rows, temporary ids are never shared by the stock and *)
(* the option store, and what is saved refers to rows only.                 *)
THEOREM StoresConsistent == Spec => []Consistent
<1>1. Init => TypeOK /\ Core
  BY InitType, InitCore
<1>2. TypeOK /\ Core /\ [Next]_vars => (TypeOK /\ Core)'
  BY StepType, StepCore
<1>3. TypeOK /\ Core => Consistent
  BY DEF Core, Consistent
<1> QED BY <1>1, <1>2, <1>3, PTL DEF Spec

(* A save never ends the program because of its own bookkeeping: the maps   *)
(* of the stock and the option store combine, nothing saved names an id     *)
(* that was just remapped, and every instrument and position reference that *)
(* reaches the database is a row (StoreContainer::commit).                  *)
THEOREM SaveNeverFaults == Spec => []NoInternalFault
<1>1. Consistent => NoInternalFault
  BY DEF Consistent
<1> QED BY <1>1, StoresConsistent, PTL

(* At any time, in particular in the middle of a save, every reference a    *)
(* pending option or transaction holds can still be turned into a row.      *)
THEOREM ReferencesResolve == Spec => []PendingResolves
<1>1. Consistent => PendingResolves
  BY DEF Consistent
<1> QED BY <1>1, StoresConsistent, PTL

-----------------------------------------------------------------------------
(* Caches and file agree.                                                  *)
(*                                                                         *)
(* Each part of Mirror is disturbed by a few of the actions only; for each  *)
(* a lemma of cases (AccountCases, InstrumentCases, TradeCases) splits the  *)
(* steps into those and the ones that leave the part alone.                 *)

(* The rows after one is added. *)
LEMMA AppendRows ==
  ASSUME NEW T, NEW s \in Seq(T), NEW r \in T
  PROVE  /\ DOMAIN s = 1..Len(s) /\ Len(s) \in Nat
         /\ DOMAIN Append(s, r) = DOMAIN s \cup {Len(s) + 1}
         /\ Len(s) + 1 \notin DOMAIN s
         /\ \A i \in DOMAIN s : Append(s, r)[i] = s[i]
         /\ Append(s, r)[Len(s) + 1] = r
OBVIOUS

(* The process ends: by the user, by an exception, or by a death that may  *)
(* leave an instrument row behind.                                         *)
Ends ==
  /\ pc' = "off" /\ ClearedMemory /\ backups' = backups
  /\ \/ pc = "idle" /\ halfDone' = halfDone /\ db' = db
     \/ halfDone' /\ (db' = db \/ db' = [db EXCEPT !.instrument = @ + 1])

LEMMA EndSteps ==
  ASSUME TypeOK
  PROVE  /\ Quit => Ends /\ db' = db
         /\ Interrupt => Ends
         /\ \A cause : Fatal(cause) => Ends /\ db' = db
BY DEF Quit, Interrupt, Fatal, Ends, disk

LEMMA EndRows ==
  ASSUME TypeOK, Ends
  PROVE  /\ db'.account = db.account /\ db'.profile = db.profile
         /\ db'.stock = db.stock /\ db'.option = db.option
         /\ db'.position = db.position /\ db'.tx = db.tx
         /\ ~ halfDone' => db' = db /\ ~ halfDone /\ pc = "idle"
<1>1. db \in Databases
  BY DEF TypeOK
<1> QED BY <1>1 DEF Ends, Databases

-----------------------------------------------------------------------------
(* Profiles and accounts. *)

(* Steps that leave profiles and accounts alone. *)
AccountsKept ==
  /\ UNCHANGED <<profiles, accounts, activeProfile, acctProfile, session, acctRemap,
                 backups>>
  /\ db'.account = db.account /\ db'.profile = db.profile
  /\ seq'["account"] = seq["account"]
  /\ halfDone => halfDone'
  /\ \/ pc' = pc
     \/ pc = "idle" /\ pc' = "profile"
     \/ pc = "profile" /\ pc' = "account"
     \/ {pc, pc'} \subseteq {"position", "stock", "option", "tx"}

LEMMA WithStockRows ==
  ASSUME NEW d \in Databases, NEW t \in Tickers
  PROVE  /\ WithStock(d, t).account = d.account /\ WithStock(d, t).profile = d.profile
         /\ WithStock(d, t).option = d.option /\ WithStock(d, t).tx = d.tx
         /\ WithStock(d, t).position = d.position
         /\ WithStock(d, t).instrument = d.instrument + 1
         /\ WithStock(d, t).stock =
              Append(d.stock, [instr |-> d.instrument + 1, ticker |-> t])
         /\ WithStock(d, t) \in Databases
BY DbTypes DEF WithStock, Databases

LEMMA AccountCases ==
  ASSUME TypeOK, [Next]_vars
  PROVE  \/ Ends \/ Start \/ SelectProfile \/ AddProfile \/ CreateSomeAccount
         \/ SaveProfile \/ (SaveAccount /\ acctProfile \in ProfileRows) \/ AccountsSaved
         \/ TxsSaved \/ Restore
         \/ AccountsKept
<1> USE DEF caches, profileV, remaps, disk
<1>0. db \in Databases /\ db \in [profile : Nat, position : Nat, instrument : Nat,
   account : Seq(AccountRecords), stock : Seq(StockRecords),
   option : Seq(OptionRecords), tx : Seq(TxRecords)]
  BY DEF TypeOK, Databases
<1>1. CASE Start \/ Quit \/ Interrupt
  BY <1>1, EndSteps
<1>2. CASE UserAction
  <2>1. ASSUME NEW t \in Tickers, AddStock(t) PROVE AccountsKept
    BY <2>1 DEF AddStock, AccountsKept, TypeOK, SeqNames
  <2>2. CASE CreateStockTransaction
    <3>1. seq'["account"] = seq["account"]
      BY <2>2 DEF CreateStockTransaction, Drawn, SeqNames
    <3> QED BY <2>2, <3>1 DEF CreateStockTransaction, AddTrade, AccountsKept
  <2>3. CASE CreateOptionTransaction
    <3>1. seq'["account"] = seq["account"]
      BY <2>3 DEF CreateOptionTransaction, Drawn, SeqNames
    <3> QED BY <2>3, <3>1 DEF CreateOptionTransaction, AddTrade, AccountsKept
  <2>4. CASE OpenDialog
    BY <2>4 DEF OpenDialog, AccountsKept
  <2>5. CASE CreateCashTransaction
    BY <2>5 DEF CreateCashTransaction, AccountsKept, TypeOK, SeqNames
  <2>6. CASE Save
    BY <2>6 DEF Save, Running, AccountsKept
  <2> QED BY <1>2, <2>1, <2>2, <2>3, <2>4, <2>5, <2>6 DEF UserAction, AddSomeStock
<1>3. CASE SaveStep
  <2>1. CASE ProfilesSaved
    BY <2>1 DEF ProfilesSaved, AccountsKept
  <2>2. CASE SaveAccount /\ acctProfile \notin ProfileRows
    BY <2>2, EndSteps DEF SaveAccount
  <2>3. CASE SavePosition
    BY <1>0, <2>3 DEF SavePosition, AccountsKept
  <2>4. CASE PositionsSaved
    BY <2>4 DEF PositionsSaved, AccountsKept
  <2>5. CASE SaveStock
    <3>1. PICK e \in stocks : db' = WithStock(db, e.ticker)
      BY <2>5 DEF SaveStock
    <3>2. e.ticker \in Tickers
      BY DEF TypeOK, StockEntries
    <3> QED BY <1>0, <2>5, <3>1, <3>2, WithStockRows DEF SaveStock, AccountsKept
  <2>6. CASE StocksSaved
    BY <2>6, EndSteps DEF StocksSaved, AccountsKept
  <2>7. CASE SaveOption
    <3>1. PICK e \in options : SaveOption!2!(e)
      BY <2>7 DEF SaveOption
    <3>2. e.ticker \in Tickers
      BY DEF TypeOK, OptionEntries
    <3>3. CASE Fatal("fkInstrument")
      BY <3>3, EndSteps
    <3>4. CASE ~ Fatal("fkInstrument")
      <4> DEFINE known == \E i \in DOMAIN db.stock : db.stock[i].ticker = e.ticker
                 d == IF known THEN db ELSE WithStock(db, e.ticker)
                 instr == d.instrument + 1
                 row == [instr |-> instr, und |-> e.und]
      <4>1. /\ db' = [d EXCEPT !.instrument = instr, !.option = Append(@, row)]
            /\ UNCHANGED <<pc, profiles, accounts, positions, stocks, txs,
                                 profileV, acctRemap, posRemap, stockMap, seq,
                                 dialog, backups, starts, fault, halfDone>>
        BY <3>1, <3>4
      <4>2. d \in Databases /\ d.account = db.account /\ d.profile = db.profile
        BY <1>0, <3>2, WithStockRows
      <4> HIDE DEF d, instr, row, known
      <4>3. db'.account = db.account /\ db'.profile = db.profile
        BY <4>1, <4>2 DEF Databases
      <4> QED BY <4>1, <4>3 DEF AccountsKept
    <3> QED BY <3>3, <3>4
  <2>8. CASE OptionsSaved
    BY <2>8, EndSteps DEF OptionsSaved, AccountsKept
  <2>9. CASE SaveTx
    <3>1. CASE \E cause : Fatal(cause)
      BY <3>1, EndSteps
    <3>2. CASE ~ \E cause : Fatal(cause)
      <4>1. PICK e \in txs :
              /\ db' = [db EXCEPT !.tx = Append(@, [accts |-> e.accts,
                                            instr |-> e.instr, pos |-> e.pos])]
              /\ UNCHANGED <<pc, profiles, accounts, positions, stocks, options,
                              profileV, remaps, seq, dialog, backups, starts,
                              fault, halfDone>>
        BY <2>9, <3>2 DEF SaveTx
      <4> QED BY <1>0, <4>1 DEF AccountsKept
    <3> QED BY <3>1, <3>2
  <2> QED BY <1>3, <2>1, <2>2, <2>3, <2>4, <2>5, <2>6, <2>7, <2>8, <2>9 DEF SaveStep
<1>4. CASE UNCHANGED vars
  BY <1>4 DEF vars, AccountsKept
<1> QED BY <1>1, <1>2, <1>3, <1>4 DEF Next

(* The values of a function on a finite set are finitely many, and as many *)
(* as its arguments when it takes none twice.                              *)
LEMMA ImageFinite ==
  ASSUME NEW S, IsFiniteSet(S), NEW f, DOMAIN f = S, f = [x \in S |-> f[x]]
  PROVE  /\ IsFiniteSet({f[x] : x \in S})
         /\ (\A x, y \in S : f[x] = f[y] => x = y) =>
              Cardinality({f[x] : x \in S}) = Cardinality(S)
<1> DEFINE T == {f[x] : x \in S}
<1>1. f \in Surjection(S, T)
  BY DEF Surjection
<1>2. ASSUME \A x, y \in S : f[x] = f[y] => x = y PROVE f \in Injection(S, T)
  BY <1>2 DEF Injection, IsInjective
<1> QED BY <1>1, <1>2, FS_Surjection

(* What a store loads from a file is finite. *)
LEMMA LoadFinite ==
  ASSUME NEW d \in Databases, NEW p, NEW ids
  PROVE  /\ IsFiniteSet(LoadProfiles(d)) /\ IsFiniteSet(LoadAccounts(d, p))
         /\ IsFiniteSet(LoadStocks(d)) /\ IsFiniteSet(LoadOptions(d))
         /\ IsFiniteSet(LoadPositions(d, ids))
<1>1. /\ IsFiniteSet(Rows(d.profile)) /\ IsFiniteSet(DOMAIN d.account)
      /\ IsFiniteSet(DOMAIN d.stock) /\ IsFiniteSet(DOMAIN d.option)
      /\ IsFiniteSet(DOMAIN d.tx)
  <2>1. /\ d.profile \in Int /\ Len(d.account) \in Int /\ Len(d.stock) \in Int
        /\ Len(d.option) \in Int /\ Len(d.tx) \in Int
        /\ DOMAIN d.account = 1..Len(d.account) /\ DOMAIN d.stock = 1..Len(d.stock)
        /\ DOMAIN d.option = 1..Len(d.option) /\ DOMAIN d.tx = 1..Len(d.tx)
    BY DEF Databases
  <2> QED BY <2>1, FS_Interval DEF Rows
<1>2. IsFiniteSet(LoadProfiles(d))
  <2> DEFINE f == [i \in Rows(d.profile) |-> [id |-> i, state |-> "Clean"]]
  <2>1. /\ LoadProfiles(d) = {f[i] : i \in Rows(d.profile)}
        /\ f = [i \in Rows(d.profile) |-> f[i]] /\ DOMAIN f = Rows(d.profile)
    BY DEF LoadProfiles
  <2> HIDE DEF f
  <2> QED BY <1>1, <2>1, ImageFinite
<1>3. IsFiniteSet(LoadAccounts(d, p))
  <2> DEFINE S == {j \in DOMAIN d.account : d.account[j].profile = p}
             f == [i \in S |-> [id |-> i, name |-> d.account[i].name,
                                kind |-> d.account[i].kind, cur |-> d.account[i].cur,
                                state |-> "Clean"]]
  <2>1. /\ LoadAccounts(d, p) = {f[i] : i \in S}
        /\ f = [i \in S |-> f[i]] /\ DOMAIN f = S
    BY DEF LoadAccounts
  <2> HIDE DEF f
  <2>2. IsFiniteSet(S)
    BY <1>1, FS_Subset
  <2> QED BY <2>1, <2>2, ImageFinite
<1>4. IsFiniteSet(LoadStocks(d))
  <2> DEFINE f == [i \in DOMAIN d.stock |-> [id |-> i, instr |-> d.stock[i].instr,
                     ticker |-> d.stock[i].ticker, state |-> "Clean"]]
  <2>1. /\ LoadStocks(d) = {f[i] : i \in DOMAIN d.stock}
        /\ f = [i \in DOMAIN d.stock |-> f[i]] /\ DOMAIN f = DOMAIN d.stock
    BY DEF LoadStocks
  <2> HIDE DEF f
  <2> QED BY <1>1, <2>1, ImageFinite
<1>5. IsFiniteSet(LoadOptions(d))
  <2> DEFINE P == (DOMAIN d.option) \X (DOMAIN d.stock)
             S == {k \in P : d.option[k[1]].und = d.stock[k[2]].instr}
             f == [ij \in S |-> [id |-> ij[1], instr |-> d.option[ij[1]].instr,
                                 und |-> d.option[ij[1]].und,
                                 ticker |-> d.stock[ij[2]].ticker, state |-> "Clean"]]
  <2>1. /\ LoadOptions(d) = {f[ij] : ij \in S}
        /\ f = [ij \in S |-> f[ij]] /\ DOMAIN f = S
    BY DEF LoadOptions
  <2> HIDE DEF f
  <2>2. IsFiniteSet(P)
    BY <1>1, FS_Product
  <2>3. IsFiniteSet(S)
    BY <2>2, FS_Subset
  <2> QED BY <2>1, <2>3, ImageFinite
<1>6. IsFiniteSet(LoadPositions(d, ids))
  <2> DEFINE S == {j \in DOMAIN d.tx : d.tx[j].pos # NoId /\ d.tx[j].accts \cap ids # {}}
             f == [i \in S |-> [id |-> d.tx[i].pos, state |-> "Clean"]]
  <2>1. /\ LoadPositions(d, ids) = {f[i] : i \in S}
        /\ f = [i \in S |-> f[i]] /\ DOMAIN f = S
    BY DEF LoadPositions
  <2> HIDE DEF f
  <2>2. IsFiniteSet(S)
    BY <1>1, FS_Subset
  <2> QED BY <2>1, <2>2, ImageFinite
<1> QED BY <1>2, <1>3, <1>4, <1>5, <1>6

(* A commit keeps a cache finite. *)
LEMMA CommittedFinite ==
  ASSUME NEW S, IsFiniteSet(S), NEW e, NEW new
  PROVE  IsFiniteSet(Committed(S, e, new))
BY FS_RemoveElement, FS_AddElement DEF Committed

-----------------------------------------------------------------------------

LEMMA AccountsEnd ==
  ASSUME TypeOK, AccountSide, Ends
  PROVE  AccountSide'
<1>1. /\ pc' = "off" /\ backups' = backups
      /\ profiles' = {} /\ accounts' = {} /\ session' = {} /\ DOMAIN acctRemap' = {}
      /\ activeProfile' = NoId /\ acctProfile' = NoId
      /\ Pending(accounts)' = {} /\ Saved(accounts)' = {} /\ Pending(profiles)' = {}
      /\ Ids(Pending(accounts))' = {} /\ Ids(Pending(profiles))' = {}
  BY DEF Ends, ClearedMemory, Pending, Saved, Ids, EmptyRemap
<1>2. /\ db'.account = db.account /\ db'.profile = db.profile
      /\ ~ halfDone' => db' = db /\ ~ halfDone /\ pc = "idle"
  BY EndRows
<1>3. IsFiniteSet(profiles') /\ IsFiniteSet(accounts')
  BY <1>1, FS_EmptySet
<1>4. AccountsRest'
  BY <1>1 DEF AccountsRest
<1>5. AccountIds'
  BY <1>1 DEF AccountIds
<1>6. ProfileFirst'
  BY <1>1 DEF ProfileFirst
<1>7. AccountsMirrored'
  BY <1>1 DEF AccountsMirrored
<1>8. AccountsUnique' /\ SessionKnown' /\ CashHasExternal'
  BY <1>1 DEF AccountsUnique, SessionKnown, CashHasExternal
<1>9. Paired'
  BY <1>1, <1>2 DEF Paired, AccountSide, HasPendingExternal, HasExternalRow, PairedFile, AccountRows
<1>10. \A d \in backups' \cup {db'} : AccountFile(d)
  BY <1>1, <1>2 DEF AccountFile, AccountSide
<1> QED BY <1>3, <1>4, <1>5, <1>6, <1>7, <1>8, <1>9, <1>10 DEF AccountSide

LEMMA AccountsKeptSide ==
  ASSUME TypeOK, AccountSide, AccountsKept
  PROVE  AccountSide'
<1> USE DEF AccountsKept, AccountSide
<1>1. /\ Pending(accounts)' = Pending(accounts) /\ Saved(accounts)' = Saved(accounts)
      /\ Pending(profiles)' = Pending(profiles) /\ AccountRows' = AccountRows
      /\ TempsOf("account")' = TempsOf("account")
  BY DEF Pending, Saved, AccountRows, TempsOf, TempIds
<1>2. AccountsRest'
  BY DEF AccountsRest
<1>3. AccountIds'
  BY <1>1 DEF AccountIds, Ids
<1>4. ProfileFirst'
  BY <1>1 DEF ProfileFirst
<1>5. AccountsMirrored'
  BY <1>1 DEF AccountsMirrored, Ids
<1>6. AccountsUnique' /\ SessionKnown' /\ CashHasExternal'
  BY <1>1 DEF AccountsUnique, SessionKnown, CashHasExternal
<1>7. Paired'
  BY <1>1 DEF Paired, HasPendingExternal, HasExternalRow, HasExternal
<1>8. \A d \in backups' \cup {db'} : AccountFile(d)
  BY DEF AccountFile
<1> QED BY <1>2, <1>3, <1>4, <1>5, <1>6, <1>7, <1>8

LEMMA AccountsStart ==
  ASSUME TypeOK, AccountSide, Start
  PROVE  AccountSide'
<1> USE DEF AccountSide, Start, profileV, remaps
<1>1. /\ accounts = {} /\ session = {} /\ activeProfile = NoId /\ acctProfile = NoId
      /\ accounts' = {} /\ session' = {} /\ activeProfile' = NoId /\ acctProfile' = NoId
      /\ DOMAIN acctRemap' = {} /\ db' = db /\ halfDone' = halfDone /\ seq' = seq
      /\ pc' = "idle"
  BY DEF AccountsRest
<1>2. /\ Pending(accounts)' = {} /\ Saved(accounts)' = {} /\ Pending(profiles)' = {}
      /\ Ids(Pending(accounts))' = {} /\ Ids(Pending(profiles))' = {}
  BY <1>1 DEF Pending, Saved, Ids, LoadProfiles
<1>3. IsFiniteSet(profiles') /\ IsFiniteSet(accounts')
  BY <1>1, LoadFinite, FS_EmptySet DEF TypeOK
<1>4. AccountsRest' /\ AccountIds' /\ ProfileFirst'
  BY <1>1, <1>2 DEF AccountsRest, AccountIds, ProfileFirst
<1>5. AccountsMirrored'
  <2>1. \A i \in AccountRows : db.account[i].profile # NoId
    BY DEF AccountFile, Rows, NoId, TypeOK, Databases, AccountRows
  <2> QED BY <1>1, <1>2, <2>1 DEF AccountsMirrored, AccountRows
<1>6. AccountsUnique' /\ SessionKnown' /\ CashHasExternal'
  BY <1>1, <1>2 DEF AccountsUnique, SessionKnown, CashHasExternal
<1>7. Paired'
  BY <1>1 DEF Paired, HasPendingExternal, HasExternalRow, PairedFile, AccountRows
<1>8. \A d \in backups' \cup {db'} : AccountFile(d)
  BY <1>1
<1> QED BY <1>3, <1>4, <1>5, <1>6, <1>7, <1>8

(* What the session is told of an account. *)
LEMMA KnownFacts ==
  ASSUME NEW S
  PROVE  /\ \A a \in S : \E k \in Known(S) : k.id = a.id /\ k.kind = a.kind /\ k.cur = a.cur
         /\ \A k \in Known(S) : \E a \in S : k.id = a.id /\ k.kind = a.kind /\ k.cur = a.cur
<1>1. ASSUME NEW a \in S
      PROVE  \E k \in Known(S) : k.id = a.id /\ k.kind = a.kind /\ k.cur = a.cur
  <2>1. [id |-> a.id, kind |-> a.kind, cur |-> a.cur] \in Known(S)
    BY DEF Known
  <2> QED BY <2>1
<1>2. ASSUME NEW k \in Known(S)
      PROVE  \E a \in S : k.id = a.id /\ k.kind = a.kind /\ k.cur = a.cur
  BY <1>2 DEF Known
<1> QED BY <1>1, <1>2

(* What the account store reads from a good file. *)
LEMMA LoadedAccounts ==
  ASSUME NEW d \in Databases, AccountFile(d), NEW p \in Int
  PROVE  LET L == LoadAccounts(d, p)
         IN /\ \A a \in L : /\ a.id \in DOMAIN d.account /\ a.state = "Clean"
                            /\ d.account[a.id] = [profile |-> p, name |-> a.name,
                                                  kind |-> a.kind, cur |-> a.cur]
            /\ \A i \in DOMAIN d.account : d.account[i].profile = p => i \in Ids(L)
            /\ Pending(L) = {} /\ Saved(L) = L
            /\ \A a, b \in L : a.id = b.id => a = b
            /\ \A a, b \in L :
                 a.kind = b.kind /\ (IF a.kind = "External" THEN a.cur = b.cur
                                     ELSE a.name = b.name) => a = b
            /\ p \notin Rows(d.profile) => L = {}
            /\ PairedFile(d) =>
                 \A a \in L : a.kind = "Cash" =>
                   \E b \in L : b.kind = "External" /\ b.cur = a.cur
<1> DEFINE L == LoadAccounts(d, p)
           entry(i) == [id |-> i, name |-> d.account[i].name, kind |-> d.account[i].kind,
                        cur |-> d.account[i].cur, state |-> "Clean"]
<1>1. \A i \in DOMAIN d.account : d.account[i] \in AccountRecords
  BY DEF Databases
<1>2. /\ \A a \in L : \E i \in DOMAIN d.account : d.account[i].profile = p /\ a = entry(i)
      /\ \A i \in DOMAIN d.account : d.account[i].profile = p => entry(i) \in L
  BY DEF LoadAccounts
<1> HIDE DEF L
<1>3. \A a \in L : /\ a.id \in DOMAIN d.account /\ a.state = "Clean"
                   /\ d.account[a.id] = [profile |-> p, name |-> a.name,
                                         kind |-> a.kind, cur |-> a.cur]
                   /\ a = entry(a.id)
  BY <1>1, <1>2 DEF AccountRecords
<1>4. \A i \in DOMAIN d.account : d.account[i].profile = p => i \in Ids(L)
  <2> SUFFICES ASSUME NEW i \in DOMAIN d.account, d.account[i].profile = p
               PROVE  \E a \in L : a.id = i
    BY DEF Ids
  <2> QED BY <1>2
<1>5. Pending(L) = {} /\ Saved(L) = L
  BY <1>3 DEF Pending, Saved
<1>6. \A a, b \in L : a.id = b.id => a = b
  BY <1>3
<1>7. \A a, b \in L :
        a.kind = b.kind /\ (IF a.kind = "External" THEN a.cur = b.cur
                            ELSE a.name = b.name) => a = b
  <2> SUFFICES ASSUME NEW a \in L, NEW b \in L, a.kind = b.kind,
                      IF a.kind = "External" THEN a.cur = b.cur ELSE a.name = b.name
               PROVE  a = b
    OBVIOUS
  <2>0. /\ a.id \in DOMAIN d.account /\ b.id \in DOMAIN d.account
        /\ d.account[a.id] = [profile |-> p, name |-> a.name, kind |-> a.kind, cur |-> a.cur]
        /\ d.account[b.id] = [profile |-> p, name |-> b.name, kind |-> b.kind, cur |-> b.cur]
    BY <1>3, Zenon
  <2>1. SameAccount(d.account[a.id], d.account[b.id])
    BY <2>0 DEF SameAccount
  <2>2. a.id = b.id
    BY <2>0, <2>1 DEF AccountFile
  <2> QED BY <1>6, <2>2
<1>8. p \notin Rows(d.profile) => L = {}
  BY <1>2 DEF AccountFile
<1>9. ASSUME PairedFile(d), NEW a \in L, a.kind = "Cash"
      PROVE  \E b \in L : b.kind = "External" /\ b.cur = a.cur
  <2>0. /\ a.id \in DOMAIN d.account
        /\ d.account[a.id] = [profile |-> p, name |-> a.name, kind |-> a.kind, cur |-> a.cur]
    BY <1>3, Zenon
  <2>1. PICK j \in DOMAIN d.account :
          /\ d.account[j].kind = "External" /\ d.account[j].cur = d.account[a.id].cur
          /\ d.account[j].profile = d.account[a.id].profile
    BY <1>9, <2>0 DEF PairedFile, HasExternalRow
  <2>2. d.account[a.id].cur = a.cur /\ d.account[a.id].profile = p
    BY <2>0
  <2> QED BY <1>2, <2>1, <2>2
<1> QED BY <1>3, <1>4, <1>5, <1>6, <1>7, <1>8, <1>9 DEF L

(* A profile becomes the active one when there was none. *)
LEMMA AccountsActivated ==
  ASSUME TypeOK, AccountSide, NEW p \in Int, ActivateProfile(p),
         activeProfile = NoId, pc = "idle", pc' = "idle",
         UNCHANGED <<acctRemap, disk>>, seq'["account"] = seq["account"],
         IsFiniteSet(profiles'), Ids(Pending(profiles')) \subseteq TempIds, p # NoId
  PROVE  AccountSide'
<1> USE DEF AccountSide
<1> DEFINE L == LoadAccounts(db, p)
<1>1. /\ db' = db /\ backups' = backups /\ halfDone' = halfDone /\ db \in Databases
      /\ AccountFile(db)
  BY DEF disk, TypeOK
<1>2. /\ accounts = {} /\ session = {} /\ acctProfile = NoId /\ Pending(accounts) = {}
  BY DEF ProfileFirst, Pending
<1>3. /\ activeProfile' = p /\ acctProfile' = p /\ accounts' = L
      /\ session' = Known(L)
  BY <1>2 DEF ActivateProfile, SetUnchecked, Ids
<1> HIDE DEF L
<1>4. /\ \A a \in L : /\ a.id \in DOMAIN db.account /\ a.state = "Clean"
                      /\ db.account[a.id] = [profile |-> p, name |-> a.name,
                                             kind |-> a.kind, cur |-> a.cur]
      /\ \A i \in DOMAIN db.account : db.account[i].profile = p => i \in Ids(L)
      /\ Pending(L) = {} /\ Saved(L) = L
      /\ \A a, b \in L : a.id = b.id => a = b
      /\ \A a, b \in L :
           a.kind = b.kind /\ (IF a.kind = "External" THEN a.cur = b.cur
                               ELSE a.name = b.name) => a = b
      /\ p \notin Rows(db.profile) => L = {}
      /\ PairedFile(db) =>
           \A a \in L : a.kind = "Cash" =>
             \E b \in L : b.kind = "External" /\ b.cur = a.cur
  BY <1>1, LoadedAccounts DEF L
<1>5. /\ Pending(accounts)' = {} /\ Saved(accounts)' = L /\ Ids(Pending(accounts))' = {}
      /\ AccountRows' = AccountRows /\ DOMAIN acctRemap' = {}
      /\ \A i \in AccountRows : i \in Nat /\ i > 0
  BY <1>1, <1>3, <1>4 DEF Ids, Pending, Saved, AccountRows, AccountsRest, TypeOK, Databases
<1>6. IsFiniteSet(accounts')
  BY <1>1, <1>3, LoadFinite DEF L
<1>7. AccountsRest'
  BY <1>5 DEF AccountsRest
<1>8. AccountIds'
  <2>1. \A a \in L : a.id \in Nat /\ a.id > 0
    BY <1>4, <1>5 DEF AccountRows
  <2>2. \A k \in session' : \E a \in L : k.id = a.id
    BY <1>3 DEF Known
  <2>3. \A k \in session' : ~ (k.id < NoId)
    BY <2>1, <2>2 DEF NoId
  <2> QED BY <1>3, <1>4, <1>5, <2>3 DEF AccountIds
<1>9. ProfileFirst'
  BY <1>3, <1>4, <1>5 DEF ProfileFirst, NoId, Rows
<1>10. AccountsMirrored'
  BY <1>1, <1>3, <1>4, <1>5 DEF AccountsMirrored, AccountRows
<1>11. AccountsUnique'
  BY <1>3, <1>4 DEF AccountsUnique
<1>12. SessionKnown'
  BY <1>3, KnownFacts DEF SessionKnown
<1>13. ~ halfDone => PairedFile(db)
  BY DEF Paired, PairedFile, HasPendingExternal, AccountRows
<1>14. Paired'
  <2>1. ~ halfDone => \A a \in L : a.kind = "Cash" =>
          \E b \in L : b.kind = "External" /\ b.cur = a.cur
    BY <1>4, <1>13
  <2> QED BY <1>1, <1>3, <1>13, <2>1 DEF Paired, PairedFile, HasExternal, HasExternalRow, AccountRows
<1>15. CashHasExternal'
  <2> SUFFICES ASSUME ~ halfDone, NEW k \in session', k.kind = "Cash"
               PROVE  \E b \in session' : b.kind = "External" /\ b.cur = k.cur
    BY <1>1 DEF CashHasExternal
  <2>1. PICK a \in L : k.kind = a.kind /\ k.cur = a.cur
    BY <1>3, KnownFacts
  <2>2. PICK b \in L : b.kind = "External" /\ b.cur = a.cur
    BY <1>4, <1>13, <2>1
  <2> QED BY <1>3, <2>1, <2>2, KnownFacts
<1>16. \A d \in backups' \cup {db'} : AccountFile(d)
  BY <1>1
<1> QED BY <1>6, <1>7, <1>8, <1>9, <1>10, <1>11, <1>12, <1>14, <1>15, <1>16

LEMMA AccountsProfile ==
  ASSUME TypeOK, Core, AccountSide, SelectProfile \/ AddProfile
  PROVE  AccountSide'
<1>1. CASE SelectProfile
  <2>1. PICK p \in Ids(profiles) : ActivateProfile(p)
    BY <1>1 DEF SelectProfile
  <2>2. p \in Int
    BY DEF TypeOK, Ids
  <2>3. CASE p # NoId
    BY <1>1, <2>1, <2>2, <2>3, AccountsActivated
    DEF SelectProfile, AccountSide, AccountIds, remaps
  <2>4. CASE p = NoId
    <3>1. AccountsKept
      BY <1>1, <2>1, <2>4 DEF SelectProfile, ActivateProfile, AccountsKept, AccountSide,
        ProfileFirst, remaps, disk
    <3> QED BY <3>1, AccountsKeptSide
  <2> QED BY <2>3, <2>4
<1>2. CASE AddProfile
  <2> DEFINE new == [id |-> Next1("profile"), state |-> "New"]
  <2>1. /\ Next1("profile") \in TempIds /\ Next1("profile") \in Int /\ Next1("profile") # NoId
    BY NextTemps DEF SeqNames, TempIds, NoId
  <2>2. profiles' = profiles \cup {new}
    BY <1>2 DEF AddProfile
  <2>3. IsFiniteSet(profiles')
    BY <2>2, FS_AddElement DEF AccountSide
  <2>4. Ids(Pending(profiles')) \subseteq TempIds
    BY <2>1, <2>2 DEF AccountSide, AccountIds, Ids, Pending
  <2>5. seq'["account"] = seq["account"]
    BY <1>2 DEF AddProfile, TypeOK, SeqNames
  <2> QED BY <1>2, <2>1, <2>3, <2>4, <2>5, AccountsActivated DEF AddProfile, remaps
<1> QED BY <1>1, <1>2

LEMMA AccountsCreate ==
  ASSUME TypeOK, Core, AccountSide, CreateSomeAccount
  PROVE  AccountSide'
<1> USE DEF AccountSide
<1>1. PICK n \in Names, k \in UserKinds, c \in Currencies : CreateAccount(n, k, c)
  BY DEF CreateSomeAccount
<1> DEFINE first == Next1("account")
           last == IF k = "Cash" /\ ~ HasExternal(c) THEN first - 1 ELSE first
           user == NewAccount(first, n, k, c)
           ext == NewAccount(first - 1, ExternalName(c), "External", c)
           added == {user} \cup
             {NewAccount(i, ExternalName(c), "External", c) : i \in last..(first - 1)}
<1>2. /\ first \in TempIds /\ first < seq["account"] /\ seq["account"] \in Int
      /\ first \in Int /\ first - 1 \in TempIds
  BY NextTemps DEF TempIds, SeqNames, NoId
<1>3. /\ pc = "idle" /\ pc' = "idle" /\ acctProfile # NoId /\ activeProfile # NoId
      /\ ~ \E a \in accounts : a.kind = k /\ a.name = n
      /\ accounts' = accounts \cup added /\ session' = SetUnchecked(session, added)
      /\ seq' = [seq EXCEPT !["account"] = last]
      /\ UNCHANGED <<profiles, activeProfile, acctProfile, acctRemap, db, backups, halfDone>>
  BY <1>1 DEF CreateAccount, Running, remaps, disk
<1>4. \/ added = {user} /\ last = first /\ ~ (k = "Cash" /\ ~ HasExternal(c))
      \/ added = {user, ext} /\ last = first - 1 /\ k = "Cash" /\ ~ HasExternal(c)
  <2>1. CASE k = "Cash" /\ ~ HasExternal(c)
    <3>1. last = first - 1 /\ last..(first - 1) = {first - 1}
      BY <1>2, <2>1
    <3>2. added = {user, ext}
      BY <3>1
    <3> QED BY <2>1, <3>1, <3>2
  <2>2. CASE ~ (k = "Cash" /\ ~ HasExternal(c))
    <3>1. last = first /\ last..(first - 1) = {}
      BY <1>2, <2>2
    <3>2. added = {user}
      BY <3>1
    <3> QED BY <2>2, <3>1, <3>2
  <2> QED BY <2>1, <2>2
<1>5. /\ user = [id |-> first, name |-> n, kind |-> k, cur |-> c, state |-> "New"]
      /\ ext = [id |-> first - 1, name |-> ExternalName(c), kind |-> "External",
                cur |-> c, state |-> "New"]
      /\ k # "External"
  BY DEF NewAccount, UserKinds
<1> HIDE DEF added, user, ext, last, first
<1>6. /\ \A a \in added : a.state = "New" /\ a.cur = c /\ (a = user \/ a = ext)
      /\ user \in added
  BY <1>4, <1>5
<1>7. /\ \A a \in added : /\ a.id \in Int /\ last <= a.id /\ a.id < seq["account"]
                          /\ a.id \in TempIds
      /\ \A a, b \in added : a.id = b.id => a = b
      /\ last \in Int /\ last <= first
  BY <1>2, <1>4, <1>5 DEF TempIds
<1>8. /\ \A a \in accounts : a.id \in Int /\ (a.id >= seq["account"] \/ a.id > NoId)
      /\ \A s \in session : s.id \in Int /\ (s.id >= seq["account"] \/ s.id >= NoId)
      /\ \A i \in AccountRows : i \in Nat /\ i > 0
  <2>1. \A i \in AccountRows : i \in Nat /\ i > 0
    BY DEF AccountRows, TypeOK, Databases
  <2>2. \A s \in session : s.id \in Int /\ (s.id >= seq["account"] \/ s.id >= NoId)
    BY <1>2 DEF TypeOK, AccountIds, TempsOf, NoId
  <2>3. \A a \in Pending(accounts) : a.id \in Int /\ a.id >= seq["account"]
    BY DEF AccountIds, TempsOf, Ids, TempIds
  <2>4. \A a \in Saved(accounts) : a.id \in Int /\ a.id > NoId
    <3>1. \A a \in Saved(accounts) : a.id \in AccountRows
      BY DEF AccountsMirrored
    <3> QED BY <2>1, <3>1 DEF NoId
  <2> QED BY <2>1, <2>2, <2>3, <2>4 DEF Saved
<1>9. /\ Pending(accounts)' = Pending(accounts) \cup added
      /\ Saved(accounts)' = Saved(accounts)
  BY <1>3, <1>6 DEF Pending, Saved
<1>10. TempsOf("account") \subseteq TempsOf("account")' /\ last = seq'["account"]
  BY <1>2, <1>3, <1>7 DEF TempsOf, TempIds, TypeOK, SeqNames
<1>11. session' = session \cup Known(added)
  <2>1. \A s \in Known(added) : s.id \notin Ids(session)
    <3>1. \A a \in added, s \in session : s.id # a.id
      BY <1>2, <1>7, <1>8 DEF TempIds, NoId
    <3> QED BY <3>1, KnownFacts DEF Ids
  <2> QED BY <1>3, <2>1 DEF SetUnchecked
<1>12. IsFiniteSet(accounts')
  <2>1. IsFiniteSet(accounts \cup {user})
    BY FS_AddElement
  <2>2. IsFiniteSet((accounts \cup {user}) \cup {ext})
    BY <2>1, FS_AddElement
  <2>3. accounts' \subseteq (accounts \cup {user}) \cup {ext}
    BY <1>3, <1>4
  <2> QED BY <2>2, <2>3, FS_Subset
<1>13. AccountsRest'
  BY <1>3 DEF AccountsRest
<1>14. AccountIds'
  <2>1. \A a, b \in accounts' : a.id = b.id => a = b
    <3>1. \A a \in accounts, b \in added : a.id # b.id
      BY <1>2, <1>7, <1>8 DEF TempIds, NoId
    <3> QED BY <1>3, <1>7, <3>1 DEF AccountIds
  <2>2. Ids(Pending(accounts'))\subseteq TempsOf("account")'
    BY <1>7, <1>9, <1>10 DEF AccountIds, Ids, TempsOf
  <2>3. \A s \in session' : s.id < NoId => s.id \in TempsOf("account")'
    BY <1>7, <1>10, <1>11 DEF AccountIds, TempsOf, Known
  <2> QED BY <1>3, <2>1, <2>2, <2>3 DEF AccountIds, AccountRows
<1>15. ProfileFirst'
  BY <1>3, <1>9 DEF ProfileFirst
<1>16. AccountsMirrored'
  BY <1>3, <1>9 DEF AccountsMirrored, AccountRows
<1>17. AccountsUnique'
  <2>1. \A a \in accounts, b \in added :
          ~ (a.kind = b.kind /\ (IF a.kind = "External" THEN a.cur = b.cur ELSE a.name = b.name))
    BY <1>3, <1>4, <1>5 DEF HasExternal
  <2>2. \A a, b \in added : a.kind = b.kind => a = b
    BY <1>4, <1>5
  <2> QED BY <1>3, <2>1, <2>2 DEF AccountsUnique
<1>18. SessionKnown'
  BY <1>3, <1>11, KnownFacts DEF SessionKnown
<1>19. k = "Cash" => HasExternal(c) \/ ext \in added
  BY <1>4
<1>20. Paired'
  <2>1. \A a \in accounts' : a.kind = "Cash" => a \in accounts \/ a = user
    BY <1>3, <1>5, <1>6
  <2>2. \A x : HasExternal(x) => HasExternal(x)'
    BY <1>3 DEF HasExternal
  <2>3. k = "Cash" => HasExternal(c)'
    <3>1. ext \in added => HasExternal(c)'
      BY <1>3, <1>5 DEF HasExternal
    <3> QED BY <1>19, <2>2, <3>1
  <2>4. user.kind = k /\ user.cur = c
    BY <1>5
  <2> QED BY <1>3, <2>1, <2>2, <2>3, <2>4
      DEF Paired, HasPendingExternal, HasExternalRow, AccountRows, PairedFile
<1>21. CashHasExternal'
  <2> SUFFICES ASSUME ~ halfDone, NEW s \in session', s.kind = "Cash"
               PROVE  \E b \in session' : b.kind = "External" /\ b.cur = s.cur
    BY <1>3 DEF CashHasExternal
  <2>1. CASE s \in session
    BY <1>11, <2>1 DEF CashHasExternal
  <2>2. CASE s \in Known(added)
    <3>1. s.cur = c /\ k = "Cash"
      BY <1>5, <1>6, <2>2 DEF Known
    <3>2. CASE ext \in added
      <4>1. [id |-> ext.id, kind |-> ext.kind, cur |-> ext.cur] \in Known(added)
        BY <3>2 DEF Known
      <4> QED BY <1>5, <1>11, <3>1, <4>1
    <3>3. CASE HasExternal(c)
      BY <1>11, <3>1, <3>3 DEF HasExternal, SessionKnown
    <3> QED BY <1>19, <3>1, <3>2, <3>3
  <2> QED BY <1>11, <2>1, <2>2
<1>22. \A d \in backups' \cup {db'} : AccountFile(d)
  BY <1>3
<1> QED BY <1>3, <1>12, <1>13, <1>14, <1>15, <1>16, <1>17, <1>18, <1>20, <1>21, <1>22

(* The profile that is saved may be the active one: then its accounts, all *)
(* of them pending, come along.                                            *)
LEMMA AccountsSaveProfile ==
  ASSUME TypeOK, AccountSide, SaveProfile
  PROVE  AccountSide'
<1> USE DEF AccountSide
<1>1. PICK e \in profiles :
        /\ IsNextPending(e, profiles)
        /\ db' = [db EXCEPT !.profile = db.profile + 1]
        /\ profiles' = Committed(profiles, e, [e EXCEPT !.id = db.profile + 1,
                                                        !.state = "Clean"])
        /\ IF activeProfile = e.id
           THEN ActivateProfile(db.profile + 1)
           ELSE UNCHANGED <<accounts, profileV>>
  BY DEF SaveProfile
<1> DEFINE row == db.profile + 1
<1>2. /\ pc = "profile" /\ pc' = "profile" /\ seq' = seq
      /\ UNCHANGED <<acctRemap, backups, halfDone>>
  BY DEF SaveProfile, remaps
<1>3. /\ db'.account = db.account /\ db'.profile = row /\ row \in Nat /\ row > 0
      /\ db \in Databases /\ AccountFile(db)
  BY <1>1 DEF TypeOK, Databases
<1>4. /\ e.id \in TempIds /\ e.id \in Int /\ row \notin Rows(db.profile)
      /\ IsFiniteSet(profiles') /\ Ids(Pending(profiles')) \subseteq TempIds
  <2>1. e.id \in TempIds /\ e.id \in Int
    BY <1>1 DEF AccountIds, IsNextPending, Ids, TempIds
  <2>2. IsFiniteSet(profiles')
    BY <1>1, CommittedFinite
  <2>3. Ids(Pending(profiles')) \subseteq TempIds
    BY <1>1 DEF AccountIds, Committed, Pending, Ids, TypeOK
  <2>4. row \notin Rows(db.profile)
    BY DEF Rows, TypeOK, Databases
  <2> QED BY <2>1, <2>2, <2>3, <2>4
<1>5. /\ accounts' = accounts /\ session' = session /\ activeProfile' = acctProfile'
      /\ \/ activeProfile' = activeProfile
         \/ /\ activeProfile' = row /\ activeProfile \in TempIds
            /\ Saved(accounts) = {}
  <2>1. CASE activeProfile # e.id
    BY <1>1, <2>1 DEF profileV, ProfileFirst
  <2>2. CASE activeProfile = e.id
    <3>1. Saved(accounts) = {} /\ acctProfile # row
      BY <1>3, <1>4, <2>2 DEF ProfileFirst, TempIds, NoId
    <3>2. CASE Pending(accounts) # {}
      BY <1>1, <1>4, <2>2, <3>1, <3>2 DEF ActivateProfile
    <3>3. CASE Pending(accounts) = {}
      <4>1. accounts = {}
        BY <3>1, <3>3 DEF Saved
      <4>2. LoadAccounts(db, row) = {}
        BY <1>3, <1>4, LoadedAccounts
      <4>3. accounts' = {} /\ session' = SetUnchecked(session, {})
        BY <1>1, <2>2, <3>1, <3>3, <4>2 DEF ActivateProfile
      <4>4. SetUnchecked(session, {}) = session
        BY DEF SetUnchecked, Known
      <4> QED BY <1>1, <1>4, <2>2, <3>1, <4>1, <4>3, <4>4 DEF ActivateProfile
    <3> QED BY <3>2, <3>3
  <2> QED BY <2>1, <2>2
<1>6. /\ Pending(accounts)' = Pending(accounts) /\ Saved(accounts)' = Saved(accounts)
      /\ AccountRows' = AccountRows /\ TempsOf("account")' = TempsOf("account")
  BY <1>2, <1>3, <1>5 DEF Pending, Saved, AccountRows, TempsOf, TempIds
<1> HIDE DEF row
<1>7. AccountsRest'
  BY <1>2 DEF AccountsRest
<1>8. AccountIds'
  BY <1>2, <1>3, <1>4, <1>5, <1>6 DEF AccountIds, Ids
<1>9. ProfileFirst'
  BY <1>3, <1>5, <1>6 DEF ProfileFirst, NoId, TempIds
<1>10. AccountsMirrored'
  <2>1. CASE activeProfile' = activeProfile
    BY <1>2, <1>3, <1>5, <1>6, <2>1 DEF AccountsMirrored, ProfileFirst
  <2>2. CASE activeProfile' = row /\ Saved(accounts) = {}
    <3>1. \A i \in AccountRows : db.account[i].profile # row
      BY <1>3, <1>4 DEF AccountFile, AccountRows
    <3> QED BY <1>3, <1>5, <1>6, <2>2, <3>1 DEF AccountsMirrored
  <2> QED BY <1>5, <2>1, <2>2
<1>11. AccountsUnique' /\ SessionKnown' /\ CashHasExternal'
  BY <1>2, <1>5 DEF AccountsUnique, SessionKnown, CashHasExternal
<1>12. Paired'
  BY <1>2, <1>3, <1>5, <1>6 DEF Paired, HasPendingExternal, HasExternalRow, HasExternal
<1>13. \A d \in backups' \cup {db'} : AccountFile(d)
  <2>1. Rows(db.profile) \subseteq Rows(row)
    BY <1>3 DEF Rows, row, TypeOK, Databases
  <2> QED BY <1>2, <1>3, <2>1 DEF AccountFile
<1> QED BY <1>4, <1>5, <1>7, <1>8, <1>9, <1>10, <1>11, <1>12, <1>13

(* The entry a save leaves behind. *)
LEMMA SavedAccount ==
  ASSUME NEW e \in AccountEntries, NEW row
  PROVE  LET new == [e EXCEPT !.id = row, !.state = "Clean"]
         IN /\ new.id = row /\ new.name = e.name /\ new.kind = e.kind
            /\ new.cur = e.cur /\ new.state = "Clean"
<1> DEFINE new == [e EXCEPT !.id = row, !.state = "Clean"]
<1>1. new.id = row /\ new.state = "Clean"
  BY DEF AccountEntries
<1>2. new.name = e.name /\ new.kind = e.kind /\ new.cur = e.cur
  BY DEF AccountEntries
<1> QED BY <1>1, <1>2

LEMMA AccountsSaveAccount ==
  ASSUME TypeOK, Core, AccountSide, SaveAccount, acctProfile \in ProfileRows
  PROVE  AccountSide'
<1> USE DEF AccountSide
<1> DEFINE row == Len(db.account) + 1
           rec(e) == [profile |-> acctProfile, name |-> e.name, kind |-> e.kind, cur |-> e.cur]
           saved(e) == [e EXCEPT !.id = row, !.state = "Clean"]
<1>1. PICK e \in accounts :
        /\ IsNextPending(e, accounts)
        /\ db' = [db EXCEPT !.account = Append(@, rec(e))]
        /\ accounts' = Committed(accounts, e, saved(e))
        /\ acctRemap' = Extend(acctRemap, e.id, row)
  BY DEF SaveAccount
<1> DEFINE r == rec(e)  new == saved(e)
<1>2. /\ pc = "account" /\ pc' = "account"
      /\ UNCHANGED <<profiles, activeProfile, acctProfile, session, seq, backups, halfDone>>
  <2>1. pc = "account"
    BY DEF SaveAccount
  <2> QED BY <2>1 DEF SaveAccount, profileV
<1>3. /\ e \in Pending(accounts) /\ e.state = "New" /\ e \in AccountEntries
      /\ new.id = row /\ new.name = e.name /\ new.kind = e.kind /\ new.cur = e.cur
      /\ new.state = "Clean"
      /\ r \in AccountRecords
      /\ r.profile = acctProfile /\ r.name = e.name /\ r.kind = e.kind /\ r.cur = e.cur
  <2>1. e \in Pending(accounts) /\ e.state = "New" /\ e \in AccountEntries
    BY <1>1 DEF IsNextPending, Pending, TypeOK
  <2>2. /\ new.id = row /\ new.name = e.name /\ new.kind = e.kind /\ new.cur = e.cur
        /\ new.state = "Clean"
    BY <2>1, SavedAccount
  <2>3. r \in AccountRecords
    BY <2>1 DEF AccountEntries, AccountRecords, TypeOK
  <2> QED BY <2>1, <2>2, <2>3
<1>4. /\ db'.account = Append(db.account, r) /\ db'.profile = db.profile
      /\ db.account \in Seq(AccountRecords)
  BY <1>1 DEF TypeOK, Databases
<1>5. /\ row \in Nat /\ row > 0 /\ AccountRows' = AccountRows \cup {row}
      /\ row \notin AccountRows /\ db'.account[row] = r
      /\ \A i \in AccountRows : db'.account[i] = db.account[i] /\ i \in Nat /\ i > 0
  BY <1>3, <1>4, AppendRows DEF AccountRows
<1> HIDE DEF new, r, row
<1>6. /\ accounts' = (accounts \ {e}) \cup {new}
      /\ Pending(accounts)' = Pending(accounts) \ {e}
      /\ Saved(accounts)' = Saved(accounts) \cup {new}
  <2>1. accounts' = (accounts \ {e}) \cup {new}
    BY <1>1 DEF Committed, new
  <2> QED BY <1>3, <2>1 DEF Pending, Saved
<1>7. \A a \in accounts : a.id # row
  <2>1. \A a \in Saved(accounts) : a.id \in AccountRows
    BY DEF AccountsMirrored
  <2>2. \A a \in Pending(accounts) : a.id \in TempIds
    BY DEF AccountIds, TempsOf, Ids
  <2> QED BY <1>5, <2>1, <2>2 DEF Saved, TempIds, NoId
<1>8. IsFiniteSet(accounts')
  BY <1>1, CommittedFinite
<1>9. AccountsRest'
  BY <1>2 DEF AccountsRest
<1>10. AccountIds'
  <2>1. \A a, b \in accounts' : a.id = b.id => a = b
    BY <1>3, <1>6, <1>7 DEF AccountIds
  <2>2. Ids(Pending(accounts')) \subseteq TempsOf("account")'
    BY <1>2, <1>6 DEF AccountIds, Ids, TempsOf, TempIds
  <2>3. \A i \in DOMAIN acctRemap' : acctRemap'[i] \in AccountRows'
    BY <1>1, <1>5 DEF AccountIds, Extend, row
  <2>4. TempsOf("account")' = TempsOf("account")
    BY <1>2 DEF TempsOf, TempIds
  <2> QED BY <1>2, <2>1, <2>2, <2>3, <2>4 DEF AccountIds, Ids, Pending
<1>11. ProfileFirst'
  <2>1. acctProfile > 0 /\ acctProfile \in Int
    BY DEF ProfileRows, Rows, TypeOK, Databases
  <2>2. activeProfile' = acctProfile /\ acctProfile' = acctProfile
    BY <1>2 DEF ProfileFirst
  <2> QED BY <2>1, <2>2 DEF ProfileFirst, NoId
<1>12. AccountsMirrored'
  <2>1. /\ new.id = row /\ new.name = e.name /\ new.kind = e.kind /\ new.cur = e.cur
        /\ r = [profile |-> acctProfile, name |-> e.name, kind |-> e.kind, cur |-> e.cur]
    BY <1>3 DEF r
  <2>2. \A a \in Saved(accounts)' :
          /\ a.id \in AccountRows'
          /\ db'.account[a.id] = [profile |-> acctProfile, name |-> a.name,
                                  kind |-> a.kind, cur |-> a.cur]
    <3>1. \A a \in Saved(accounts) :
            /\ a.id \in AccountRows
            /\ db.account[a.id] = [profile |-> acctProfile, name |-> a.name,
                                   kind |-> a.kind, cur |-> a.cur]
      BY DEF AccountsMirrored
    <3> QED BY <1>5, <1>6, <2>1, <3>1
  <2>3. \A i \in AccountRows' :
          db'.account[i].profile = acctProfile => i \in Ids(Saved(accounts)')
    <3>1. \A i \in AccountRows :
            db.account[i].profile = acctProfile => i \in Ids(Saved(accounts))
      BY <1>2 DEF AccountsMirrored
    <3>2. row \in Ids(Saved(accounts)') /\ Ids(Saved(accounts)) \subseteq Ids(Saved(accounts)')
      BY <1>6, <2>1 DEF Ids
    <3> QED BY <1>5, <3>1, <3>2
  <2> QED BY <1>2, <2>2, <2>3 DEF AccountsMirrored, Ids
<1>13. AccountsUnique'
  BY <1>3, <1>6 DEF AccountsUnique
<1>14. SessionKnown'
  BY <1>2, <1>3, <1>6 DEF SessionKnown
<1>15. Paired'
  <2> SUFFICES ASSUME ~ halfDone
               PROVE  /\ \A d \in backups : PairedFile(d)
                      /\ \A a \in accounts' : a.kind = "Cash" => HasExternal(a.cur)'
                      /\ \A i \in AccountRows' : db'.account[i].kind = "Cash" =>
                           HasExternalRow(db', i) \/ HasPendingExternal(i)'
    BY <1>2 DEF Paired
  <2>1. \A c : HasExternal(c) => HasExternal(c)'
    BY <1>3, <1>6 DEF HasExternal
  <2>2. \A a \in accounts : a.kind = "Cash" => HasExternal(a.cur)
    BY DEF Paired
  <2>3. \A a \in accounts' : a.kind = "Cash" => HasExternal(a.cur)'
    BY <1>3, <1>6, <2>1, <2>2
  <2>4. ASSUME NEW b \in accounts, b.kind = "External", NEW i \in AccountRows',
               db'.account[i].cur = b.cur, db'.account[i].profile = acctProfile
        PROVE  HasExternalRow(db', i) \/ HasPendingExternal(i)'
    <3>1. CASE b \in Saved(accounts)
      <4>1. /\ b.id \in AccountRows /\ db.account[b.id].kind = "External"
            /\ db.account[b.id].cur = b.cur /\ db.account[b.id].profile = acctProfile
        <5>1. /\ b.id \in AccountRows
              /\ db.account[b.id] = [profile |-> acctProfile, name |-> b.name,
                                     kind |-> b.kind, cur |-> b.cur]
          BY <3>1 DEF AccountsMirrored
        <5> QED BY <2>4, <5>1
      <4>2. /\ b.id \in AccountRows' /\ db'.account[b.id].kind = "External"
            /\ db'.account[b.id].cur = b.cur /\ db'.account[b.id].profile = acctProfile
        BY <1>5, <4>1
      <4> QED BY <2>4, <4>2 DEF HasExternalRow, AccountRows
    <3>2. CASE b = e
      <4>1. /\ row \in AccountRows' /\ db'.account[row].kind = "External"
            /\ db'.account[row].cur = b.cur /\ db'.account[row].profile = acctProfile
        BY <1>3, <1>5, <2>4, <3>2
      <4> QED BY <2>4, <4>1 DEF HasExternalRow, AccountRows
    <3>3. CASE b \in Pending(accounts) \ {e}
      BY <1>2, <1>6, <2>4, <3>3 DEF HasPendingExternal
    <3> QED BY <2>4, <3>1, <3>2, <3>3 DEF Saved
  <2>5. ASSUME NEW i \in AccountRows', db'.account[i].kind = "Cash"
        PROVE  HasExternalRow(db', i) \/ HasPendingExternal(i)'
    <3>1. CASE i = row
      <4>1. HasExternal(e.cur)
        BY <1>3, <1>5, <2>2, <2>5, <3>1
      <4>2. PICK b \in accounts : b.kind = "External" /\ b.cur = e.cur
        BY <4>1 DEF HasExternal
      <4> QED BY <1>3, <1>5, <2>4, <3>1, <4>2
    <3>2. CASE i \in AccountRows
      <4>1. HasExternalRow(db, i) \/ HasPendingExternal(i)
        BY <1>5, <2>5, <3>2 DEF Paired
      <4>2. ASSUME HasExternalRow(db, i) PROVE HasExternalRow(db', i)
        <5>1. PICK j \in AccountRows :
                /\ db.account[j].kind = "External" /\ db.account[j].cur = db.account[i].cur
                /\ db.account[j].profile = db.account[i].profile
          BY <4>2 DEF HasExternalRow, AccountRows
        <5> QED BY <1>5, <3>2, <5>1 DEF HasExternalRow, AccountRows
      <4>3. ASSUME HasPendingExternal(i) PROVE HasExternalRow(db', i) \/ HasPendingExternal(i)'
        <5>1. PICK b \in Pending(accounts) : b.kind = "External" /\ b.cur = db.account[i].cur
          BY <4>3 DEF HasPendingExternal
        <5> QED BY <1>5, <2>4, <3>2, <4>3, <5>1 DEF HasPendingExternal, Pending
      <4> QED BY <4>1, <4>2, <4>3
    <3> QED BY <1>5, <3>1, <3>2
  <2> QED BY <2>3, <2>5 DEF Paired
<1>16. CashHasExternal'
  BY <1>2 DEF CashHasExternal
<1>17. \A d \in backups' \cup {db'} : AccountFile(d)
  <2>1. AccountFile(db')
    <3>1. \A i \in AccountRows' : db'.account[i].profile \in Rows(db'.profile)
      BY <1>3, <1>4, <1>5 DEF AccountFile, AccountRows, ProfileRows
    <3>2. ASSUME NEW i \in AccountRows PROVE ~ SameAccount(db.account[i], r) /\ ~ SameAccount(r, db.account[i])
      <4> SUFFICES ASSUME SameAccount(db.account[i], r) \/ SameAccount(r, db.account[i])
                   PROVE  FALSE
        OBVIOUS
      <4>1. db.account[i].profile = acctProfile
        BY <1>3 DEF SameAccount
      <4>2. PICK a \in Saved(accounts) : a.id = i
        BY <1>2, <4>1 DEF AccountsMirrored, Ids
      <4>3. db.account[i] = [profile |-> acctProfile, name |-> a.name,
                             kind |-> a.kind, cur |-> a.cur]
        BY <4>2 DEF AccountsMirrored
      <4>4. /\ a.kind = e.kind
            /\ IF a.kind = "External" THEN a.cur = e.cur ELSE a.name = e.name
        BY <1>3, <4>3 DEF SameAccount
      <4>5. a = e
        BY <1>3, <4>4 DEF AccountsUnique, Saved
      <4> QED BY <1>3, <4>5 DEF Saved
    <3>3. \A i, j \in AccountRows' : SameAccount(db'.account[i], db'.account[j]) => i = j
      BY <1>5, <3>2 DEF AccountFile, AccountRows
    <3> QED BY <3>1, <3>3 DEF AccountFile, AccountRows
  <2> QED BY <1>2, <2>1
<1> QED BY <1>2, <1>8, <1>9, <1>10, <1>11, <1>12, <1>13, <1>14, <1>15, <1>16, <1>17

(* At the end of the loop every account is saved, so that an external      *)
(* account still to be saved is a row by now.                              *)
LEMMA AccountsJoinSession ==
  ASSUME TypeOK, AccountSide, AccountsSaved
  PROVE  AccountSide'
<1> USE DEF AccountSide
<1>1. /\ pc = "account" /\ pc' = "position" /\ Pending(accounts) = {}
      /\ session' = SetUnchecked(session, accounts)
      /\ UNCHANGED <<profiles, accounts, activeProfile, acctProfile, acctRemap, seq,
                     db, backups, halfDone>>
  BY DEF AccountsSaved, caches, remaps, disk
<1>2. /\ Pending(accounts)' = {} /\ Saved(accounts)' = Saved(accounts)
      /\ AccountRows' = AccountRows /\ TempsOf("account")' = TempsOf("account")
      /\ Pending(profiles)' = Pending(profiles)
  BY <1>1 DEF Pending, Saved, AccountRows, TempsOf, TempIds
<1>3. \A a \in accounts : a.id > 0 /\ a.id \in Nat
  <2>1. \A a \in Saved(accounts) : a.id \in AccountRows
    BY DEF AccountsMirrored
  <2>2. Saved(accounts) = accounts
    BY <1>1 DEF Saved
  <2> QED BY <2>1, <2>2 DEF AccountRows, TypeOK, Databases
<1>4. /\ session \subseteq session'
      /\ \A k \in session' : k \in session \/ \E a \in accounts :
                                k.id = a.id /\ k.kind = a.kind /\ k.cur = a.cur
  BY <1>1, KnownFacts DEF SetUnchecked
<1>5. AccountsRest'
  BY <1>1 DEF AccountsRest
<1>6. AccountIds'
  <2>1. \A k \in session' : k.id < NoId => k.id \in TempsOf("account")'
    BY <1>2, <1>3, <1>4 DEF AccountIds, NoId
  <2> QED BY <1>1, <1>2, <2>1 DEF AccountIds, Ids
<1>7. ProfileFirst'
  BY <1>1, <1>2, <1>4 DEF ProfileFirst
<1>8. AccountsMirrored'
  BY <1>1, <1>2 DEF AccountsMirrored
<1>9. AccountsUnique' /\ SessionKnown'
  BY <1>1, <1>4 DEF AccountsUnique, SessionKnown
<1>10. Paired'
  BY <1>1, <1>2 DEF Paired, HasPendingExternal, HasExternalRow, HasExternal
<1>11. CashHasExternal'
  <2> SUFFICES ASSUME ~ halfDone, NEW k \in session', k.kind = "Cash"
               PROVE  \E b \in session' : b.kind = "External" /\ b.cur = k.cur
    BY <1>1 DEF CashHasExternal
  <2>1. CASE k \in session
    BY <1>4, <2>1 DEF CashHasExternal
  <2>2. CASE \E a \in accounts : k.kind = a.kind /\ k.cur = a.cur
    <3>1. \E b \in accounts : b.kind = "External" /\ b.cur = k.cur
      BY <2>2 DEF Paired, HasExternal
    <3> QED BY <1>4, <3>1 DEF SessionKnown
  <2> QED BY <1>4, <2>1, <2>2
<1>12. \A d \in backups' \cup {db'} : AccountFile(d)
  BY <1>1
<1> QED BY <1>1, <1>5, <1>6, <1>7, <1>8, <1>9, <1>10, <1>11, <1>12

LEMMA AccountsSaveEnds ==
  ASSUME TypeOK, AccountSide, TxsSaved
  PROVE  AccountSide'
<1> USE DEF AccountSide
<1>1. /\ pc = "tx" /\ pc' = "idle" /\ DOMAIN acctRemap' = {}
      /\ UNCHANGED <<profiles, accounts, activeProfile, acctProfile, session, seq,
                     db, backups, halfDone>>
  BY DEF TxsSaved, caches, profileV, disk, EmptyRemap
<1>2. /\ Pending(accounts)' = Pending(accounts) /\ Saved(accounts)' = Saved(accounts)
      /\ AccountRows' = AccountRows /\ TempsOf("account")' = TempsOf("account")
      /\ Pending(profiles)' = Pending(profiles)
  BY <1>1 DEF Pending, Saved, AccountRows, TempsOf, TempIds
<1>3. AccountsRest' /\ ProfileFirst' /\ AccountsMirrored'
  BY <1>1, <1>2 DEF AccountsRest, ProfileFirst, AccountsMirrored
<1>4. AccountIds'
  BY <1>1, <1>2 DEF AccountIds, Ids
<1>5. AccountsUnique' /\ SessionKnown' /\ CashHasExternal'
  BY <1>1 DEF AccountsUnique, SessionKnown, CashHasExternal
<1>6. Paired'
  BY <1>1, <1>2 DEF Paired, HasPendingExternal, HasExternalRow, HasExternal
<1> QED BY <1>1, <1>3, <1>4, <1>5, <1>6

(* The stores read an older file under the profile that stays active. *)
LEMMA AccountsRestore ==
  ASSUME TypeOK, AccountSide, Restore
  PROVE  AccountSide'
<1> USE DEF AccountSide
<1>1. PICK d \in backups :
        /\ db' = d /\ profiles' = LoadProfiles(d)
        /\ accounts' = LoadAccounts(d, acctProfile)
        /\ session' = Known(LoadAccounts(d, acctProfile))
  BY DEF Restore, Running, ProfileFirst
<1>2. /\ pc = "idle" /\ pc' = "idle"
      /\ UNCHANGED <<activeProfile, acctProfile, acctRemap, seq, backups, halfDone>>
  BY DEF Restore, Running, remaps
<1>3. d \in Databases /\ AccountFile(d) /\ acctProfile \in Int /\ acctProfile # NoId
  BY DEF TypeOK, Restore, Running, ProfileFirst
<1> DEFINE L == LoadAccounts(d, acctProfile)
<1> HIDE DEF L
<1>4. /\ \A a \in L : /\ a.id \in DOMAIN d.account /\ a.state = "Clean"
                      /\ d.account[a.id] = [profile |-> acctProfile, name |-> a.name,
                                             kind |-> a.kind, cur |-> a.cur]
      /\ \A i \in DOMAIN d.account : d.account[i].profile = acctProfile => i \in Ids(L)
      /\ Pending(L) = {} /\ Saved(L) = L
      /\ \A a, b \in L : a.id = b.id => a = b
      /\ \A a, b \in L :
           a.kind = b.kind /\ (IF a.kind = "External" THEN a.cur = b.cur
                               ELSE a.name = b.name) => a = b
      /\ acctProfile \notin Rows(d.profile) => L = {}
      /\ PairedFile(d) =>
           \A a \in L : a.kind = "Cash" =>
             \E b \in L : b.kind = "External" /\ b.cur = a.cur
  BY <1>3, LoadedAccounts DEF L
<1>5. /\ accounts' = L /\ session' = Known(L)
      /\ Pending(accounts)' = {} /\ Saved(accounts)' = L /\ Ids(Pending(accounts))' = {}
      /\ AccountRows' = DOMAIN d.account /\ DOMAIN acctRemap' = {}
      /\ \A i \in DOMAIN d.account : i \in Nat /\ i > 0
      /\ Pending(profiles)' = {} /\ Ids(Pending(profiles))' = {}
  <2>1. accounts' = L /\ session' = Known(L)
    BY <1>1 DEF L
  <2>2. Pending(profiles)' = {}
    BY <1>1 DEF Pending, LoadProfiles
  <2> QED BY <1>1, <1>2, <1>3, <1>4, <2>1, <2>2
      DEF Ids, Pending, Saved, AccountRows, AccountsRest, Databases
<1>6. IsFiniteSet(accounts') /\ IsFiniteSet(profiles')
  BY <1>1, <1>3, LoadFinite
<1>7. AccountsRest'
  BY <1>2, <1>5 DEF AccountsRest
<1>8. AccountIds'
  <2>1. \A k \in session' : ~ (k.id < NoId)
    <3>1. \A a \in L : a.id \in Nat /\ a.id > 0
      BY <1>4, <1>5
    <3>2. \A k \in session' : \E a \in L : k.id = a.id
      BY <1>5 DEF Known
    <3> QED BY <3>1, <3>2 DEF NoId
  <2> QED BY <1>4, <1>5, <2>1 DEF AccountIds
<1>9. ProfileFirst'
  BY <1>2, <1>3, <1>4, <1>5 DEF ProfileFirst, NoId, Rows
<1>10. AccountsMirrored'
  BY <1>1, <1>2, <1>4, <1>5 DEF AccountsMirrored, AccountRows
<1>11. AccountsUnique'
  BY <1>4, <1>5 DEF AccountsUnique
<1>12. SessionKnown'
  BY <1>5, KnownFacts DEF SessionKnown
<1>13. ~ halfDone => PairedFile(d)
  BY DEF Paired
<1>14. Paired'
  <2>1. ~ halfDone => \A a \in L : a.kind = "Cash" =>
          \E b \in L : b.kind = "External" /\ b.cur = a.cur
    BY <1>4, <1>13
  <2> QED BY <1>1, <1>2, <1>5, <1>13, <2>1
      DEF Paired, PairedFile, HasExternal, HasExternalRow, AccountRows
<1>15. CashHasExternal'
  <2> SUFFICES ASSUME ~ halfDone, NEW k \in session', k.kind = "Cash"
               PROVE  \E b \in session' : b.kind = "External" /\ b.cur = k.cur
    BY <1>2 DEF CashHasExternal
  <2>1. PICK a \in L : k.kind = a.kind /\ k.cur = a.cur
    BY <1>5, KnownFacts
  <2>2. PICK b \in L : b.kind = "External" /\ b.cur = a.cur
    BY <1>4, <1>13, <2>1
  <2> QED BY <1>5, <2>1, <2>2, KnownFacts
<1>16. \A f \in backups' \cup {db'} : AccountFile(f)
  BY <1>1, <1>2
<1> QED BY <1>6, <1>7, <1>8, <1>9, <1>10, <1>11, <1>12, <1>14, <1>15, <1>16

LEMMA AccountsInit == Init => AccountSide
<1> SUFFICES ASSUME Init PROVE AccountSide
  OBVIOUS
<1>1. /\ Pending(accounts) = {} /\ Saved(accounts) = {} /\ Pending(profiles) = {}
      /\ Ids(Pending(accounts)) = {} /\ Ids(Pending(profiles)) = {}
      /\ DOMAIN acctRemap = {} /\ AccountRows = {} /\ DOMAIN db.account = {}
  BY DEF Init, Pending, Saved, Ids, EmptyRemap, AccountRows
<1>2. IsFiniteSet(profiles) /\ IsFiniteSet(accounts)
  BY FS_EmptySet DEF Init
<1>3. AccountsRest /\ AccountIds /\ ProfileFirst /\ AccountsMirrored /\ AccountsUnique
  BY <1>1 DEF Init, AccountsRest, AccountIds, ProfileFirst, AccountsMirrored, AccountsUnique
<1>4. SessionKnown /\ Paired /\ CashHasExternal
  BY <1>1 DEF Init, SessionKnown, Paired, CashHasExternal
<1>5. \A d \in backups \cup {db} : AccountFile(d)
  BY <1>1 DEF Init, AccountFile
<1> QED BY <1>2, <1>3, <1>4, <1>5 DEF AccountSide

LEMMA AccountsStep ==
  ASSUME TypeOK, Core, AccountSide, [Next]_vars
  PROVE  AccountSide'
BY AccountCases, AccountsEnd, AccountsStart, AccountsProfile, AccountsCreate,
   AccountsSaveProfile, AccountsSaveAccount, AccountsJoinSession, AccountsSaveEnds,
   AccountsRestore, AccountsKeptSide

-----------------------------------------------------------------------------
(* Stocks and options. *)

(* Steps that leave stocks and options alone. *)
InstrumentsKept ==
  /\ UNCHANGED <<stocks, options, stockMap, backups>>
  /\ db'.stock = db.stock /\ db'.option = db.option /\ db'.instrument = db.instrument
  /\ seq'["option"] = seq["option"]
  /\ halfDone => halfDone'
  /\ pc' = pc \/ {pc, pc'} \cap {"off", "stock"} = {}

LEMMA InstrumentCases ==
  ASSUME TypeOK, [Next]_vars
  PROVE  \/ Ends \/ Start \/ AddSomeStock \/ CreateOptionTransaction \/ PositionsSaved
         \/ SaveStock
         \/ (StocksSaved /\ ~ \E cause : Fatal(cause))
         \/ (SaveOption /\ ~ \E cause : Fatal(cause))
         \/ Restore
         \/ InstrumentsKept
<1> USE DEF caches, profileV, remaps, disk
<1>0. db \in Databases /\ seq \in [SeqNames -> Int]
  BY DEF TypeOK
<1>1. CASE Start \/ Quit \/ Interrupt
  BY <1>1, EndSteps
<1>2. CASE UserAction
  <2>1. CASE SelectProfile
    BY <2>1 DEF SelectProfile, InstrumentsKept
  <2>2. CASE AddProfile
    BY <1>0, <2>2 DEF AddProfile, InstrumentsKept, SeqNames
  <2>3. ASSUME NEW n \in Names, NEW k \in UserKinds, NEW c \in Currencies,
               CreateAccount(n, k, c)
        PROVE  InstrumentsKept
    <3>1. \E last : seq' = [seq EXCEPT !["account"] = last]
      BY <2>3 DEF CreateAccount
    <3> QED BY <1>0, <2>3, <3>1 DEF CreateAccount, InstrumentsKept, SeqNames
  <2>4. CASE OpenDialog
    BY <2>4 DEF OpenDialog, InstrumentsKept
  <2>5. CASE CreateCashTransaction
    BY <1>0, <2>5 DEF CreateCashTransaction, InstrumentsKept, SeqNames
  <2>6. CASE CreateStockTransaction
    <3>1. seq'["option"] = seq["option"]
      BY <2>6 DEF CreateStockTransaction, Drawn, SeqNames
    <3> QED BY <2>6, <3>1 DEF CreateStockTransaction, AddTrade, InstrumentsKept
  <2>7. CASE Save
    BY <2>7 DEF Save, Running, InstrumentsKept
  <2> QED BY <1>2, <2>1, <2>2, <2>3, <2>4, <2>5, <2>6, <2>7 DEF UserAction, CreateSomeAccount
<1>3. CASE SaveStep
  <2>1. CASE SaveProfile
    <3>1. db' = [db EXCEPT !.profile = db.profile + 1]
      BY <2>1 DEF SaveProfile
    <3> QED BY <1>0, <2>1, <3>1 DEF SaveProfile, InstrumentsKept, Databases
  <2>2. CASE ProfilesSaved
    BY <2>2 DEF ProfilesSaved, InstrumentsKept
  <2>3. CASE SaveAccount
    <3>1. CASE Fatal("fkProfile")
      BY <3>1, EndSteps
    <3>2. CASE ~ Fatal("fkProfile")
      <4>1. PICK e \in accounts :
              /\ db' = [db EXCEPT !.account =
                              Append(@, [profile |-> acctProfile, name |-> e.name,
                                         kind |-> e.kind, cur |-> e.cur])]
              /\ UNCHANGED <<pc, profiles, positions, stocks, options, txs,
                                 profileV, posRemap, stockMap, optionMap, seq,
                                 dialog, backups, starts, fault, halfDone>>
        BY <2>3, <3>2 DEF SaveAccount
      <4> QED BY <1>0, <4>1 DEF InstrumentsKept, Databases
    <3> QED BY <3>1, <3>2
  <2>4. CASE AccountsSaved
    BY <2>4 DEF AccountsSaved, InstrumentsKept
  <2>5. CASE SavePosition
    <3>1. db' = [db EXCEPT !.position = db.position + 1]
      BY <2>5 DEF SavePosition
    <3> QED BY <1>0, <2>5, <3>1 DEF SavePosition, InstrumentsKept, Databases
  <2>6. CASE StocksSaved
    BY <2>6, EndSteps
  <2>7. CASE SaveOption
    BY <2>7, EndSteps
  <2>8. CASE OptionsSaved
    BY <2>8, EndSteps DEF OptionsSaved, InstrumentsKept
  <2>9. CASE SaveTx
    <3>1. CASE \E cause : Fatal(cause)
      BY <3>1, EndSteps
    <3>2. CASE ~ \E cause : Fatal(cause)
      <4>1. PICK e \in txs :
              /\ db' = [db EXCEPT !.tx = Append(@, [accts |-> e.accts,
                                            instr |-> e.instr, pos |-> e.pos])]
              /\ UNCHANGED <<pc, profiles, accounts, positions, stocks, options,
                              profileV, remaps, seq, dialog, backups, starts,
                              fault, halfDone>>
        BY <2>9, <3>2 DEF SaveTx
      <4> QED BY <1>0, <4>1 DEF InstrumentsKept, Databases
    <3> QED BY <3>1, <3>2
  <2>10. CASE TxsSaved
    BY <2>10 DEF TxsSaved, InstrumentsKept
  <2> QED BY <1>3, <2>1, <2>2, <2>3, <2>4, <2>5, <2>6, <2>7, <2>8, <2>9, <2>10 DEF SaveStep
<1>4. CASE UNCHANGED vars
  BY <1>4 DEF vars, InstrumentsKept
<1> QED BY <1>1, <1>2, <1>3, <1>4 DEF Next

LEMMA InstrumentsEnd ==
  ASSUME TypeOK, InstrumentSide, Ends
  PROVE  InstrumentSide'
<1>1. /\ pc' = "off" /\ backups' = backups /\ stocks' = {} /\ options' = {}
      /\ Pending(stocks)' = {} /\ Saved(stocks)' = {} /\ Pending(options)' = {}
      /\ Saved(options)' = {} /\ Ids(Pending(options))' = {}
  BY DEF Ends, ClearedMemory, Pending, Saved, Ids
<1>2. /\ db'.stock = db.stock /\ db'.option = db.option
      /\ ~ halfDone' => db' = db /\ ~ halfDone
  BY EndRows
<1>3. IsFiniteSet(stocks') /\ IsFiniteSet(options')
  BY <1>1, FS_EmptySet
<1>4. InstrumentsRest' /\ InstrumentIds' /\ StocksMirrored' /\ OptionsMirrored'
  BY <1>1 DEF InstrumentsRest, InstrumentIds, StocksMirrored, OptionsMirrored
<1>5. InstrumentsUnique' /\ UnderlyingKnown'
  BY <1>1 DEF InstrumentsUnique, UnderlyingKnown
<1>6. \A d \in backups' \cup {db'} : InstrumentFile(d)
  BY <1>1, <1>2 DEF InstrumentFile, InstrumentSide
<1>7. ~ halfDone' => \A d \in backups' \cup {db'} : OwnedFile(d)
  BY <1>1, <1>2 DEF InstrumentSide
<1> QED BY <1>3, <1>4, <1>5, <1>6, <1>7 DEF InstrumentSide

LEMMA InstrumentsKeptSide ==
  ASSUME TypeOK, InstrumentSide, InstrumentsKept
  PROVE  InstrumentSide'
<1> USE DEF InstrumentsKept, InstrumentSide
<1>1. /\ Pending(stocks)' = Pending(stocks) /\ Saved(stocks)' = Saved(stocks)
      /\ Pending(options)' = Pending(options) /\ Saved(options)' = Saved(options)
      /\ StockTemps' = StockTemps /\ TempsOf("option")' = TempsOf("option")
  BY DEF Pending, Saved, StockTemps, TempsOf, TempIds
<1>2. InstrumentsRest' /\ InstrumentsUnique'
  BY DEF InstrumentsRest, InstrumentsUnique
<1>3. InstrumentIds'
  BY <1>1 DEF InstrumentIds, Ids
<1>4. StocksMirrored' /\ OptionsMirrored'
  BY <1>1 DEF StocksMirrored, OptionsMirrored, Ids
<1>5. UnderlyingKnown'
  BY DEF UnderlyingKnown
<1>6. \A d \in backups' \cup {db'} : InstrumentFile(d)
  BY DEF InstrumentFile
<1>7. ~ halfDone' => \A d \in backups' \cup {db'} : OwnedFile(d)
  BY DEF OwnedFile
<1> QED BY <1>2, <1>3, <1>4, <1>5, <1>6, <1>7

(* What the stock and the option store read from a good file. *)
LEMMA LoadedInstruments ==
  ASSUME NEW d \in Databases, InstrumentFile(d)
  PROVE  LET S == LoadStocks(d)  O == LoadOptions(d)
         IN /\ \A s \in S : /\ s.id \in DOMAIN d.stock /\ s.state = "Clean"
                            /\ d.stock[s.id] = [instr |-> s.instr, ticker |-> s.ticker]
            /\ \A o \in O : /\ o.id \in DOMAIN d.option /\ o.state = "Clean"
                            /\ d.option[o.id] = [instr |-> o.instr, und |-> o.und]
            /\ DOMAIN d.stock \subseteq Ids(S) /\ DOMAIN d.option \subseteq Ids(O)
            /\ Pending(S) = {} /\ Saved(S) = S /\ Pending(O) = {} /\ Saved(O) = O
            /\ \A s, t \in S : s.instr = t.instr \/ s.ticker = t.ticker => s = t
            /\ \A o, p \in O : o.id = p.id \/ o.ticker = p.ticker => o = p
            /\ \A o \in O : \E s \in S : s.ticker = o.ticker /\ o.und = s.instr
<1> DEFINE S == LoadStocks(d)  O == LoadOptions(d)
           stock(i) == [id |-> i, instr |-> d.stock[i].instr, ticker |-> d.stock[i].ticker,
                        state |-> "Clean"]
           option(i, j) == [id |-> i, instr |-> d.option[i].instr, und |-> d.option[i].und,
                            ticker |-> d.stock[j].ticker, state |-> "Clean"]
<1>1. /\ \A i \in DOMAIN d.stock : d.stock[i] \in StockRecords
      /\ \A i \in DOMAIN d.option : d.option[i] \in OptionRecords
  BY DEF Databases
<1>2. /\ \A s \in S : \E i \in DOMAIN d.stock : s = stock(i)
      /\ \A i \in DOMAIN d.stock : stock(i) \in S
  BY DEF LoadStocks
<1>3. /\ \A o \in O : \E i \in DOMAIN d.option, j \in DOMAIN d.stock :
           d.option[i].und = d.stock[j].instr /\ o = option(i, j)
      /\ \A i \in DOMAIN d.option, j \in DOMAIN d.stock :
           d.option[i].und = d.stock[j].instr => option(i, j) \in O
  <2>1. ASSUME NEW i \in DOMAIN d.option, NEW j \in DOMAIN d.stock,
               d.option[i].und = d.stock[j].instr
        PROVE  option(i, j) \in O
    <3>1. <<i, j>> \in {k \in (DOMAIN d.option) \X (DOMAIN d.stock) :
                          d.option[k[1]].und = d.stock[k[2]].instr}
      BY <2>1
    <3> QED BY <3>1 DEF LoadOptions
  <2> QED BY <2>1 DEF LoadOptions
<1> HIDE DEF S, O
<1>4. \A s \in S : /\ s.id \in DOMAIN d.stock /\ s.state = "Clean"
                   /\ d.stock[s.id] = [instr |-> s.instr, ticker |-> s.ticker]
                   /\ s = stock(s.id)
  BY <1>1, <1>2 DEF StockRecords
<1>5. \A o \in O : /\ o.id \in DOMAIN d.option /\ o.state = "Clean"
                   /\ d.option[o.id] = [instr |-> o.instr, und |-> o.und]
                   /\ \E j \in DOMAIN d.stock : d.option[o.id].und = d.stock[j].instr
                                                /\ o = option(o.id, j)
  BY <1>1, <1>3 DEF OptionRecords
<1>6. DOMAIN d.stock \subseteq Ids(S)
  <2> SUFFICES ASSUME NEW i \in DOMAIN d.stock PROVE \E s \in S : s.id = i
    BY DEF Ids
  <2> QED BY <1>2
<1>7. DOMAIN d.option \subseteq Ids(O)
  <2> SUFFICES ASSUME NEW i \in DOMAIN d.option PROVE \E o \in O : o.id = i
    BY DEF Ids
  <2>1. PICK j \in DOMAIN d.stock : d.stock[j].instr = d.option[i].und
    BY DEF InstrumentFile
  <2> QED BY <1>3, <2>1
<1>8. Pending(S) = {} /\ Saved(S) = S /\ Pending(O) = {} /\ Saved(O) = O
  BY <1>4, <1>5 DEF Pending, Saved
<1>9. \A s, t \in S : s.instr = t.instr \/ s.ticker = t.ticker => s = t
  <2> SUFFICES ASSUME NEW s \in S, NEW t \in S, s.instr = t.instr \/ s.ticker = t.ticker
               PROVE  s = t
    OBVIOUS
  <2>1. /\ s = stock(s.id) /\ t = stock(t.id)
        /\ s.id \in DOMAIN d.stock /\ t.id \in DOMAIN d.stock
    BY <1>4, Zenon
  <2>2. /\ s.instr = d.stock[s.id].instr /\ s.ticker = d.stock[s.id].ticker
        /\ t.instr = d.stock[t.id].instr /\ t.ticker = d.stock[t.id].ticker
    BY <2>1
  <2>3. s.id = t.id
    BY <2>1, <2>2 DEF InstrumentFile
  <2> QED BY <2>1, <2>3, Zenon
<1>10. \A o, p \in O : o.id = p.id \/ o.ticker = p.ticker => o = p
  <2> SUFFICES ASSUME NEW o \in O, NEW p \in O, o.id = p.id \/ o.ticker = p.ticker
               PROVE  o = p
    OBVIOUS
  <2>1. PICK i \in DOMAIN d.option, j \in DOMAIN d.stock :
          d.option[i].und = d.stock[j].instr /\ o = option(i, j)
    BY <1>3
  <2>2. PICK k \in DOMAIN d.option, l \in DOMAIN d.stock :
          d.option[k].und = d.stock[l].instr /\ p = option(k, l)
    BY <1>3
  <2>3. /\ o.id = i /\ p.id = k /\ o.ticker = d.stock[j].ticker /\ p.ticker = d.stock[l].ticker
    BY <2>1, <2>2
  <2>4. i = k /\ j = l
    <3>1. CASE o.id = p.id
      BY <2>1, <2>2, <2>3, <3>1 DEF InstrumentFile
    <3>2. CASE o.ticker = p.ticker
      <4>1. j = l
        BY <2>3, <3>2 DEF InstrumentFile
      <4>2. d.option[i].und = d.option[k].und
        BY <2>1, <2>2, <4>1
      <4> QED BY <4>1, <4>2 DEF InstrumentFile
    <3> QED BY <3>1, <3>2
  <2> QED BY <2>1, <2>2, <2>4
<1>11. \A o \in O : \E s \in S : s.ticker = o.ticker /\ o.und = s.instr
  <2> SUFFICES ASSUME NEW o \in O PROVE \E s \in S : s.ticker = o.ticker /\ o.und = s.instr
    OBVIOUS
  <2>1. PICK i \in DOMAIN d.option, j \in DOMAIN d.stock :
          d.option[i].und = d.stock[j].instr /\ o = option(i, j)
    BY <1>3
  <2>2. stock(j) \in S /\ stock(j).ticker = d.stock[j].ticker /\ stock(j).instr = d.stock[j].instr
    BY <1>2
  <2>3. o.ticker = d.stock[j].ticker /\ o.und = d.option[i].und
    BY <2>1
  <2> HIDE DEF stock, option
  <2> QED BY <2>1, <2>2, <2>3
<1> QED BY <1>4, <1>5, <1>6, <1>7, <1>8, <1>9, <1>10, <1>11 DEF S, O

(* Stocks and options are read anew: at the start and after a restore. *)
LEMMA InstrumentsLoaded ==
  ASSUME TypeOK, InstrumentSide, NEW d \in backups \cup {db},
         stocks' = LoadStocks(d), options' = LoadOptions(d), db' = d,
         backups' \subseteq backups \cup {db}, pc' = "idle", halfDone' = halfDone
  PROVE  InstrumentSide'
<1> USE DEF InstrumentSide
<1>1. d \in Databases /\ InstrumentFile(d)
  BY DEF TypeOK
<1> DEFINE S == LoadStocks(d)  O == LoadOptions(d)
<1> HIDE DEF S, O
<1>2. /\ \A s \in S : /\ s.id \in DOMAIN d.stock /\ s.state = "Clean"
                      /\ d.stock[s.id] = [instr |-> s.instr, ticker |-> s.ticker]
      /\ \A o \in O : /\ o.id \in DOMAIN d.option /\ o.state = "Clean"
                      /\ d.option[o.id] = [instr |-> o.instr, und |-> o.und]
      /\ DOMAIN d.stock \subseteq Ids(S) /\ DOMAIN d.option \subseteq Ids(O)
      /\ Pending(S) = {} /\ Saved(S) = S /\ Pending(O) = {} /\ Saved(O) = O
      /\ \A s, t \in S : s.instr = t.instr \/ s.ticker = t.ticker => s = t
      /\ \A o, p \in O : o.id = p.id \/ o.ticker = p.ticker => o = p
      /\ \A o \in O : \E s \in S : s.ticker = o.ticker /\ o.und = s.instr
  BY <1>1, LoadedInstruments DEF S, O
<1>3. stocks' = S /\ options' = O
  BY DEF S, O
<1>4. /\ Pending(stocks)' = {} /\ Saved(stocks)' = S
      /\ Pending(options)' = {} /\ Saved(options)' = O /\ Ids(Pending(options))' = {}
  BY <1>2, <1>3 DEF Pending, Saved, Ids
<1>5. IsFiniteSet(stocks') /\ IsFiniteSet(options')
  BY <1>1, LoadFinite
<1>6. InstrumentsRest' /\ InstrumentIds'
  BY <1>2, <1>3, <1>4 DEF InstrumentsRest, InstrumentIds
<1>7. StocksMirrored' /\ OptionsMirrored'
  BY <1>2, <1>4 DEF StocksMirrored, OptionsMirrored, Ids
<1>8. InstrumentsUnique' /\ UnderlyingKnown'
  BY <1>2, <1>3 DEF InstrumentsUnique, UnderlyingKnown
<1>9. \A f \in backups' \cup {db'} : InstrumentFile(f)
  OBVIOUS
<1>10. ~ halfDone' => \A f \in backups' \cup {db'} : OwnedFile(f)
  OBVIOUS
<1> QED BY <1>5, <1>6, <1>7, <1>8, <1>9, <1>10

LEMMA InstrumentsRead ==
  ASSUME TypeOK, InstrumentSide, Start \/ Restore
  PROVE  InstrumentSide'
<1>1. CASE Start
  BY <1>1, InstrumentsLoaded DEF Start
<1>2. CASE Restore
  <2>1. PICK d \in backups :
          db' = d /\ stocks' = LoadStocks(d) /\ options' = LoadOptions(d)
    BY <1>2 DEF Restore
  <2> QED BY <1>2, <2>1, InstrumentsLoaded DEF Restore, Running
<1> QED BY <1>1, <1>2

(* An id just drawn is none that is in use. *)
LEMMA FreshInstrument ==
  ASSUME TypeOK, Core
  PROVE  \A s \in stocks : s.instr # Next1("instr")
<1>1. Next1("instr") < seq["instr"] /\ Next1("instr") \in TempIds /\ seq["instr"] \in Int
  BY NextTemps DEF SeqNames
<1>2. \A s \in Pending(stocks) : s.instr \in InstrTemps
  BY DEF Core, TempsInRange, StockTemps
<1>3. \A s \in Saved(stocks) : s.instr \in InstrumentRows
  BY DEF Core, CleanSound, Saved
<1> QED BY <1>1, <1>2, <1>3 DEF Saved, InstrTemps, TempIds, InstrumentRows, Rows, NoId

LEMMA InstrumentsAddStock ==
  ASSUME TypeOK, Core, InstrumentSide, AddSomeStock
  PROVE  InstrumentSide'
<1> USE DEF InstrumentSide
<1>1. PICK t \in Tickers : AddStock(t)
  BY DEF AddSomeStock
<1> DEFINE new == [id |-> Next1("stock"), instr |-> Next1("instr"),
                   ticker |-> t, state |-> "New"]
<1>2. /\ stocks' = stocks \cup {new} /\ pc = "idle" /\ pc' = "idle"
      /\ ~ TickerTaken(t)
      /\ seq'["option"] = seq["option"]
      /\ UNCHANGED <<options, stockMap, db, backups, halfDone>>
  BY <1>1 DEF AddStock, Running, remaps, disk, TypeOK, SeqNames
<1>3. /\ new.instr = Next1("instr") /\ new.ticker = t /\ new.state = "New"
  OBVIOUS
<1> HIDE DEF new
<1>4. /\ Saved(stocks)' = Saved(stocks)
      /\ Saved(options)' = Saved(options) /\ Pending(options)' = Pending(options)
      /\ TempsOf("option")' = TempsOf("option")
  BY <1>2, <1>3 DEF Saved, Pending, TempsOf, TempIds
<1>5. IsFiniteSet(stocks') /\ IsFiniteSet(options')
  BY <1>2, FS_AddElement
<1>6. InstrumentsRest'
  BY <1>2 DEF InstrumentsRest
<1>7. InstrumentIds'
  BY <1>2, <1>3, <1>4, FreshInstrument DEF InstrumentIds, Ids
<1>8. StocksMirrored' /\ OptionsMirrored'
  BY <1>2, <1>4 DEF StocksMirrored, OptionsMirrored, Ids
<1>9. InstrumentsUnique'
  BY <1>2, <1>3 DEF InstrumentsUnique, TickerTaken
<1>10. UnderlyingKnown'
  BY <1>2 DEF UnderlyingKnown
<1> QED BY <1>2, <1>5, <1>6, <1>7, <1>8, <1>9, <1>10

LEMMA InstrumentsAddOption ==
  ASSUME TypeOK, Core, InstrumentSide, CreateOptionTransaction
  PROVE  InstrumentSide'
<1> USE DEF InstrumentSide
<1>1. PICK s \in stocks :
        /\ ~ OptionExists(s)
        /\ options' = options \cup
             {[id |-> Next1("option"), instr |-> Next1("instr"),
               und |-> s.instr, ticker |-> s.ticker, state |-> "New"]}
        /\ \E cash, sec, i, p : AddTrade(cash, sec, i, p)
  BY DEF CreateOptionTransaction
<1> DEFINE new == [id |-> Next1("option"), instr |-> Next1("instr"),
                   und |-> s.instr, ticker |-> s.ticker, state |-> "New"]
<1>2. /\ options' = options \cup {new} /\ pc = "idle" /\ pc' = "idle"
      /\ seq'["option"] = Next1("option")
      /\ UNCHANGED <<stocks, stockMap, db, backups>>
      /\ halfDone => halfDone'
  <2>1. /\ options' = options \cup {new} /\ pc = "idle" /\ pc' = "idle"
        /\ UNCHANGED <<stocks, stockMap, db, backups>>
    BY <1>1 DEF CreateOptionTransaction, Running, remaps
  <2>2. seq'["option"] = Next1("option")
    BY DEF CreateOptionTransaction, Drawn, SeqNames
  <2>3. halfDone => halfDone'
    BY <1>1 DEF AddTrade
  <2> QED BY <2>1, <2>2, <2>3
<1>3. /\ new.id = Next1("option") /\ new.und = s.instr /\ new.ticker = s.ticker
      /\ new.state = "New"
  OBVIOUS
<1> HIDE DEF new
<1>4. /\ Saved(stocks)' = Saved(stocks) /\ Saved(options)' = Saved(options)
      /\ Pending(options)' = Pending(options) \cup {new}
  BY <1>2, <1>3 DEF Saved, Pending
<1>5. /\ Next1("option") \in TempIds /\ Next1("option") < seq["option"]
      /\ seq["option"] \in Int /\ Next1("option") \in Int
  BY NextTemps DEF SeqNames, TempIds
<1>6. /\ TempsOf("option") \subseteq TempsOf("option")' /\ new.id \in TempsOf("option")'
      /\ new.id \notin TempsOf("option")
  BY <1>2, <1>3, <1>5 DEF TempsOf, TempIds
<1>7. \A o \in options : o.id # new.id
  <2>1. \A o \in Saved(options) : o.id > NoId
    <3>1. \A o \in Saved(options) : o.id \in DOMAIN db.option
      BY DEF OptionsMirrored
    <3> QED BY <3>1 DEF TypeOK, Databases, NoId
  <2>2. \A o \in Pending(options) : o.id # new.id
    BY <1>6 DEF InstrumentIds, Ids
  <2> QED BY <1>3, <1>5, <2>1, <2>2 DEF Saved, TempIds, NoId, TypeOK, OptionEntries
<1>8. IsFiniteSet(stocks') /\ IsFiniteSet(options')
  BY <1>2, FS_AddElement
<1>9. InstrumentsRest'
  BY <1>2 DEF InstrumentsRest
<1>10. InstrumentIds'
  BY <1>2, <1>4, <1>6, <1>7 DEF InstrumentIds, Ids
<1>11. StocksMirrored' /\ OptionsMirrored'
  BY <1>2, <1>4 DEF StocksMirrored, OptionsMirrored, Ids
<1>12. InstrumentsUnique'
  BY <1>1, <1>2, <1>3 DEF InstrumentsUnique, OptionExists
<1>13. UnderlyingKnown'
  BY <1>2, <1>3 DEF UnderlyingKnown
<1> QED BY <1>2, <1>8, <1>9, <1>10, <1>11, <1>12, <1>13

LEMMA InstrumentsPositionsSaved ==
  ASSUME TypeOK, InstrumentSide, PositionsSaved
  PROVE  InstrumentSide'
<1> USE DEF InstrumentSide
<1>1. /\ pc = "position" /\ pc' = "stock"
      /\ stockMap' = IF Pending(stocks) = {} THEN stockMap ELSE EmptyRemap
      /\ UNCHANGED <<stocks, options, seq, db, backups, halfDone>>
  BY DEF PositionsSaved, caches, disk
<1>2. /\ Pending(stocks)' = Pending(stocks) /\ Saved(stocks)' = Saved(stocks)
      /\ Pending(options)' = Pending(options) /\ Saved(options)' = Saved(options)
      /\ StockTemps' = StockTemps /\ TempsOf("option")' = TempsOf("option")
  BY <1>1 DEF Pending, Saved, StockTemps, TempsOf, TempIds
<1>3. InstrumentsRest' /\ InstrumentsUnique'
  BY <1>1 DEF InstrumentsRest, InstrumentsUnique
<1>4. InstrumentIds'
  <2>1. StockTemps \cap DOMAIN stockMap' = {}
    BY <1>1 DEF StockTemps, EmptyRemap
  <2> QED BY <1>1, <1>2, <2>1 DEF InstrumentIds, Ids
<1>5. StocksMirrored' /\ OptionsMirrored'
  BY <1>1, <1>2 DEF StocksMirrored, OptionsMirrored, Ids
<1>6. UnderlyingKnown'
  BY <1>1 DEF UnderlyingKnown
<1> QED BY <1>1, <1>3, <1>4, <1>5, <1>6

(* The entries a save leaves behind. *)
LEMMA SavedStock ==
  ASSUME NEW e \in StockEntries, NEW x, NEW y
  PROVE  LET new == [e EXCEPT !.id = x, !.instr = y, !.state = "Clean"]
         IN new.id = x /\ new.instr = y /\ new.ticker = e.ticker /\ new.state = "Clean"
BY DEF StockEntries

LEMMA SavedOption ==
  ASSUME NEW e \in OptionEntries, NEW x, NEW y
  PROVE  LET new == [e EXCEPT !.id = x, !.instr = y, !.state = "Clean"]
         IN /\ new.id = x /\ new.instr = y /\ new.und = e.und /\ new.ticker = e.ticker
            /\ new.state = "Clean"
BY DEF OptionEntries

LEMMA InstrumentsSaveStock ==
  ASSUME TypeOK, Core, InstrumentSide, SaveStock
  PROVE  InstrumentSide'
<1> USE DEF InstrumentSide
<1> DEFINE row == Len(db.stock) + 1
           instr == db.instrument + 1
           saved(e) == [e EXCEPT !.id = row, !.instr = instr, !.state = "Clean"]
<1>1. PICK e \in stocks :
        /\ IsNextPending(e, stocks)
        /\ db' = WithStock(db, e.ticker)
        /\ stocks' = Committed(stocks, e, saved(e))
        /\ stockMap' = Extend(stockMap, e.instr, instr)
  BY DEF SaveStock
<1> DEFINE new == saved(e)
           r == [instr |-> instr, ticker |-> e.ticker]
<1>2. /\ pc = "stock" /\ pc' = "stock"
      /\ UNCHANGED <<options, seq, backups, halfDone>>
  <2>1. pc = "stock"
    BY DEF SaveStock
  <2> QED BY <2>1 DEF SaveStock
<1>3. /\ e \in Pending(stocks) /\ e.state = "New" /\ e \in StockEntries /\ e.instr \in Int
      /\ new.id = row /\ new.instr = instr /\ new.ticker = e.ticker /\ new.state = "Clean"
      /\ e.ticker \in Tickers
  <2>1. e \in Pending(stocks) /\ e.state = "New" /\ e \in StockEntries
    BY <1>1 DEF IsNextPending, Pending, TypeOK
  <2>2. e.instr \in Int /\ e.ticker \in Tickers
    BY <2>1 DEF StockEntries
  <2> QED BY <2>1, <2>2, SavedStock
<1>4. /\ db'.stock = Append(db.stock, r) /\ db'.option = db.option
      /\ db'.instrument = instr /\ db.instrument \in Nat
      /\ db.stock \in Seq(StockRecords) /\ r \in StockRecords
      /\ r.instr = instr /\ r.ticker = e.ticker
  <2>1. db \in Databases
    BY DEF TypeOK
  <2>2. db.instrument \in Nat /\ db.stock \in Seq(StockRecords)
    BY <2>1 DEF Databases
  <2>3. r \in StockRecords
    BY <1>3, <2>2 DEF StockRecords
  <2> QED BY <1>1, <1>3, <2>1, <2>2, <2>3, WithStockRows
<1>5. /\ row \in Nat /\ row > 0 /\ DOMAIN db'.stock = DOMAIN db.stock \cup {row}
      /\ row \notin DOMAIN db.stock /\ db'.stock[row] = r
      /\ \A i \in DOMAIN db.stock : db'.stock[i] = db.stock[i]
  BY <1>4, AppendRows
<1>6. /\ instr \in Nat /\ instr \notin InstrumentRows
      /\ InstrumentRows' = InstrumentRows \cup {instr}
  BY <1>4 DEF InstrumentRows, Rows
<1> HIDE DEF new, r, row, instr
<1>7. /\ stocks' = (stocks \ {e}) \cup {new}
      /\ Pending(stocks)' = Pending(stocks) \ {e}
      /\ Saved(stocks)' = Saved(stocks) \cup {new}
      /\ Pending(options)' = Pending(options) /\ Saved(options)' = Saved(options)
  <2>1. stocks' = (stocks \ {e}) \cup {new}
    BY <1>1 DEF Committed, new
  <2> QED BY <1>2, <1>3, <2>1 DEF Pending, Saved
<1>8. /\ \A s \in stocks : s.instr # instr
      /\ \A s \in Pending(stocks) : s.instr < 0
      /\ \A i \in DOMAIN stockMap : stockMap[i] \in Nat
      /\ e.instr \in StockTemps /\ e.instr \notin DOMAIN stockMap
  <2>1. \A s \in Pending(stocks) : s.instr \in TempIds
    BY DEF Core, TempsInRange, StockTemps, InstrTemps
  <2>2. \A s \in Saved(stocks) : s.instr \in InstrumentRows
    BY DEF Core, CleanSound, Saved
  <2>3. e.instr \in StockTemps /\ e.instr \notin DOMAIN stockMap
    BY <1>2, <1>3 DEF StockTemps, InstrumentIds
  <2>4. \A i \in DOMAIN stockMap : stockMap[i] \in Nat
    BY DEF TypeOK, IsRemap
  <2> QED BY <1>6, <2>1, <2>2, <2>3, <2>4 DEF Saved, TempIds, NoId
<1>9. IsFiniteSet(stocks')
  BY <1>1, CommittedFinite
<1>10. InstrumentsRest'
  BY <1>2 DEF InstrumentsRest
<1>11. InstrumentIds'
  <2>1. \A s, t \in stocks' : s.instr = t.instr => s = t
    BY <1>3, <1>7, <1>8 DEF InstrumentIds
  <2>2. Ids(Pending(options))' \subseteq TempsOf("option")'
    BY <1>2, <1>7 DEF InstrumentIds, Ids, TempsOf, TempIds
  <2>3. StockTemps' \cap DOMAIN stockMap' = {}
    <3>1. \A s \in Pending(stocks)' : s.instr \in StockTemps /\ s.instr # e.instr
      BY <1>3, <1>7 DEF StockTemps, InstrumentIds, Pending
    <3>2. DOMAIN stockMap' = DOMAIN stockMap \cup {e.instr}
      BY <1>1 DEF Extend
    <3> QED BY <1>2, <3>1, <3>2 DEF StockTemps, InstrumentIds
  <2> QED BY <1>2, <2>1, <2>2, <2>3 DEF InstrumentIds
<1>12. StocksMirrored'
  <2>1. \A s \in Saved(stocks) :
          s.id \in DOMAIN db.stock /\ db.stock[s.id] = [instr |-> s.instr, ticker |-> s.ticker]
    BY DEF StocksMirrored
  <2>2. new.id \in DOMAIN db'.stock /\ db'.stock[new.id] = [instr |-> new.instr, ticker |-> new.ticker]
    BY <1>3, <1>5 DEF r
  <2>3. DOMAIN db.stock \subseteq Ids(Saved(stocks))
    BY <1>2 DEF StocksMirrored
  <2>4. DOMAIN db'.stock \subseteq Ids(Saved(stocks)')
    BY <1>3, <1>5, <1>7, <2>3 DEF Ids
  <2> QED BY <1>5, <1>7, <2>1, <2>2, <2>4 DEF StocksMirrored, Ids
<1>13. OptionsMirrored'
  BY <1>2, <1>4, <1>7 DEF OptionsMirrored, Ids
<1>14. InstrumentsUnique'
  BY <1>2, <1>3, <1>7 DEF InstrumentsUnique
<1>15. UnderlyingKnown'
  <2> SUFFICES ASSUME NEW o \in options
               PROVE  \E s \in stocks' :
                        /\ s.ticker = o.ticker
                        /\ \/ o.und = s.instr
                           \/ /\ o.state = "New"
                              /\ o.und \in DOMAIN stockMap' /\ stockMap'[o.und] = s.instr
    BY <1>2 DEF UnderlyingKnown
  <2>1. PICK s \in stocks :
          /\ s.ticker = o.ticker
          /\ \/ o.und = s.instr
             \/ /\ o.state = "New"
                /\ o.und \in DOMAIN stockMap /\ stockMap[o.und] = s.instr
    BY <1>2 DEF UnderlyingKnown
  <2>2. /\ DOMAIN stockMap' = DOMAIN stockMap \cup {e.instr} /\ stockMap'[e.instr] = instr
        /\ \A i \in DOMAIN stockMap : stockMap'[i] = stockMap[i]
    BY <1>1, <1>8 DEF Extend
  <2>3. CASE s # e
    BY <1>7, <2>1, <2>2, <2>3
  <2>4. CASE s = e
    <3>1. o.und = e.instr
      BY <1>3, <1>8, <2>1, <2>4
    <3>2. o.state = "New"
      <4>1. o \in Saved(options) => o.und \in InstrumentRows
        BY DEF Core, CleanSound, Saved
      <4>2. o.und \notin InstrumentRows
        BY <1>3, <1>8, <3>1 DEF InstrumentRows, Rows
      <4> QED BY <4>1, <4>2 DEF Saved, Pending
    <3> QED BY <1>3, <1>7, <2>1, <2>2, <2>4, <3>1, <3>2
  <2> QED BY <2>3, <2>4
<1>16. InstrumentFile(db')
  <2>1. InstrumentFile(db)
    OBVIOUS
  <2>2. \A i \in DOMAIN db.stock : db.stock[i].ticker # e.ticker /\ db.stock[i].instr # instr
    <3> SUFFICES ASSUME NEW i \in DOMAIN db.stock
                 PROVE  db.stock[i].ticker # e.ticker /\ db.stock[i].instr # instr
      OBVIOUS
    <3>1. PICK s \in Saved(stocks) : s.id = i
      BY <1>2 DEF StocksMirrored, Ids
    <3>2. db.stock[i] = [instr |-> s.instr, ticker |-> s.ticker]
      BY <3>1 DEF StocksMirrored
    <3>3. s \in stocks /\ s # e
      BY <1>3, <3>1 DEF Saved
    <3> QED BY <1>8, <3>2, <3>3 DEF InstrumentsUnique
  <2> QED BY <1>4, <1>5, <2>1, <2>2 DEF InstrumentFile
<1>17. ~ halfDone => OwnedFile(db')
  <2> SUFFICES ASSUME OwnedFile(db) PROVE OwnedFile(db')
    OBVIOUS
  <2> SUFFICES ASSUME NEW n \in Rows(db'.instrument)
               PROVE  \/ \E i \in DOMAIN db'.stock : db'.stock[i].instr = n
                      \/ \E i \in DOMAIN db'.option : db'.option[i].instr = n
    BY DEF OwnedFile
  <2>1. n \in Rows(db.instrument) \/ n = instr
    BY <1>6 DEF InstrumentRows
  <2>2. CASE n = instr
    BY <1>4, <1>5, <2>2
  <2>3. CASE n \in Rows(db.instrument)
    BY <1>4, <1>5, <2>3 DEF OwnedFile
  <2> QED BY <2>1, <2>2, <2>3
<1> QED BY <1>2, <1>9, <1>10, <1>11, <1>12, <1>13, <1>14, <1>15, <1>16, <1>17

(* A pending option learns the row of its underlying. *)
LEMMA RemappedOption ==
  ASSUME TypeOK, NEW o \in options
  PROVE  LET p == RemapOption(o)
         IN /\ p.id = o.id /\ p.instr = o.instr /\ p.ticker = o.ticker /\ p.state = o.state
            /\ p.und = IF o.state = "New" THEN Remap(stockMap, o.und) ELSE o.und
            /\ o.state # "New" => p = o
<1>1. o \in OptionEntries
  BY DEF TypeOK
<1>2. \A x : LET p == [o EXCEPT !.und = x]
             IN /\ p.id = o.id /\ p.instr = o.instr /\ p.ticker = o.ticker
                /\ p.state = o.state /\ p.und = x
  BY <1>1 DEF OptionEntries
<1> QED BY <1>2 DEF RemapOption

LEMMA InstrumentsStocksSaved ==
  ASSUME TypeOK, Core, InstrumentSide, StocksSaved, ~ \E cause : Fatal(cause)
  PROVE  InstrumentSide'
<1> USE DEF InstrumentSide
<1>1. /\ pc = "stock" /\ pc' = "option" /\ Pending(stocks) = {}
      /\ UNCHANGED <<stocks, stockMap, seq, db, backups, halfDone>>
      /\ \/ options' = options /\ Pending(options) = {}
         \/ options' = {RemapOption(o) : o \in options}
  BY DEF StocksSaved, caches, profileV, remaps, disk
<1>2. /\ \A p \in options' : \E o \in options :
           /\ p.id = o.id /\ p.instr = o.instr /\ p.ticker = o.ticker /\ p.state = o.state
           /\ p.und = IF o.state = "New" THEN Remap(stockMap, o.und) ELSE o.und
           /\ o.state # "New" => p = o
           /\ \A q \in options' : q.id = o.id => q = p
      /\ \A o \in options : o.state # "New" => o \in options'
      /\ IsFiniteSet(options')
  <2>1. CASE options' = options /\ Pending(options) = {}
    BY <2>1 DEF InstrumentIds, Pending
  <2>2. CASE options' = {RemapOption(o) : o \in options}
    <3>1. IsFiniteSet(options')
      <4> DEFINE f == [o \in options |-> RemapOption(o)]
      <4>1. options' = {f[o] : o \in options} /\ DOMAIN f = options /\ f = [o \in options |-> f[o]]
        BY <2>2
      <4> HIDE DEF f
      <4> QED BY <4>1, ImageFinite
    <3>2. ASSUME NEW p \in options'
          PROVE  \E o \in options :
           /\ p.id = o.id /\ p.instr = o.instr /\ p.ticker = o.ticker /\ p.state = o.state
           /\ p.und = IF o.state = "New" THEN Remap(stockMap, o.und) ELSE o.und
           /\ o.state # "New" => p = o
           /\ \A q \in options' : q.id = o.id => q = p
      <4>1. PICK o \in options : p = RemapOption(o)
        BY <2>2, <3>2
      <4>2. \A q \in options' : q.id = o.id => q = p
        <5> SUFFICES ASSUME NEW q \in options', q.id = o.id PROVE q = p
          OBVIOUS
        <5>1. PICK u \in options : q = RemapOption(u)
          BY <2>2
        <5>2. u.id = o.id
          BY <5>1, RemappedOption
        <5> QED BY <4>1, <5>1, <5>2 DEF InstrumentIds
      <4> QED BY <4>1, <4>2, RemappedOption
    <3>3. ASSUME NEW o \in options, o.state # "New" PROVE o \in options'
      <4>1. RemapOption(o) = o
        BY <3>3, RemappedOption
      <4> QED BY <2>2, <4>1
    <3> QED BY <3>1, <3>2, <3>3
  <2> QED BY <1>1, <2>1, <2>2
<1>3. /\ Pending(stocks)' = Pending(stocks) /\ Saved(stocks)' = Saved(stocks)
      /\ Saved(options)' = Saved(options)
      /\ Ids(Pending(options))' \subseteq Ids(Pending(options))
      /\ TempsOf("option")' = TempsOf("option")
  <2>1. Saved(options)' = Saved(options)
    BY <1>2 DEF Saved, Pending
  <2>2. Ids(Pending(options))' \subseteq Ids(Pending(options))
    BY <1>2 DEF Ids, Pending
  <2> QED BY <1>1, <2>1, <2>2 DEF Pending, Saved, TempsOf, TempIds
<1>4. InstrumentsRest'
  BY <1>1 DEF InstrumentsRest
<1>5. InstrumentIds'
  BY <1>1, <1>2, <1>3 DEF InstrumentIds
<1>6. StocksMirrored' /\ OptionsMirrored'
  BY <1>1, <1>3 DEF StocksMirrored, OptionsMirrored, Ids
<1>7. InstrumentsUnique'
  BY <1>1, <1>2 DEF InstrumentsUnique
<1>8. UnderlyingKnown'
  <2> SUFFICES ASSUME NEW p \in options'
               PROVE  \E s \in stocks : s.ticker = p.ticker /\ p.und = s.instr
    BY <1>1 DEF UnderlyingKnown
  <2>1. PICK o \in options :
           /\ p.ticker = o.ticker
           /\ p.und = IF o.state = "New" THEN Remap(stockMap, o.und) ELSE o.und
    BY <1>2
  <2>2. PICK s \in stocks :
          /\ s.ticker = o.ticker
          /\ \/ o.und = s.instr
             \/ /\ o.state = "New"
                /\ o.und \in DOMAIN stockMap /\ stockMap[o.und] = s.instr
    BY <1>1 DEF UnderlyingKnown
  <2>3. s.instr \notin DOMAIN stockMap
    <3>1. s.instr \in InstrumentRows
      BY <1>1 DEF Core, CleanSound
    <3> QED BY <3>1 DEF Core, TempsInRange, InstrTemps, TempIds, InstrumentRows, Rows, NoId
  <2> QED BY <2>1, <2>2, <2>3 DEF Remap
<1> QED BY <1>1, <1>2, <1>4, <1>5, <1>6, <1>7, <1>8

(* An option is saved after the stock under it: its ticker is in the file, *)
(* and no second stock is added for it.                                    *)
LEMMA UnderlyingSaved ==
  ASSUME Core, InstrumentSide, pc = "option", NEW o \in options
  PROVE  \E s \in Saved(stocks) : s.ticker = o.ticker /\ o.und = s.instr
<1>1. Pending(stocks) = {}
  BY DEF Core, StagesInOrder
<1>2. \E s \in stocks : s.ticker = o.ticker /\ o.und = s.instr
  BY DEF InstrumentSide, UnderlyingKnown
<1> QED BY <1>1, <1>2 DEF Saved

LEMMA SaveOptionStep ==
  ASSUME TypeOK, Core, InstrumentSide, SaveOption, ~ \E cause : Fatal(cause)
  PROVE  LET instr == db.instrument + 1
         IN \E e \in Pending(options) :
              /\ db' = [db EXCEPT !.instrument = instr,
                                  !.option = Append(@, [instr |-> instr, und |-> e.und])]
              /\ options' = Committed(options, e, [e EXCEPT !.id = Len(db.option) + 1,
                                                           !.instr = instr,
                                                           !.state = "Clean"])
              /\ UNCHANGED <<pc, stocks, stockMap, seq, backups, halfDone>>
              /\ UNCHANGED <<profiles, accounts, positions, txs, acctRemap, posRemap>>
<1>1. PICK e \in options : SaveOption!2!(e)
  BY DEF SaveOption
<1>2. e \in Pending(options) /\ pc = "option"
  BY <1>1 DEF SaveOption, IsNextPending
<1>3. \E i \in DOMAIN db.stock : db.stock[i].ticker = e.ticker
  <2>1. PICK s \in Saved(stocks) : s.ticker = e.ticker
    BY <1>2, UnderlyingSaved
  <2>2. s.id \in DOMAIN db.stock /\ db.stock[s.id] = [instr |-> s.instr, ticker |-> s.ticker]
    BY DEF InstrumentSide, StocksMirrored
  <2> QED BY <2>1, <2>2
<1> QED BY <1>1, <1>2, <1>3

LEMMA InstrumentsSaveOption ==
  ASSUME TypeOK, Core, InstrumentSide, SaveOption, ~ \E cause : Fatal(cause)
  PROVE  InstrumentSide'
<1> USE DEF InstrumentSide
<1> DEFINE row == Len(db.option) + 1
           instr == db.instrument + 1
           saved(e) == [e EXCEPT !.id = row, !.instr = instr, !.state = "Clean"]
<1>1. PICK e \in Pending(options) :
        /\ db' = [db EXCEPT !.instrument = instr,
                            !.option = Append(@, [instr |-> instr, und |-> e.und])]
        /\ options' = Committed(options, e, saved(e))
        /\ UNCHANGED <<pc, stocks, stockMap, seq, backups, halfDone>>
  BY SaveOptionStep
<1> DEFINE new == saved(e)
           r == [instr |-> instr, und |-> e.und]
<1>2. pc = "option" /\ pc' = "option" /\ Pending(stocks) = {}
  BY <1>1 DEF SaveOption, Core, StagesInOrder
<1>3. /\ e \in options /\ e.state = "New" /\ e \in OptionEntries
      /\ new.id = row /\ new.instr = instr /\ new.ticker = e.ticker /\ new.und = e.und
      /\ new.state = "Clean"
  <2>1. e \in options /\ e.state = "New" /\ e \in OptionEntries
    BY DEF Pending, TypeOK
  <2> QED BY <2>1, SavedOption
<1>4. /\ db'.option = Append(db.option, r) /\ db'.stock = db.stock
      /\ db'.instrument = instr /\ db.instrument \in Nat
      /\ db.option \in Seq(OptionRecords) /\ r \in OptionRecords
      /\ r.instr = instr /\ r.und = e.und
  <2>1. db \in Databases
    BY DEF TypeOK
  <2>2. db.instrument \in Nat /\ db.option \in Seq(OptionRecords)
    BY <2>1 DEF Databases
  <2>3. r \in OptionRecords
    BY <1>3, <2>2 DEF OptionRecords, OptionEntries
  <2>4. db'.option = Append(db.option, r) /\ db'.stock = db.stock /\ db'.instrument = instr
    BY <1>1, <2>1 DEF Databases
  <2> QED BY <2>2, <2>3, <2>4
<1>5. /\ row \in Nat /\ row > 0 /\ DOMAIN db'.option = DOMAIN db.option \cup {row}
      /\ row \notin DOMAIN db.option /\ db'.option[row] = r
      /\ \A i \in DOMAIN db.option : db'.option[i] = db.option[i]
  BY <1>4, AppendRows
<1>6. instr \in Nat /\ Rows(db'.instrument) = Rows(db.instrument) \cup {instr}
  BY <1>4 DEF Rows
<1> HIDE DEF new, r, row, instr
<1>7. /\ options' = (options \ {e}) \cup {new}
      /\ Pending(options)' = Pending(options) \ {e}
      /\ Saved(options)' = Saved(options) \cup {new}
      /\ Pending(stocks)' = Pending(stocks) /\ Saved(stocks)' = Saved(stocks)
  <2>1. options' = (options \ {e}) \cup {new}
    BY <1>1 DEF Committed, new
  <2> QED BY <1>1, <1>3, <2>1 DEF Pending, Saved
<1>8. \A o \in options : o.id # row
  <2>1. \A o \in Saved(options) : o.id \in DOMAIN db.option
    BY DEF OptionsMirrored
  <2>2. \A o \in Pending(options) : o.id \in TempIds
    BY DEF InstrumentIds, Ids, TempsOf
  <2> QED BY <1>5, <2>1, <2>2 DEF Saved, TempIds, NoId
<1>9. IsFiniteSet(options')
  BY <1>1, CommittedFinite
<1>10. InstrumentsRest'
  BY <1>2 DEF InstrumentsRest
<1>11. InstrumentIds'
  <2>1. \A o, p \in options' : o.id = p.id => o = p
    BY <1>3, <1>7, <1>8 DEF InstrumentIds
  <2>2. Ids(Pending(options))' \subseteq TempsOf("option")'
    BY <1>1, <1>7 DEF InstrumentIds, Ids, TempsOf, TempIds
  <2> QED BY <1>1, <1>2, <2>1, <2>2 DEF InstrumentIds
<1>12. OptionsMirrored'
  <2>1. \A o \in Saved(options) :
          o.id \in DOMAIN db.option /\ db.option[o.id] = [instr |-> o.instr, und |-> o.und]
    BY DEF OptionsMirrored
  <2>2. new.id \in DOMAIN db'.option /\ db'.option[new.id] = [instr |-> new.instr, und |-> new.und]
    BY <1>3, <1>5 DEF r
  <2>3. DOMAIN db.option \subseteq Ids(Saved(options))
    BY <1>2 DEF OptionsMirrored
  <2>4. DOMAIN db'.option \subseteq Ids(Saved(options)')
    BY ZenonT(30), <1>3, <1>5, <1>7, <2>3 DEF Ids
  <2> QED BY <1>5, <1>7, <2>1, <2>2, <2>4 DEF OptionsMirrored, Ids
<1>13. StocksMirrored'
  BY <1>1, <1>4, <1>7 DEF StocksMirrored, Ids
<1>14. InstrumentsUnique'
  BY <1>1, <1>3, <1>7 DEF InstrumentsUnique
<1>15. UnderlyingKnown'
  BY <1>1, <1>2, <1>3, <1>7 DEF UnderlyingKnown
<1>16. PICK s \in Saved(stocks) : s.ticker = e.ticker /\ e.und = s.instr
  BY <1>2, <1>3, UnderlyingSaved
<1>17. InstrumentFile(db')
  <2>1. InstrumentFile(db)
    OBVIOUS
  <2>2. \A i \in DOMAIN db.option : db.option[i].und # e.und
    <3> SUFFICES ASSUME NEW i \in DOMAIN db.option, db.option[i].und = e.und PROVE FALSE
      OBVIOUS
    <3>1. PICK o \in Saved(options) : o.id = i
      BY <1>2 DEF OptionsMirrored, Ids
    <3>2. db.option[i] = [instr |-> o.instr, und |-> o.und]
      BY <3>1 DEF OptionsMirrored
    <3>3. o \in options /\ o # e /\ o.und = e.und
      BY <1>3, <3>1, <3>2 DEF Saved
    <3>4. PICK t \in Saved(stocks) : t.ticker = o.ticker /\ o.und = t.instr
      BY <1>2, <3>3, UnderlyingSaved
    <3>5. s = t
      BY <1>16, <3>3, <3>4 DEF InstrumentIds, Saved
    <3> QED BY <1>3, <1>16, <3>3, <3>4, <3>5 DEF InstrumentsUnique
  <2>3. \E j \in DOMAIN db.stock : db.stock[j].instr = e.und
    <3>1. s.id \in DOMAIN db.stock /\ db.stock[s.id] = [instr |-> s.instr, ticker |-> s.ticker]
      BY DEF StocksMirrored
    <3> QED BY <1>16, <3>1
  <2> QED BY <1>4, <1>5, <2>1, <2>2, <2>3 DEF InstrumentFile
<1>18. ~ halfDone => OwnedFile(db')
  <2> SUFFICES ASSUME OwnedFile(db) PROVE OwnedFile(db')
    OBVIOUS
  <2> SUFFICES ASSUME NEW n \in Rows(db'.instrument)
               PROVE  \/ \E i \in DOMAIN db'.stock : db'.stock[i].instr = n
                      \/ \E i \in DOMAIN db'.option : db'.option[i].instr = n
    BY DEF OwnedFile
  <2>1. CASE n = instr
    BY <1>4, <1>5, <2>1
  <2>2. CASE n \in Rows(db.instrument)
    BY <1>4, <1>5, <2>2 DEF OwnedFile
  <2> QED BY <1>6, <2>1, <2>2
<1> QED BY <1>1, <1>9, <1>10, <1>11, <1>12, <1>13, <1>14, <1>15, <1>17, <1>18

LEMMA InstrumentsInit == Init => InstrumentSide
<1> SUFFICES ASSUME Init PROVE InstrumentSide
  OBVIOUS
<1>1. /\ Pending(stocks) = {} /\ Saved(stocks) = {} /\ Pending(options) = {}
      /\ Saved(options) = {} /\ Ids(Pending(options)) = {}
      /\ DOMAIN db.stock = {} /\ DOMAIN db.option = {} /\ Rows(db.instrument) = {}
  BY DEF Init, Pending, Saved, Ids, Rows
<1>2. IsFiniteSet(stocks) /\ IsFiniteSet(options)
  BY FS_EmptySet DEF Init
<1>3. InstrumentsRest /\ InstrumentIds /\ StocksMirrored /\ OptionsMirrored
  BY <1>1 DEF Init, InstrumentsRest, InstrumentIds, StocksMirrored, OptionsMirrored
<1>4. InstrumentsUnique /\ UnderlyingKnown
  BY DEF Init, InstrumentsUnique, UnderlyingKnown
<1>5. \A d \in backups \cup {db} : InstrumentFile(d) /\ OwnedFile(d)
  BY <1>1 DEF Init, InstrumentFile, OwnedFile
<1> QED BY <1>2, <1>3, <1>4, <1>5 DEF InstrumentSide

LEMMA InstrumentsStep ==
  ASSUME TypeOK, Core, InstrumentSide, [Next]_vars
  PROVE  InstrumentSide'
BY InstrumentCases, InstrumentsEnd, InstrumentsRead, InstrumentsAddStock,
   InstrumentsAddOption, InstrumentsPositionsSaved, InstrumentsSaveStock,
   InstrumentsStocksSaved, InstrumentsSaveOption, InstrumentsKeptSide

-----------------------------------------------------------------------------
(* Positions and transactions. *)

(* Steps that leave positions and transactions alone. *)
TradesKept ==
  /\ UNCHANGED <<positions, txs, posRemap, backups>>
  /\ db'.position = db.position /\ db'.tx = db.tx
  /\ seq'["tx"] = seq["tx"]
  /\ halfDone => halfDone'
  /\ pc' = pc \/ (pc \in Stages \cup {"idle"} /\ pc' \in Stages)

LEMMA TradeCases ==
  ASSUME TypeOK, Core, InstrumentSide, [Next]_vars
  PROVE  \/ Ends \/ Start \/ CreateCashTransaction \/ CreateStockTransaction
         \/ CreateOptionTransaction \/ SavePosition
         \/ (OptionsSaved /\ ~ \E cause : Fatal(cause))
         \/ (SaveTx /\ ~ \E cause : Fatal(cause))
         \/ TxsSaved \/ Restore
         \/ TradesKept
<1> USE DEF caches, profileV, remaps, disk
<1>0. db \in Databases /\ seq \in [SeqNames -> Int]
  BY DEF TypeOK
<1>1. CASE Start \/ Quit \/ Interrupt
  BY <1>1, EndSteps
<1>2. CASE UserAction
  <2>1. CASE SelectProfile
    BY <2>1 DEF SelectProfile, TradesKept
  <2>2. CASE AddProfile
    BY <1>0, <2>2 DEF AddProfile, TradesKept, SeqNames
  <2>3. ASSUME NEW n \in Names, NEW k \in UserKinds, NEW c \in Currencies,
               CreateAccount(n, k, c)
        PROVE  TradesKept
    <3>1. \E last : seq' = [seq EXCEPT !["account"] = last]
      BY <2>3 DEF CreateAccount
    <3> QED BY <1>0, <2>3, <3>1 DEF CreateAccount, TradesKept, SeqNames
  <2>4. ASSUME NEW t \in Tickers, AddStock(t) PROVE TradesKept
    BY <1>0, <2>4 DEF AddStock, TradesKept, SeqNames
  <2>5. CASE OpenDialog
    BY <2>5 DEF OpenDialog, TradesKept
  <2>6. CASE Save
    BY <2>6 DEF Save, Running, TradesKept, Stages
  <2> QED BY <1>2, <2>1, <2>2, <2>3, <2>4, <2>5, <2>6
          DEF UserAction, CreateSomeAccount, AddSomeStock
<1>3. CASE SaveStep
  <2>1. CASE SaveProfile
    <3>1. db' = [db EXCEPT !.profile = db.profile + 1]
      BY <2>1 DEF SaveProfile
    <3> QED BY <1>0, <2>1, <3>1 DEF SaveProfile, TradesKept, Databases
  <2>2. CASE ProfilesSaved
    BY <2>2 DEF ProfilesSaved, TradesKept, Stages
  <2>3. CASE SaveAccount
    <3>1. CASE Fatal("fkProfile")
      BY <3>1, EndSteps
    <3>2. CASE ~ Fatal("fkProfile")
      <4>1. PICK e \in accounts :
              /\ db' = [db EXCEPT !.account =
                              Append(@, [profile |-> acctProfile, name |-> e.name,
                                         kind |-> e.kind, cur |-> e.cur])]
              /\ UNCHANGED <<pc, profiles, positions, stocks, options, txs,
                                 profileV, posRemap, stockMap, optionMap, seq,
                                 dialog, backups, starts, fault, halfDone>>
        BY <2>3, <3>2 DEF SaveAccount
      <4> QED BY <1>0, <4>1 DEF TradesKept, Databases
    <3> QED BY <3>1, <3>2
  <2>4. CASE AccountsSaved
    BY <2>4 DEF AccountsSaved, TradesKept, Stages
  <2>5. CASE PositionsSaved
    BY <2>5 DEF PositionsSaved, TradesKept, Stages
  <2>6. CASE SaveStock
    <3>1. PICK e \in stocks : db' = WithStock(db, e.ticker)
      BY <2>6 DEF SaveStock
    <3>2. e.ticker \in Tickers
      BY DEF TypeOK, StockEntries
    <3> QED BY <1>0, <2>6, <3>1, <3>2, WithStockRows DEF SaveStock, TradesKept
  <2>7. CASE StocksSaved
    BY <2>7, EndSteps DEF StocksSaved, TradesKept, Stages
  <2>8. CASE SaveOption
    <3>1. CASE \E cause : Fatal(cause)
      BY <3>1, EndSteps
    <3>2. CASE ~ \E cause : Fatal(cause)
      <4>1. PICK e \in Pending(options) :
              /\ db' = [db EXCEPT !.instrument = db.instrument + 1,
                                  !.option = Append(@, [instr |-> db.instrument + 1,
                                                        und |-> e.und])]
              /\ UNCHANGED <<pc, stocks, stockMap, seq, backups, halfDone>>
              /\ UNCHANGED <<profiles, accounts, positions, txs, acctRemap, posRemap>>
        BY <2>8, <3>2, SaveOptionStep
      <4> QED BY <1>0, <4>1 DEF TradesKept, Databases
    <3> QED BY <3>1, <3>2
  <2>9. CASE OptionsSaved
    BY <2>9, EndSteps
  <2>10. CASE SaveTx
    BY <2>10, EndSteps
  <2> QED BY <1>3, <2>1, <2>2, <2>3, <2>4, <2>5, <2>6, <2>7, <2>8, <2>9, <2>10 DEF SaveStep
<1>4. CASE UNCHANGED vars
  BY <1>4 DEF vars, TradesKept
<1> QED BY <1>1, <1>2, <1>3, <1>4 DEF Next

LEMMA TradesEnd ==
  ASSUME TypeOK, TradeSide, Ends
  PROVE  TradeSide'
<1>1. /\ pc' = "off" /\ backups' = backups /\ positions' = {} /\ txs' = {}
      /\ DOMAIN posRemap' = {}
      /\ Pending(positions)' = {} /\ Pending(txs)' = {} /\ Saved(txs)' = {}
      /\ Ids(Pending(txs))' = {}
  BY DEF Ends, ClearedMemory, Pending, Saved, Ids, EmptyRemap
<1>2. ~ halfDone' => db' = db /\ ~ halfDone /\ pc = "idle"
  BY EndRows
<1>3. IsFiniteSet(positions') /\ IsFiniteSet(txs')
  BY <1>1, FS_EmptySet
<1>4. TradesRest' /\ TradeIds' /\ TxsMirrored'
  BY <1>1 DEF TradesRest, TradeIds, TxsMirrored
<1>5. Traded'
  BY <1>1, <1>2 DEF Traded, TradeSide, PositionRows, Stages
<1> QED BY <1>3, <1>4, <1>5 DEF TradeSide

LEMMA TradesKeptSide ==
  ASSUME TypeOK, TradeSide, TradesKept
  PROVE  TradeSide'
<1> USE DEF TradesKept, TradeSide
<1>1. /\ Pending(positions)' = Pending(positions) /\ Pending(txs)' = Pending(txs)
      /\ Saved(txs)' = Saved(txs) /\ PositionRows' = PositionRows
      /\ TempsOf("tx")' = TempsOf("tx")
  BY DEF Pending, Saved, PositionRows, TempsOf, TempIds
<1>2. TradesRest'
  BY DEF TradesRest, Stages
<1>3. TradeIds' /\ TxsMirrored'
  BY <1>1 DEF TradeIds, TxsMirrored, Ids
<1>4. Traded'
  BY <1>1 DEF Traded
<1> QED BY <1>2, <1>3, <1>4

(* Positions are read anew and transactions forgotten. *)
LEMMA TradesRead ==
  ASSUME TypeOK, TradeSide, Start \/ Restore
  PROVE  TradeSide'
<1> USE DEF TradeSide
<1>1. /\ txs' = {} /\ pc' = "idle" /\ DOMAIN posRemap' = {} /\ pc \in {"idle", "off"}
      /\ halfDone' = halfDone /\ db' \in backups \cup {db}
      /\ backups' \subseteq backups \cup {db}
      /\ Pending(positions)' = {} /\ IsFiniteSet(positions')
      /\ pc = "idle" => db' \in backups /\ backups' = backups
  <2>1. CASE Start
    <3>1. positions' = {} /\ txs' = {} /\ DOMAIN posRemap' = {}
      BY <2>1 DEF Start, TradesRest, remaps
    <3>2. Pending(positions)' = {} /\ IsFiniteSet(positions')
      BY <3>1, FS_EmptySet DEF Pending
    <3> QED BY <2>1, <3>1, <3>2 DEF Start
  <2>2. CASE Restore
    <3>1. PICK d \in backups : db' = d /\ \E ids : positions' = LoadPositions(d, ids)
      BY <2>2 DEF Restore
    <3>2. Pending(positions)' = {} /\ IsFiniteSet(positions')
      <4>1. PICK ids : positions' = LoadPositions(d, ids)
        BY <3>1
      <4>2. IsFiniteSet(LoadPositions(d, ids))
        BY LoadFinite DEF TypeOK
      <4>3. Pending(LoadPositions(d, ids)) = {}
        BY DEF Pending, LoadPositions
      <4> QED BY <4>1, <4>2, <4>3 DEF Pending
    <3> QED BY <2>2, <3>1, <3>2 DEF Restore, Running, TradesRest, remaps
  <2> QED BY <2>1, <2>2
<1>2. /\ Pending(txs)' = {} /\ Saved(txs)' = {} /\ Ids(Pending(txs))' = {}
      /\ IsFiniteSet(txs')
  BY <1>1, FS_EmptySet DEF Pending, Saved, Ids
<1>3. TradesRest' /\ TradeIds' /\ TxsMirrored'
  BY <1>1, <1>2 DEF TradesRest, TradeIds, TxsMirrored
<1>4. ~ halfDone => \A d \in backups \cup {db} : TradedFile(d)
  BY <1>1 DEF Traded, TradedFile, PositionRows, Stages
<1>5. Traded'
  BY <1>1, <1>4 DEF Traded, TradedFile, PositionRows
<1> QED BY <1>1, <1>2, <1>3, <1>5

(* A trade is added with its position, or refused: then a position left    *)
(* behind counts as cut off.                                               *)
LEMMA TradesAdded ==
  ASSUME TypeOK, Core, TradeSide, pc = "idle", pc' = "idle",
         UNCHANGED <<posRemap, db, backups>>, halfDone => halfDone',
         NEW p, positions' = positions \/ positions' = WithPosition(p),
         \/ txs' = txs /\ seq'["tx"] = seq["tx"] /\ (halfDone' \/ positions' = positions)
         \/ \E accts, i : txs' = txs \cup {NewTx(accts, i, p)} /\ seq'["tx"] = Next1("tx")
  PROVE  TradeSide'
<1> USE DEF TradeSide
<1>1. /\ Next1("tx") \in TempIds /\ Next1("tx") < seq["tx"] /\ seq["tx"] \in Int
      /\ Next1("tx") \in Int
  BY NextTemps DEF SeqNames, TempIds
<1>2. /\ IsFiniteSet(positions') /\ PositionRows' = PositionRows
      /\ \A e \in Pending(positions)' : e \in Pending(positions) \/
                                         (e.id = p /\ positions' # positions)
  <2>1. CASE positions' = positions
    BY <2>1 DEF Pending, PositionRows
  <2>2. CASE positions' # positions
    <3> DEFINE new == [id |-> p, state |-> "New"]
    <3>1. positions' = positions \cup {new} /\ new.id = p
      BY <2>2 DEF WithPosition
    <3> HIDE DEF new
    <3>2. IsFiniteSet(positions')
      BY <3>1, FS_AddElement
    <3> QED BY <2>2, <3>1, <3>2 DEF Pending, PositionRows
  <2> QED BY <2>1, <2>2
<1>3. TradesRest'
  BY DEF TradesRest
<1>4. CASE txs' = txs /\ seq'["tx"] = seq["tx"] /\ (halfDone' \/ positions' = positions)
  <2>1. /\ Pending(txs)' = Pending(txs) /\ Saved(txs)' = Saved(txs)
        /\ TempsOf("tx")' = TempsOf("tx")
    BY <1>4 DEF Pending, Saved, TempsOf, TempIds
  <2>2. TradeIds' /\ TxsMirrored'
    BY <1>4, <2>1 DEF TradeIds, TxsMirrored, Ids, TradesRest
  <2>3. Traded'
    BY <1>2, <1>4, <2>1 DEF Traded, Stages
  <2> QED BY <1>2, <1>3, <1>4, <2>2, <2>3
<1>5. ASSUME NEW accts, NEW i, txs' = txs \cup {NewTx(accts, i, p)}, seq'["tx"] = Next1("tx")
      PROVE  TradeSide'
  <2> DEFINE new == NewTx(accts, i, p)
  <2>1. txs' = txs \cup {new} /\ new.id = Next1("tx") /\ new.pos = p /\ new.state = "New"
    BY <1>5 DEF NewTx
  <2> HIDE DEF new
  <2>2. Pending(txs)' = Pending(txs) \cup {new} /\ Saved(txs)' = Saved(txs)
    BY <2>1 DEF Pending, Saved
  <2>3. IsFiniteSet(txs')
    BY <2>1, FS_AddElement
  <2>4. /\ TempsOf("tx") \subseteq TempsOf("tx")' /\ new.id \in TempsOf("tx")'
        /\ new.id \notin TempsOf("tx")
    BY <1>1, <1>5, <2>1 DEF TempsOf, TempIds
  <2>5. \A t \in txs : t.id # new.id
    <3>1. \A t \in Saved(txs) : t.id \in Nat
      <4>1. \A t \in Saved(txs) : t.id \in DOMAIN db.tx
        BY DEF TxsMirrored
      <4> QED BY <4>1 DEF TypeOK, Databases
    <3>2. \A t \in Pending(txs) : t.id # new.id
      BY <2>4 DEF TradeIds, Ids
    <3> QED BY <1>1, <2>1, <3>1, <3>2 DEF Saved, TempIds, NoId
  <2>6. TradeIds'
    BY <2>1, <2>2, <2>4, <2>5 DEF TradeIds, Ids, TradesRest
  <2>7. TxsMirrored'
    BY <2>2 DEF TxsMirrored
  <2>8. Traded'
    BY <1>2, <2>1, <2>2 DEF Traded, Stages
  <2> QED BY <1>2, <1>3, <2>3, <2>6, <2>7, <2>8
<1> QED BY <1>4, <1>5

(* Steps of the user that book a transaction. *)
LEMMA TradesUser ==
  ASSUME TypeOK, Core, TradeSide,
         CreateCashTransaction \/ CreateStockTransaction \/ CreateOptionTransaction
  PROVE  TradeSide'
<1>0. \A accts, i, p : NewTx(accts, i, p).id = Next1("tx")
  BY DEF NewTx
<1>1. CASE CreateCashTransaction
  <2>1. PICK accts : txs' = txs \cup {NewTx(accts, NoId, NoId)}
    BY <1>1 DEF CreateCashTransaction
  <2>2. seq'["tx"] = Next1("tx")
    BY <1>1 DEF CreateCashTransaction, TypeOK, SeqNames
  <2>3. /\ pc = "idle" /\ pc' = "idle" /\ positions' = positions
        /\ UNCHANGED <<posRemap, db, backups, halfDone>>
    BY <1>1 DEF CreateCashTransaction, Running, remaps, disk
  <2> QED BY <2>1, <2>2, <2>3, TradesAdded
<1>2. ASSUME NEW cash, NEW sec, NEW i, NEW p, AddTrade(cash, sec, i, p),
             NEW names, "tx" \in names, seq' = Drawn(names),
             pc = "idle", pc' = "idle", UNCHANGED <<posRemap, db, backups>>
      PROVE  TradeSide'
  <2>1. /\ txs' = txs => seq'["tx"] = seq["tx"]
        /\ txs' # txs => seq'["tx"] = Next1("tx")
    BY <1>2 DEF Drawn, SeqNames
  <2>2. positions' = WithPosition(p) /\ (halfDone => halfDone')
    <3>1. positions' = WithPosition(p)
      BY <1>2 DEF AddTrade
    <3>2. halfDone => halfDone'
      BY <1>2 DEF AddTrade
    <3> QED BY <3>1, <3>2
  <2>3. CASE txs' = txs /\ (halfDone' \/ positions' = positions)
    BY <1>2, <2>1, <2>2, <2>3, TradesAdded
  <2>4. ASSUME NEW ext, txs' = txs \cup {NewTx({cash.id, sec.id, ext.id}, i, p)}
        PROVE  TradeSide'
    <3>1. txs' # txs
      <4> DEFINE new == NewTx({cash.id, sec.id, ext.id}, i, p)
      <4>1. new \in txs' /\ new.id = Next1("tx") /\ new.state = "New"
        BY <2>4 DEF NewTx
      <4> HIDE DEF new
      <4>2. ASSUME new \in txs PROVE FALSE
        <5>1. Next1("tx") \in TempsOf("tx")
          BY <4>1, <4>2 DEF TradeSide, TradeIds, Pending, Ids
        <5> QED BY <5>1, NextTemps DEF TempsOf, SeqNames, TempIds
      <4> QED BY <4>1, <4>2
    <3> QED BY <1>2, <2>1, <2>2, <2>4, <3>1, TradesAdded
  <2>5. \/ txs' = txs /\ (halfDone' \/ positions' = positions)
        \/ \E ext : txs' = txs \cup {NewTx({cash.id, sec.id, ext.id}, i, p)}
    BY <1>2 DEF AddTrade
  <2> QED BY <2>3, <2>4, <2>5
<1>3. CASE CreateStockTransaction
  <2>1. PICK cash, sec, i, p :
          /\ AddTrade(cash, sec, i, p)
          /\ seq' = Drawn(IF p = Next1("position") THEN {"position", "tx"} ELSE {"tx"})
    BY <1>3 DEF CreateStockTransaction
  <2>2. PICK names : "tx" \in names /\ seq' = Drawn(names)
    BY <2>1
  <2>3. pc = "idle" /\ pc' = "idle" /\ UNCHANGED <<posRemap, db, backups>>
    BY <1>3 DEF CreateStockTransaction, Running, remaps
  <2> QED BY <1>2, <2>1, <2>2, <2>3
<1>4. CASE CreateOptionTransaction
  <2>1. PICK cash, sec, i, p : AddTrade(cash, sec, i, p)
    BY <1>4 DEF CreateOptionTransaction
  <2>2. PICK names : "tx" \in names /\ seq' = Drawn(names)
    BY <1>4 DEF CreateOptionTransaction
  <2>3. pc = "idle" /\ pc' = "idle" /\ UNCHANGED <<posRemap, db, backups>>
    BY <1>4 DEF CreateOptionTransaction, Running, remaps
  <2> QED BY <1>2, <2>1, <2>2, <2>3
<1> QED BY <1>1, <1>3, <1>4

LEMMA TradesSavePosition ==
  ASSUME TypeOK, Core, TradeSide, SavePosition
  PROVE  TradeSide'
<1> USE DEF TradeSide
<1> DEFINE row == db.position + 1
           new == [id |-> row, state |-> "Clean"]
<1>1. PICK e \in positions :
        /\ IsNextPending(e, positions)
        /\ db' = [db EXCEPT !.position = row]
        /\ positions' = Committed(positions, e, new)
        /\ posRemap' = Extend(posRemap, e.id, row)
  BY DEF SavePosition
<1>2. /\ pc = "position" /\ pc' = "position"
      /\ UNCHANGED <<txs, seq, backups, halfDone>>
  <2>1. pc = "position"
    BY DEF SavePosition
  <2> QED BY <2>1 DEF SavePosition
<1>3. e \in Pending(positions) /\ e.id \in TempIds /\ e.id \notin DOMAIN posRemap
  <2>1. e \in Pending(positions)
    BY <1>1 DEF IsNextPending
  <2> QED BY <2>1 DEF Core, TempsInRange, TradeIds, Ids
<1>4. /\ db'.tx = db.tx /\ row \in Nat /\ row > 0
      /\ PositionRows' = PositionRows \cup {row}
  <2>1. db \in Databases
    BY DEF TypeOK
  <2>2. db.position \in Nat
    BY <2>1 DEF Databases
  <2>3. db'.tx = db.tx /\ db'.position = row
    BY <1>1, <2>1 DEF Databases
  <2> QED BY <2>2, <2>3 DEF PositionRows, Rows
<1> HIDE DEF row
<1>5. Pending(positions)' = Pending(positions) \ {e}
  BY <1>1 DEF Committed, Pending
<1>6. /\ Pending(txs)' = Pending(txs) /\ Saved(txs)' = Saved(txs)
      /\ TempsOf("tx")' = TempsOf("tx")
  BY <1>2 DEF Pending, Saved, TempsOf, TempIds
<1>7. IsFiniteSet(positions')
  BY <1>1, CommittedFinite
<1>8. TradesRest'
  BY <1>2 DEF TradesRest
<1>9. TradeIds'
  <2>1. \A f \in Pending(positions) \ {e} : f.id # e.id
    <3> SUFFICES ASSUME NEW f \in Pending(positions), f.id = e.id PROVE f = e
      OBVIOUS
    <3>1. /\ f \in [id : Int, state : States] /\ e \in [id : Int, state : States]
          /\ f.state = e.state
      BY <1>3 DEF Pending, TypeOK
    <3> QED BY <3>1
  <2>2. Ids(Pending(positions)') \cap DOMAIN posRemap' = {}
    BY <1>1, <1>5, <2>1 DEF TradeIds, Ids, Extend
  <2> QED BY <1>2, <1>6, <2>2 DEF TradeIds, Ids
<1>10. TxsMirrored'
  BY <1>4, <1>6 DEF TxsMirrored
<1>11. \A t \in txs : Remap(posRemap', t.pos) = IF t.pos = e.id THEN row ELSE Remap(posRemap, t.pos)
  BY <1>1 DEF Remap, Extend
<1>12. Traded'
  <2> SUFFICES ASSUME ~ halfDone, NEW p \in PositionRows'
               PROVE  \/ \E i \in DOMAIN db.tx : db.tx[i].pos = p
                      \/ \E t \in Pending(txs) : Remap(posRemap', t.pos) = p
    BY <1>2, <1>4, <1>5, <1>6 DEF Traded, Stages
  <2>1. CASE p = row
    <3>1. PICK t \in Pending(txs) : t.pos = e.id
      BY <1>3 DEF Traded
    <3> QED BY <1>11, <2>1, <3>1 DEF Pending
  <2>2. CASE p \in PositionRows
    <3>1. CASE \E t \in Pending(txs) : Remap(posRemap, t.pos) = p
      <4>1. PICK t \in Pending(txs) : Remap(posRemap, t.pos) = p
        BY <3>1
      <4>2. t.pos # e.id
        <5>1. Remap(posRemap, e.id) = e.id
          BY <1>3 DEF Remap
        <5>2. p \in Nat
          BY <2>2 DEF PositionRows, Rows, TypeOK, Databases
        <5> QED BY <1>3, <4>1, <5>1, <5>2 DEF TempIds, NoId
      <4> QED BY <1>11, <4>1, <4>2 DEF Pending
    <3> QED BY <2>2, <3>1 DEF Traded
  <2> QED BY <1>4, <2>1, <2>2
<1> QED BY <1>2, <1>7, <1>8, <1>9, <1>10, <1>12

(* A pending transaction learns the rows of what it names. *)
LEMMA RemappedTx ==
  ASSUME TypeOK, NEW t \in txs
  PROVE  LET u == RemapTx(t)
         IN /\ u.id = t.id /\ u.state = t.state
            /\ u.pos = IF t.state = "New" THEN Remap(posRemap, t.pos) ELSE t.pos
            /\ u.accts = IF t.state = "New" THEN {Remap(acctRemap, a) : a \in t.accts} ELSE t.accts
            /\ t.state # "New" => u = t
<1>1. t \in TxEntries
  BY DEF TypeOK
<1>2. \A x, y, z : LET u == [t EXCEPT !.accts = x, !.instr = y, !.pos = z]
                   IN /\ u.id = t.id /\ u.state = t.state /\ u.pos = z /\ u.accts = x
  BY <1>1 DEF TxEntries
<1> QED BY <1>2 DEF RemapTx

(* No position id is remapped twice. *)
LEMMA RemapOnce ==
  ASSUME TypeOK, Core, NEW p \in Int
  PROVE  Remap(posRemap, Remap(posRemap, p)) = Remap(posRemap, p)
<1>1. \A i \in DOMAIN posRemap : posRemap[i] \in Nat
  BY DEF TypeOK, IsRemap
<1>2. \A i \in Nat : i \notin DOMAIN posRemap
  BY DEF Core, TempsInRange, TempIds, NoId
<1> QED BY <1>1, <1>2 DEF Remap

LEMMA OptionsSavedStep ==
  ASSUME TypeOK, TradeSide, OptionsSaved, ~ \E cause : Fatal(cause)
  PROVE  /\ pc = "option" /\ pc' = "tx"
         /\ UNCHANGED <<positions, acctRemap, posRemap, seq, db, backups, halfDone>>
         /\ UNCHANGED <<profiles, accounts, stocks, options>>
         /\ \/ txs' = txs /\ Pending(txs) = {}
            \/ txs' = {RemapTx(t) : t \in txs}
         /\ \A u \in txs' : \E t \in txs :
              /\ u.id = t.id /\ u.state = t.state
              /\ u.pos = IF t.state = "New" THEN Remap(posRemap, t.pos) ELSE t.pos
              /\ u.accts = IF t.state = "New" THEN {Remap(acctRemap, a) : a \in t.accts}
                           ELSE t.accts
              /\ t.state # "New" => u = t
         /\ \A t \in txs : \E u \in txs' :
              /\ u.id = t.id /\ u.state = t.state
              /\ u.pos = IF t.state = "New" THEN Remap(posRemap, t.pos) ELSE t.pos
              /\ t.state # "New" => u = t
         /\ \A u, v \in txs' : u.id = v.id => u = v
         /\ IsFiniteSet(txs') /\ Cardinality(Pending(txs)') = Cardinality(Pending(txs))
<1>1. /\ pc = "option" /\ pc' = "tx"
      /\ UNCHANGED <<positions, acctRemap, posRemap, seq, db, backups, halfDone>>
      /\ UNCHANGED <<profiles, accounts, stocks, options>>
      /\ \/ txs' = txs /\ Pending(txs) = {}
         \/ txs' = {RemapTx(t) : t \in txs}
  BY DEF OptionsSaved, caches, profileV, remaps, disk
<1>2. CASE txs' = txs /\ Pending(txs) = {}
  <2>1. /\ \A t \in txs : t.state # "New"
        /\ Pending(txs)' = Pending(txs) /\ IsFiniteSet(txs')
        /\ \A u, v \in txs' : u.id = v.id => u = v
    BY <1>2 DEF Pending, TradeSide, TradeIds
  <2> QED BY <1>1, <1>2, <2>1
<1>3. CASE txs' = {RemapTx(t) : t \in txs}
  <2>1. /\ \A u \in txs' : \E t \in txs : u = RemapTx(t)
        /\ \A t \in txs : RemapTx(t) \in txs'
    BY <1>3
  <2>2. \A u \in txs' : \E t \in txs :
              /\ u.id = t.id /\ u.state = t.state
              /\ u.pos = IF t.state = "New" THEN Remap(posRemap, t.pos) ELSE t.pos
              /\ u.accts = IF t.state = "New" THEN {Remap(acctRemap, a) : a \in t.accts}
                           ELSE t.accts
              /\ t.state # "New" => u = t
    BY <2>1, RemappedTx
  <2>3. \A t \in txs : \E u \in txs' :
              /\ u.id = t.id /\ u.state = t.state
              /\ u.pos = IF t.state = "New" THEN Remap(posRemap, t.pos) ELSE t.pos
              /\ t.state # "New" => u = t
    BY <2>1, RemappedTx
  <2>4. \A u, v \in txs' : u.id = v.id => u = v
    <3> SUFFICES ASSUME NEW u \in txs', NEW v \in txs', u.id = v.id PROVE u = v
      OBVIOUS
    <3>1. PICK t \in txs : u = RemapTx(t)
      BY <2>1
    <3>2. PICK w \in txs : v = RemapTx(w)
      BY <2>1
    <3>3. t.id = w.id
      BY <3>1, <3>2, RemappedTx
    <3> QED BY <3>1, <3>2, <3>3 DEF TradeSide, TradeIds
  <2>5. IsFiniteSet(txs') /\ IsFiniteSet(txs)
    <3> DEFINE f == [t \in txs |-> RemapTx(t)]
    <3>1. txs' = {f[t] : t \in txs} /\ DOMAIN f = txs /\ f = [t \in txs |-> f[t]]
      BY <1>3
    <3> HIDE DEF f
    <3>2. IsFiniteSet(txs)
      BY DEF TradeSide
    <3> QED BY <3>1, <3>2, ImageFinite
  <2>6. Cardinality(Pending(txs)') = Cardinality(Pending(txs))
    <3> DEFINE P == Pending(txs)
               f == [t \in P |-> RemapTx(t)]
    <3>1. Pending(txs)' = {f[t] : t \in P}
      <4>1. \A t \in txs : RemapTx(t).state = t.state
        BY RemappedTx
      <4> QED BY <1>3, <4>1 DEF Pending
    <3>2. DOMAIN f = P /\ f = [t \in P |-> f[t]]
      OBVIOUS
    <3>3. \A t, u \in P : f[t] = f[u] => t = u
      <4> SUFFICES ASSUME NEW t \in P, NEW u \in P, RemapTx(t) = RemapTx(u) PROVE t = u
        OBVIOUS
      <4>1. t \in txs /\ u \in txs
        BY DEF Pending
      <4>2. t.id = u.id
        BY <4>1, RemappedTx
      <4> QED BY <4>1, <4>2 DEF TradeSide, TradeIds
    <3>4. IsFiniteSet(P)
      BY <2>5, FS_Subset DEF Pending
    <3> HIDE DEF f, P
    <3>5. Cardinality({f[t] : t \in P}) = Cardinality(P)
      BY <3>2, <3>3, <3>4, ImageFinite
    <3> QED BY <3>1, <3>5 DEF P
  <2> QED BY <1>1, <1>3, <2>2, <2>3, <2>4, <2>5, <2>6
<1> QED BY <1>1, <1>2, <1>3

LEMMA TradesOptionsSaved ==
  ASSUME TypeOK, Core, TradeSide, OptionsSaved, ~ \E cause : Fatal(cause)
  PROVE  TradeSide'
<1> USE DEF TradeSide
<1>1. /\ pc = "option" /\ pc' = "tx"
      /\ UNCHANGED <<positions, acctRemap, posRemap, seq, db, backups, halfDone>>
      /\ \A u \in txs' : \E t \in txs :
           /\ u.id = t.id /\ u.state = t.state
           /\ t.state # "New" => u = t
      /\ \A t \in txs : \E u \in txs' :
           /\ u.id = t.id /\ u.state = t.state
           /\ u.pos = IF t.state = "New" THEN Remap(posRemap, t.pos) ELSE t.pos
           /\ t.state # "New" => u = t
      /\ \A u, v \in txs' : u.id = v.id => u = v
      /\ IsFiniteSet(txs')
  BY OptionsSavedStep
<1>2. /\ Pending(positions) = {} /\ Pending(positions)' = {}
      /\ PositionRows' = PositionRows /\ TempsOf("tx")' = TempsOf("tx")
  BY <1>1 DEF Core, StagesInOrder, Pending, PositionRows, TempsOf, TempIds
<1>3. /\ Saved(txs)' = Saved(txs) /\ Ids(Pending(txs)') \subseteq Ids(Pending(txs))
  BY <1>1 DEF Saved, Pending, Ids
<1>4. TradesRest'
  BY <1>1 DEF TradesRest
<1>5. TradeIds'
  BY <1>1, <1>2, <1>3 DEF TradeIds, Ids
<1>6. TxsMirrored'
  BY <1>1, <1>3 DEF TxsMirrored
<1>7. Traded'
  <2> SUFFICES ASSUME ~ halfDone, NEW p \in PositionRows, NEW t \in Pending(txs),
                      Remap(posRemap, t.pos) = p
               PROVE  \E u \in Pending(txs)' : Remap(posRemap, u.pos) = p
    BY <1>1, <1>2 DEF Traded, Stages
  <2>1. t \in txs /\ t.state = "New" /\ t.pos \in Int
    BY DEF Pending, TypeOK, TxEntries
  <2>2. PICK u \in txs' : u.state = t.state /\ u.pos = Remap(posRemap, t.pos)
    BY <1>1, <2>1
  <2>3. Remap(posRemap, u.pos) = p
    BY <2>1, <2>2, RemapOnce
  <2> QED BY <2>1, <2>2, <2>3 DEF Pending
<1> QED BY <1>1, <1>4, <1>5, <1>6, <1>7

LEMMA SavedTx ==
  ASSUME NEW e \in TxEntries, NEW x
  PROVE  LET new == [e EXCEPT !.id = x, !.state = "Clean"]
         IN /\ new.id = x /\ new.accts = e.accts /\ new.instr = e.instr /\ new.pos = e.pos
            /\ new.state = "Clean"
BY DEF TxEntries

LEMMA SaveTxStep ==
  ASSUME TypeOK, SaveTx, ~ \E cause : Fatal(cause)
  PROVE  \E e \in Pending(txs) :
           /\ db' = [db EXCEPT !.tx = Append(@, [accts |-> e.accts, instr |-> e.instr,
                                                 pos |-> e.pos])]
           /\ txs' = Committed(txs, e, [e EXCEPT !.id = Len(db.tx) + 1, !.state = "Clean"])
           /\ pc = "tx" /\ e.accts \subseteq AccountRows
           /\ UNCHANGED <<pc, positions, acctRemap, posRemap, seq, backups, halfDone>>
           /\ UNCHANGED <<profiles, accounts, stocks, options>>
BY DEF SaveTx, IsNextPending, remaps

LEMMA TradesSaveTx ==
  ASSUME TypeOK, Core, TradeSide, SaveTx, ~ \E cause : Fatal(cause)
  PROVE  TradeSide'
<1> USE DEF TradeSide
<1> DEFINE row == Len(db.tx) + 1
           rec(e) == [accts |-> e.accts, instr |-> e.instr, pos |-> e.pos]
           saved(e) == [e EXCEPT !.id = row, !.state = "Clean"]
<1>1. PICK e \in Pending(txs) :
        /\ db' = [db EXCEPT !.tx = Append(@, rec(e))]
        /\ txs' = Committed(txs, e, saved(e))
        /\ pc = "tx"
        /\ UNCHANGED <<pc, positions, acctRemap, posRemap, seq, backups, halfDone>>
  BY SaveTxStep
<1> DEFINE new == saved(e)  r == rec(e)
<1>2. /\ e \in txs /\ e.state = "New" /\ e \in TxEntries /\ e.pos \in Int
      /\ new.id = row /\ new.accts = e.accts /\ new.instr = e.instr /\ new.pos = e.pos
      /\ new.state = "Clean"
  <2>1. e \in txs /\ e.state = "New" /\ e \in TxEntries
    BY DEF Pending, TypeOK
  <2>2. e.pos \in Int
    BY <2>1 DEF TxEntries
  <2> QED BY <2>1, <2>2, SavedTx
<1>3. /\ db'.tx = Append(db.tx, r) /\ db'.position = db.position
      /\ db.tx \in Seq(TxRecords) /\ r \in TxRecords /\ r.pos = e.pos
      /\ r = [accts |-> e.accts, instr |-> e.instr, pos |-> e.pos]
  <2>1. db \in Databases
    BY DEF TypeOK
  <2>2. db'.tx = Append(db.tx, r) /\ db'.position = db.position
    BY <1>1, <2>1 DEF Databases
  <2>3. db.tx \in Seq(TxRecords)
    BY <2>1 DEF Databases
  <2>4. r \in TxRecords
    BY <1>2 DEF TxRecords, TxEntries
  <2> QED BY <2>2, <2>3, <2>4
<1>4. /\ row \in Nat /\ row > 0 /\ DOMAIN db'.tx = DOMAIN db.tx \cup {row}
      /\ row \notin DOMAIN db.tx /\ db'.tx[row] = r
      /\ \A i \in DOMAIN db.tx : db'.tx[i] = db.tx[i]
  BY <1>3, AppendRows
<1> HIDE DEF row, new, r
<1>5. /\ txs' = (txs \ {e}) \cup {new}
      /\ Pending(txs)' = Pending(txs) \ {e}
      /\ Saved(txs)' = Saved(txs) \cup {new}
  <2>1. txs' = (txs \ {e}) \cup {new}
    BY <1>1 DEF Committed, new
  <2> QED BY <1>1, <1>2, <2>1 DEF Pending, Saved
<1>6. /\ Pending(positions)' = Pending(positions) /\ Pending(positions) = {}
      /\ PositionRows' = PositionRows /\ TempsOf("tx")' = TempsOf("tx")
  BY <1>1, <1>3 DEF Pending, Core, StagesInOrder, PositionRows, TempsOf, TempIds
<1>7. \A t \in txs : t.id # row
  <2>1. \A t \in Saved(txs) : t.id \in DOMAIN db.tx
    BY DEF TxsMirrored
  <2>2. \A t \in Pending(txs) : t.id \in TempIds
    BY DEF TradeIds, Ids, TempsOf
  <2> QED BY <1>4, <2>1, <2>2 DEF Saved, TempIds, NoId
<1>8. IsFiniteSet(txs')
  BY <1>1, CommittedFinite
<1>9. TradesRest'
  BY <1>1 DEF TradesRest
<1>10. TradeIds'
  <2>1. \A t, u \in txs' : t.id = u.id => t = u
    BY <1>2, <1>5, <1>7 DEF TradeIds
  <2> QED BY <1>1, <1>5, <1>6, <2>1 DEF TradeIds, Ids
<1>11. TxsMirrored'
  <2>1. \A t \in Saved(txs) :
          t.id \in DOMAIN db.tx /\ db.tx[t.id] = [accts |-> t.accts, instr |-> t.instr,
                                                  pos |-> t.pos]
    BY DEF TxsMirrored, TradesOf
  <2>2. \A t \in Saved(txs)' :
          t.id \in DOMAIN db'.tx /\ db'.tx[t.id] = [accts |-> t.accts, instr |-> t.instr,
                                                    pos |-> t.pos]
    BY <1>2, <1>3, <1>4, <1>5, <2>1
  <2> QED BY <2>2 DEF TxsMirrored, TradesOf
<1>12. Remap(posRemap, e.pos) = e.pos
  <2>1. e.pos \in {NoId} \cup PositionRows
    BY <1>1, <1>6 DEF Core, PendingResolves, PositionRefs, Ids
  <2> QED BY <2>1 DEF Core, TempsInRange, TempIds, NoId, Remap, PositionRows, Rows
<1>13. Traded'
  <2> SUFFICES ASSUME ~ halfDone, NEW p \in PositionRows
               PROVE  \/ \E i \in DOMAIN db'.tx : db'.tx[i].pos = p
                      \/ \E t \in Pending(txs)' : Remap(posRemap, t.pos) = p
    BY <1>1, <1>6 DEF Traded, Stages
  <2>1. CASE \E i \in DOMAIN db.tx : db.tx[i].pos = p
    BY <1>4, <2>1
  <2>2. ASSUME NEW t \in Pending(txs), Remap(posRemap, t.pos) = p
        PROVE  \/ \E i \in DOMAIN db'.tx : db'.tx[i].pos = p
               \/ \E u \in Pending(txs)' : Remap(posRemap, u.pos) = p
    <3>1. CASE t = e
      BY <1>3, <1>4, <1>12, <2>2, <3>1
    <3>2. CASE t # e
      BY <1>5, <2>2, <3>2
    <3> QED BY <3>1, <3>2
  <2> QED BY <1>1, <2>1, <2>2 DEF Traded
<1> QED BY <1>1, <1>8, <1>9, <1>10, <1>11, <1>13

LEMMA TradesSaveEnds ==
  ASSUME TypeOK, TradeSide, TxsSaved
  PROVE  TradeSide'
<1> USE DEF TradeSide
<1>1. /\ pc = "tx" /\ pc' = "idle" /\ Pending(txs) = {} /\ DOMAIN posRemap' = {}
      /\ UNCHANGED <<positions, txs, seq, db, backups, halfDone>>
  BY DEF TxsSaved, caches, disk, EmptyRemap
<1>2. /\ Pending(positions)' = Pending(positions) /\ Pending(txs)' = {}
      /\ Saved(txs)' = Saved(txs) /\ PositionRows' = PositionRows /\ Ids(Pending(txs))' = {}
  BY <1>1 DEF Pending, Saved, PositionRows, Ids
<1>3. TradesRest' /\ TxsMirrored'
  BY <1>1, <1>2 DEF TradesRest, TxsMirrored
<1>4. TradeIds'
  BY <1>1, <1>2 DEF TradeIds
<1>5. Traded'
  BY <1>1, <1>2 DEF Traded
<1> QED BY <1>1, <1>3, <1>4, <1>5

LEMMA TradesInit == Init => TradeSide
<1> SUFFICES ASSUME Init PROVE TradeSide
  OBVIOUS
<1>1. /\ Pending(positions) = {} /\ Pending(txs) = {} /\ Saved(txs) = {}
      /\ Ids(Pending(txs)) = {} /\ DOMAIN posRemap = {} /\ PositionRows = {}
  BY DEF Init, Pending, Saved, Ids, EmptyRemap, PositionRows, Rows
<1>2. IsFiniteSet(positions) /\ IsFiniteSet(txs)
  BY FS_EmptySet DEF Init
<1>3. TradesRest /\ TradeIds /\ TxsMirrored /\ Traded
  BY <1>1 DEF Init, TradesRest, TradeIds, TxsMirrored, Traded
<1> QED BY <1>2, <1>3 DEF TradeSide

LEMMA TradesStep ==
  ASSUME TypeOK, Core, InstrumentSide, TradeSide, [Next]_vars
  PROVE  TradeSide'
BY TradeCases, TradesEnd, TradesRead, TradesUser, TradesSavePosition,
   TradesOptionsSaved, TradesSaveTx, TradesSaveEnds, TradesKeptSide

-----------------------------------------------------------------------------
(* What the invariant gives. *)

LEMMA MirrorInit == Init => Mirror
BY AccountsInit, InstrumentsInit, TradesInit DEF Mirror

LEMMA MirrorStep ==
  ASSUME TypeOK, Core, Mirror, [Next]_vars
  PROVE  Mirror'
BY AccountsStep, InstrumentsStep, TradesStep DEF Mirror

LEMMA MirrorHolds == Spec => [](TypeOK /\ Core /\ Mirror)
<1>1. Init => TypeOK /\ Core /\ Mirror
  BY InitType, InitCore, MirrorInit
<1>2. TypeOK /\ Core /\ Mirror /\ [Next]_vars => (TypeOK /\ Core /\ Mirror)'
  BY StepType, StepCore, MirrorStep
<1> QED BY <1>1, <1>2, PTL DEF Spec

(* What a cache calls saved is what the file holds: no order of creating,   *)
(* saving, restoring and switching the profile leaves a Clean entry that    *)
(* differs from its row (BaseStore::_commitEntry, reload).                  *)
THEOREM CacheAgreesWithFile == Spec => []CacheMirrorsDb
<1>1. Mirror => CacheMirrorsDb
  BY DEF Mirror, AccountSide, AccountsMirrored, InstrumentSide, StocksMirrored,
         OptionsMirrored, TradeSide, TxsMirrored, CacheMirrorsDb, Saved
<1> QED BY <1>1, MirrorHolds, PTL

(* The file never holds two stocks of a ticker, two options of a contract   *)
(* or two accounts of a profile alike, although the stores look for doubles *)
(* in their caches only (addStock, optionExists, createAccount).            *)
THEOREM FileHasNoDoubles == Spec => []DbUnique
<1>1. Mirror => DbUnique
  BY DEF Mirror, AccountSide, AccountFile, InstrumentSide, InstrumentFile, AccountRows,
         DbUnique
<1> QED BY <1>1, MirrorHolds, PTL

(* Unless something was cut off midway, every position row has a trade and  *)
(* every instrument row a stock or an option (createStockTransaction,       *)
(* StoreContainer::commit).                                                 *)
THEOREM FileHasNoOrphans == Spec => []NoOrphans
<1>1. Mirror => NoOrphans
  <2> SUFFICES ASSUME Mirror, ~ halfDone, pc \in {"idle", "off"}
               PROVE  /\ \A p \in PositionRows : \E i \in DOMAIN db.tx : db.tx[i].pos = p
                      /\ OwnedFile(db)
    BY DEF NoOrphans, OwnedFile, InstrumentRows
  <2> QED BY DEF Mirror, TradeSide, Traded, InstrumentSide, Stages
<1> QED BY <1>1, MirrorHolds, PTL

(* Unless something was cut off midway, the session knows an external       *)
(* account for every cash account it knows: the booking of a transaction    *)
(* finds its counterpart (createAccount, getCorrespondingExternalAccountId). *)
THEOREM ExternalIsKnown == Spec => []CashHasExternal
<1>1. Mirror => CashHasExternal
  BY DEF Mirror, AccountSide
<1> QED BY <1>1, MirrorHolds, PTL

-----------------------------------------------------------------------------
(* A save neither loses nor repeats. *)

(* An entry that is saved leaves the pending ones, and no other does. *)
LEMMA CommittedCount ==
  ASSUME NEW S, IsFiniteSet(S), NEW e \in Pending(S), NEW new, new.state = "Clean"
  PROVE  /\ Pending(Committed(S, e, new)) = Pending(S) \ {e}
         /\ Cardinality(Pending(S)) \in Nat
         /\ Cardinality(Pending(Committed(S, e, new))) = Cardinality(Pending(S)) - 1
<1>1. Pending(Committed(S, e, new)) = Pending(S) \ {e}
  BY DEF Pending, Committed
<1>2. IsFiniteSet(Pending(S))
  BY FS_Subset DEF Pending
<1>3. Cardinality(Pending(S) \ {e}) = Cardinality(Pending(S)) - 1
  BY <1>2, FS_RemoveElement
<1> QED BY <1>1, <1>2, <1>3, FS_CardinalityType

(* What SaveConserves asks of a step. *)
Conserved ==
  /\ Total(db.profile, profiles)' = Total(db.profile, profiles)
  /\ Total(Len(db.account), accounts)' = Total(Len(db.account), accounts)
  /\ Total(db.position, positions)' = Total(db.position, positions)
  /\ Total(Len(db.stock), stocks)' = Total(Len(db.stock), stocks)
  /\ Total(Len(db.option), options)' = Total(Len(db.option), options)
  /\ Total(Len(db.tx), txs)' = Total(Len(db.tx), txs)

(* One more row and one pending entry less. *)
LEMMA TotalKept ==
  ASSUME NEW S, IsFiniteSet(S), NEW e \in Pending(S), NEW new, new.state = "Clean",
         NEW n \in Nat
  PROVE  Total(n + 1, Committed(S, e, new)) = Total(n, S)
<1>1. /\ Cardinality(Pending(S)) \in Nat
      /\ Cardinality(Pending(Committed(S, e, new))) = Cardinality(Pending(S)) - 1
  BY CommittedCount
<1> QED BY <1>1 DEF Total

LEMMA ProfileConserved ==
  ASSUME TypeOK, AccountSide, SaveProfile
  PROVE  Conserved
<1>1. PICK e \in profiles :
        /\ IsNextPending(e, profiles)
        /\ db' = [db EXCEPT !.profile = db.profile + 1]
        /\ profiles' = Committed(profiles, e, [e EXCEPT !.id = db.profile + 1,
                                                       !.state = "Clean"])
        /\ IF activeProfile = e.id
           THEN ActivateProfile(db.profile + 1)
           ELSE UNCHANGED <<accounts, profileV>>
  BY DEF SaveProfile
<1>2. e \in Pending(profiles) /\ e \in [id : Int, state : States] /\ IsFiniteSet(profiles)
  BY <1>1 DEF IsNextPending, TypeOK, AccountSide
<1>3. /\ db'.profile = db.profile + 1 /\ db'.account = db.account
      /\ db'.position = db.position /\ db'.stock = db.stock /\ db'.option = db.option
      /\ db'.tx = db.tx /\ db.profile \in Nat
  BY <1>1 DEF TypeOK, Databases
<1>4. accounts' = accounts
  <2>1. CASE activeProfile = e.id /\ Pending(accounts) = {}
    <3>1. activeProfile < NoId
      BY <1>2, <2>1 DEF AccountSide, AccountIds, Ids, TempIds
    <3>2. accounts = {}
      BY <2>1, <3>1 DEF AccountSide, ProfileFirst, Saved
    <3>3. db.profile + 1 \notin Rows(db.profile) /\ db.profile + 1 \in Int
      BY <1>3 DEF Rows
    <3>4. LoadAccounts(db, db.profile + 1) = {}
      BY <3>3 DEF AccountSide, AccountFile, LoadAccounts
    <3> QED BY <1>1, <2>1, <3>2, <3>4 DEF ActivateProfile
  <2>2. CASE ~ (activeProfile = e.id /\ Pending(accounts) = {})
    BY <1>1, <2>2 DEF ActivateProfile
  <2> QED BY <2>1, <2>2
<1>5. UNCHANGED <<positions, stocks, options, txs>>
  BY DEF SaveProfile
<1> DEFINE new == [e EXCEPT !.id = db.profile + 1, !.state = "Clean"]
<1>6. new.state = "Clean"
  BY <1>2
<1>7. profiles' = Committed(profiles, e, new)
  BY <1>1
<1> HIDE DEF new
<1>8. Total(db'.profile, profiles') = Total(db.profile, profiles)
  BY <1>2, <1>3, <1>6, <1>7, TotalKept
<1> QED BY <1>3, <1>4, <1>5, <1>8 DEF Conserved

LEMMA AccountConserved ==
  ASSUME TypeOK, AccountSide, SaveAccount, pc' # "off"
  PROVE  Conserved
<1> DEFINE row == Len(db.account) + 1
           r(e) == [profile |-> acctProfile, name |-> e.name, kind |-> e.kind, cur |-> e.cur]
           saved(e) == [e EXCEPT !.id = row, !.state = "Clean"]
<1>1. PICK e \in accounts :
        /\ IsNextPending(e, accounts)
        /\ db' = [db EXCEPT !.account = Append(@, r(e))]
        /\ accounts' = Committed(accounts, e, saved(e))
        /\ UNCHANGED <<profiles, positions, stocks, options, txs>>
  BY DEF SaveAccount, Fatal
<1> DEFINE new == saved(e)
<1>2. e \in Pending(accounts) /\ e \in AccountEntries /\ IsFiniteSet(accounts)
  BY <1>1 DEF IsNextPending, TypeOK, AccountSide
<1>3. new.state = "Clean"
  BY <1>2 DEF AccountEntries
<1>4. r(e) \in AccountRecords
  BY <1>2 DEF AccountRecords, AccountEntries, TypeOK
<1>5. /\ db'.account = Append(db.account, r(e)) /\ db.account \in Seq(AccountRecords)
      /\ db'.profile = db.profile /\ db'.position = db.position /\ db'.stock = db.stock
      /\ db'.option = db.option /\ db'.tx = db.tx
  BY <1>1 DEF TypeOK, Databases
<1> HIDE DEF r, new
<1>6. Len(db'.account) = Len(db.account) + 1 /\ Len(db.account) \in Nat
  BY <1>4, <1>5
<1>7. accounts' = Committed(accounts, e, new)
  BY <1>1 DEF new
<1>8. Total(Len(db'.account), accounts') = Total(Len(db.account), accounts)
  BY <1>2, <1>3, <1>6, <1>7, TotalKept
<1> QED BY <1>1, <1>5, <1>8 DEF Conserved

LEMMA PositionConserved ==
  ASSUME TypeOK, TradeSide, SavePosition
  PROVE  Conserved
<1>1. PICK e \in positions :
        /\ IsNextPending(e, positions)
        /\ db' = [db EXCEPT !.position = db.position + 1]
        /\ positions' = Committed(positions, e, [id |-> db.position + 1, state |-> "Clean"])
        /\ UNCHANGED <<profiles, accounts, stocks, options, txs>>
  BY DEF SavePosition
<1> DEFINE new == [id |-> db.position + 1, state |-> "Clean"]
<1>2. e \in Pending(positions) /\ IsFiniteSet(positions)
  BY <1>1 DEF IsNextPending, TradeSide
<1>3. /\ db'.position = db.position + 1 /\ db'.account = db.account
      /\ db'.profile = db.profile /\ db'.stock = db.stock /\ db'.option = db.option
      /\ db'.tx = db.tx /\ db.position \in Nat
  BY <1>1 DEF TypeOK, Databases
<1>4. new.state = "Clean"
  OBVIOUS
<1>5. positions' = Committed(positions, e, new)
  BY <1>1
<1> HIDE DEF new
<1>6. Total(db'.position, positions') = Total(db.position, positions)
  BY <1>2, <1>3, <1>4, <1>5, TotalKept
<1> QED BY <1>1, <1>3, <1>6 DEF Conserved

LEMMA StockConserved ==
  ASSUME TypeOK, InstrumentSide, SaveStock
  PROVE  Conserved
<1> DEFINE saved(e) == [e EXCEPT !.id = Len(db.stock) + 1, !.instr = db.instrument + 1,
                                 !.state = "Clean"]
           r(e) == [instr |-> db.instrument + 1, ticker |-> e.ticker]
<1>1. PICK e \in stocks :
        /\ IsNextPending(e, stocks)
        /\ db' = WithStock(db, e.ticker)
        /\ stocks' = Committed(stocks, e, saved(e))
        /\ UNCHANGED <<profiles, accounts, positions, options, txs>>
  BY DEF SaveStock
<1> DEFINE new == saved(e)
<1>2. e \in Pending(stocks) /\ e \in StockEntries /\ IsFiniteSet(stocks)
  BY <1>1 DEF IsNextPending, TypeOK, InstrumentSide
<1>3. new.state = "Clean"
  BY <1>2 DEF StockEntries
<1>4. e.ticker \in Tickers /\ db \in Databases
  BY <1>2 DEF StockEntries, TypeOK
<1>5. db.stock \in Seq(StockRecords) /\ r(e) \in StockRecords
  BY <1>4 DEF StockRecords, Databases
<1>6. /\ db'.stock = Append(db.stock, r(e))
      /\ db'.profile = db.profile /\ db'.position = db.position
      /\ db'.account = db.account /\ db'.option = db.option /\ db'.tx = db.tx
  BY <1>1, <1>4, WithStockRows
<1> HIDE DEF r, new
<1>7. Len(db'.stock) = Len(db.stock) + 1 /\ Len(db.stock) \in Nat
  BY <1>5, <1>6
<1>8. stocks' = Committed(stocks, e, new)
  BY <1>1 DEF new
<1>9. Total(Len(db'.stock), stocks') = Total(Len(db.stock), stocks)
  BY <1>2, <1>3, <1>7, <1>8, TotalKept
<1> QED BY <1>1, <1>6, <1>9 DEF Conserved

(* Rewriting the underlyings of the pending options keeps their number. *)
LEMMA StocksSavedConserved ==
  ASSUME TypeOK, InstrumentSide, StocksSaved, pc' # "off"
  PROVE  Conserved
<1>1. /\ UNCHANGED <<profiles, accounts, positions, stocks, txs, db>>
      /\ options' = options \/ options' = {RemapOption(o) : o \in options}
  BY DEF StocksSaved, Fatal, caches, disk
<1>2. CASE options' = options
  BY <1>1, <1>2 DEF Conserved
<1>3. CASE options' = {RemapOption(o) : o \in options}
  <2> DEFINE P == Pending(options)
             f == [o \in P |-> RemapOption(o)]
  <2>1. \A o \in options : RemapOption(o).id = o.id /\ RemapOption(o).state = o.state
    BY DEF RemapOption, TypeOK, OptionEntries
  <2>2. Pending(options)' = {f[o] : o \in P}
    BY ZenonT(30), <1>3, <2>1 DEF Pending
  <2>3. DOMAIN f = P /\ f = [o \in P |-> f[o]]
    OBVIOUS
  <2>4. \A o, p \in P : f[o] = f[p] => o = p
    BY <2>1 DEF InstrumentSide, InstrumentIds, Pending
  <2>5. IsFiniteSet(P)
    BY FS_Subset DEF InstrumentSide, Pending
  <2> HIDE DEF f, P
  <2>6. Cardinality({f[o] : o \in P}) = Cardinality(P)
    BY <2>3, <2>4, <2>5, ImageFinite
  <2>7. Cardinality(Pending(options)') = Cardinality(Pending(options))
    BY <2>2, <2>6 DEF P
  <2> QED BY <1>1, <2>7 DEF Conserved, Total
<1> QED BY <1>1, <1>2, <1>3

LEMMA OptionConserved ==
  ASSUME TypeOK, Core, InstrumentSide, SaveOption, pc' # "off"
  PROVE  Conserved
<1> DEFINE instr == db.instrument + 1
           saved(e) == [e EXCEPT !.id = Len(db.option) + 1, !.instr = instr,
                                 !.state = "Clean"]
           r(e) == [instr |-> instr, und |-> e.und]
<1>0. ~ \E cause : Fatal(cause)
  BY DEF Fatal
<1>1. PICK e \in Pending(options) :
        /\ db' = [db EXCEPT !.instrument = instr, !.option = Append(@, r(e))]
        /\ options' = Committed(options, e, saved(e))
        /\ UNCHANGED <<profiles, accounts, positions, stocks, txs>>
  BY <1>0, SaveOptionStep
<1> DEFINE new == saved(e)
<1>2. e \in OptionEntries /\ IsFiniteSet(options)
  BY DEF Pending, TypeOK, InstrumentSide
<1>3. new.state = "Clean"
  BY <1>2 DEF OptionEntries
<1>4. db.option \in Seq(OptionRecords) /\ r(e) \in OptionRecords
  BY <1>2 DEF OptionRecords, OptionEntries, TypeOK, Databases
<1>5. /\ db'.option = Append(db.option, r(e))
      /\ db'.profile = db.profile /\ db'.position = db.position
      /\ db'.account = db.account /\ db'.stock = db.stock /\ db'.tx = db.tx
  BY <1>1 DEF TypeOK, Databases
<1> HIDE DEF r, new
<1>6. Len(db'.option) = Len(db.option) + 1 /\ Len(db.option) \in Nat
  BY <1>4, <1>5
<1>7. options' = Committed(options, e, new)
  BY <1>1 DEF new
<1>8. Total(Len(db'.option), options') = Total(Len(db.option), options)
  BY <1>2, <1>3, <1>6, <1>7, TotalKept
<1> QED BY <1>1, <1>5, <1>8 DEF Conserved

LEMMA TxConserved ==
  ASSUME TypeOK, TradeSide, SaveTx, pc' # "off"
  PROVE  Conserved
<1> DEFINE saved(e) == [e EXCEPT !.id = Len(db.tx) + 1, !.state = "Clean"]
           r(e) == [accts |-> e.accts, instr |-> e.instr, pos |-> e.pos]
<1>0. ~ \E cause : Fatal(cause)
  BY DEF Fatal
<1>1. PICK e \in Pending(txs) :
        /\ db' = [db EXCEPT !.tx = Append(@, r(e))]
        /\ txs' = Committed(txs, e, saved(e))
        /\ UNCHANGED <<profiles, accounts, positions, stocks, options>>
  BY <1>0, SaveTxStep
<1> DEFINE new == saved(e)
<1>2. e \in TxEntries /\ IsFiniteSet(txs)
  BY DEF Pending, TypeOK, TradeSide
<1>3. new.state = "Clean"
  BY <1>2 DEF TxEntries
<1>4. db.tx \in Seq(TxRecords) /\ r(e) \in TxRecords
  BY <1>2 DEF TxRecords, TxEntries, TypeOK, Databases
<1>5. /\ db'.tx = Append(db.tx, r(e))
      /\ db'.profile = db.profile /\ db'.position = db.position
      /\ db'.account = db.account /\ db'.stock = db.stock /\ db'.option = db.option
  BY <1>1 DEF TypeOK, Databases
<1> HIDE DEF r, new
<1>6. Len(db'.tx) = Len(db.tx) + 1 /\ Len(db.tx) \in Nat
  BY <1>4, <1>5
<1>7. txs' = Committed(txs, e, new)
  BY <1>1 DEF new
<1>8. Total(Len(db'.tx), txs') = Total(Len(db.tx), txs)
  BY <1>2, <1>3, <1>6, <1>7, TotalKept
<1> QED BY <1>1, <1>5, <1>8 DEF Conserved

(* The remaining steps of a save only move to the next store. *)
LEMMA StageConserved ==
  ASSUME TypeOK, TradeSide, pc' # "off",
         \/ ProfilesSaved \/ AccountsSaved \/ PositionsSaved \/ OptionsSaved \/ TxsSaved
  PROVE  Conserved
<1>1. CASE ProfilesSaved \/ AccountsSaved \/ PositionsSaved \/ TxsSaved
  BY <1>1 DEF ProfilesSaved, AccountsSaved, PositionsSaved, TxsSaved, caches, disk, Conserved
<1>2. CASE OptionsSaved
  <2>1. /\ UNCHANGED <<profiles, accounts, positions, stocks, options, db>>
        /\ Cardinality(Pending(txs)') = Cardinality(Pending(txs))
    BY <1>2, OptionsSavedStep DEF Fatal
  <2> QED BY <2>1 DEF Conserved, Total
<1> QED BY <1>1, <1>2

(* No step of a save loses an entry or writes one twice: what leaves the    *)
(* pending entries of a store is what its table gains (the commit of every  *)
(* store, StoreContainer::commit).                                          *)
THEOREM SaveKeepsCount == Spec => SaveConserves
<1>1. TypeOK /\ Core /\ Mirror /\ [Next]_vars
        => [(pc \in Stages /\ pc' # "off") => Conserved]_vars
  <2> SUFFICES ASSUME TypeOK, Core, Mirror, [Next]_vars, pc \in Stages, pc' # "off"
               PROVE  Conserved
    OBVIOUS
  <2>1. CASE Next
    <3>1. pc # "off" /\ pc # "idle"
      BY DEF Stages
    <3>2. ~ Start /\ ~ Quit /\ ~ Interrupt /\ ~ UserAction
      BY <3>1 DEF Start, Quit, Interrupt, UserAction, SelectProfile, AddProfile,
         CreateSomeAccount, CreateAccount, AddSomeStock, AddStock, OpenDialog,
         CreateCashTransaction, CreateStockTransaction, CreateOptionTransaction, Save,
         Restore, Running
    <3>3. SaveStep
      BY <2>1, <3>2 DEF Next
    <3> QED BY <3>3, ProfileConserved, AccountConserved, PositionConserved, StockConserved,
               StocksSavedConserved, OptionConserved, TxConserved, StageConserved
            DEF SaveStep, Mirror
  <2>2. CASE UNCHANGED vars
    BY <2>2 DEF vars, caches, disk, Conserved
  <2> QED BY <2>1, <2>2
<1>2. [](TypeOK /\ Core /\ Mirror) /\ [][Next]_vars
        => [][(pc \in Stages /\ pc' # "off") => Conserved]_vars
  BY <1>1, PTL
<1>3. SaveConserves <=> [][(pc \in Stages /\ pc' # "off") => Conserved]_vars
  BY DEF SaveConserves, Conserved
<1> QED BY <1>2, <1>3, MirrorHolds DEF Spec

-----------------------------------------------------------------------------
(* A transaction that can be booked stays so. *)

(* The account ids that a save can turn into rows, or that are rows. *)
BookableIds == AccountRows \cup Ids(Pending(accounts)) \cup DOMAIN acctRemap

(* Steps after which no transaction of before is pending. *)
TxsGone == Ends \/ Start \/ TxsSaved \/ Restore

LEMMA GoneTxs ==
  ASSUME TypeOK, TradeSide, TxsGone
  PROVE  Pending(txs) = {} \/ txs' = {}
<1>1. CASE Ends
  BY <1>1 DEF Ends, ClearedMemory
<1>2. CASE Start
  BY <1>2 DEF Start, TradeSide, TradesRest, Pending
<1>3. CASE TxsSaved \/ Restore
  BY <1>3 DEF TxsSaved, Restore
<1> QED BY <1>1, <1>2, <1>3 DEF TxsGone

(* No step but the end of a save forgets what an account id leads to. *)
LEMMA AccountsReachable ==
  ASSUME TypeOK, Core, AccountSide, [Next]_vars, ~ TxsGone
  PROVE  BookableIds \subseteq BookableIds'
<1>1. ASSUME NEW p \in Int, ActivateProfile(p) PROVE Pending(accounts) \subseteq Pending(accounts)'
  BY <1>1 DEF ActivateProfile, Pending
<1>2. ASSUME Pending(accounts) \subseteq Pending(accounts)', acctRemap' = acctRemap,
             db'.account = db.account
      PROVE  BookableIds \subseteq BookableIds'
  BY <1>2 DEF BookableIds, Ids, AccountRows
<1>3. CASE SelectProfile \/ AddProfile
  <2>1. PICK p \in Int : ActivateProfile(p)
    BY <1>3, NextIdType, IdTypes DEF SelectProfile, AddProfile, SeqNames
  <2> QED BY <1>1, <1>2, <1>3, <2>1 DEF SelectProfile, AddProfile, remaps, disk
<1>4. CASE CreateSomeAccount
  <2>1. accounts \subseteq accounts' /\ acctRemap' = acctRemap /\ db' = db
    BY <1>4 DEF CreateSomeAccount, CreateAccount, remaps, disk
  <2> QED BY <1>2, <2>1 DEF Pending
<1>5. CASE SaveProfile
  <2>1. acctRemap' = acctRemap /\ db'.account = db.account
    BY <1>5 DEF SaveProfile, remaps, TypeOK, Databases
  <2>2. Pending(accounts) \subseteq Pending(accounts)'
    <3>1. (\E p \in Int : ActivateProfile(p)) \/ accounts' = accounts
      BY <1>5 DEF SaveProfile, TypeOK, Databases
    <3> QED BY <1>1, <3>1 DEF Pending
  <2> QED BY <1>2, <2>1, <2>2
<1>6. CASE SaveAccount /\ acctProfile \in ProfileRows
  <2> DEFINE row == Len(db.account) + 1
             r(e) == [profile |-> acctProfile, name |-> e.name, kind |-> e.kind,
                      cur |-> e.cur]
             saved(e) == [e EXCEPT !.id = row, !.state = "Clean"]
  <2>1. PICK e \in accounts :
          /\ db' = [db EXCEPT !.account = Append(@, r(e))]
          /\ accounts' = Committed(accounts, e, saved(e))
          /\ acctRemap' = Extend(acctRemap, e.id, row)
    BY <1>6 DEF SaveAccount
  <2>2. r(e) \in AccountRecords /\ db.account \in Seq(AccountRecords)
        /\ db'.account = Append(db.account, r(e))
    BY <2>1 DEF AccountRecords, AccountEntries, TypeOK, Databases
  <2>3. AccountRows \subseteq AccountRows'
    BY <2>2, AppendRows DEF AccountRows
  <2>4. Pending(accounts) \ {e} \subseteq Pending(accounts)'
    BY <2>1 DEF Pending, Committed
  <2>5. DOMAIN acctRemap' = DOMAIN acctRemap \cup {e.id}
    BY <2>1 DEF Extend
  <2> QED BY <2>3, <2>4, <2>5 DEF BookableIds, Ids
<1>7. CASE AccountsSaved
  BY <1>2, <1>7 DEF AccountsSaved, caches, remaps, disk, Pending
<1>8. CASE AccountsKept
  BY <1>2, <1>8 DEF AccountsKept, Pending
<1> QED BY <1>3, <1>4, <1>5, <1>6, <1>7, <1>8, AccountCases DEF TxsGone

(* A pending transaction keeps its accounts, but for the remap of a save. *)
LEMMA TxsKeepAccounts ==
  ASSUME TypeOK, Core, InstrumentSide, TradeSide, [Next]_vars, ~ TxsGone,
         NEW t \in Pending(txs), NEW u \in txs', u.id = t.id
  PROVE  u.accts = t.accts \/ u.accts = {Remap(acctRemap, a) : a \in t.accts}
<1>1. /\ t \in txs /\ t.state = "New" /\ t.id \in TempsOf("tx")
      /\ \A v \in txs : v.id = t.id => v = t
  BY DEF TradeSide, TradeIds, Pending, Ids
<1>2. t.id # Next1("tx")
  BY <1>1, NextTemps DEF TempsOf, SeqNames, TempIds
<1>3. ASSUME NEW new, txs' = txs \cup {new}, new.id = Next1("tx")
      PROVE  u = t
  BY <1>1, <1>2, <1>3
<1>4. \A accts, i, p : NewTx(accts, i, p).id = Next1("tx")
  BY DEF NewTx
<1>5. CASE CreateCashTransaction
  BY <1>3, <1>4, <1>5 DEF CreateCashTransaction
<1>6. CASE CreateStockTransaction \/ CreateOptionTransaction
  <2>1. PICK cash, sec, i, p : AddTrade(cash, sec, i, p)
    BY <1>6 DEF CreateStockTransaction, CreateOptionTransaction
  <2>2. txs' = txs \/ \E accts : txs' = txs \cup {NewTx(accts, i, p)}
    BY <2>1 DEF AddTrade
  <2> QED BY <1>1, <1>3, <1>4, <2>2
<1>7. CASE OptionsSaved /\ ~ \E cause : Fatal(cause)
  <2>1. PICK v \in txs :
          /\ u.id = v.id
          /\ u.accts = IF v.state = "New" THEN {Remap(acctRemap, a) : a \in v.accts}
                       ELSE v.accts
    BY <1>7, OptionsSavedStep
  <2> QED BY <1>1, <2>1
<1>8. CASE SaveTx /\ ~ \E cause : Fatal(cause)
  <2> DEFINE new(e) == [e EXCEPT !.id = Len(db.tx) + 1, !.state = "Clean"]
  <2>1. PICK e \in Pending(txs) : txs' = Committed(txs, e, new(e))
    BY <1>8, SaveTxStep
  <2>2. Len(db.tx) \in Nat
    <3>1. db.tx \in Seq(TxRecords)
      BY DEF TypeOK, Databases
    <3> QED BY <3>1
  <2>3. new(e).id = Len(db.tx) + 1
    BY DEF Pending, TypeOK, TxEntries
  <2>4. Len(db.tx) + 1 # t.id
    BY <1>1, <2>2 DEF TempsOf, TempIds, NoId
  <2>5. u # new(e)
    BY <2>3, <2>4
  <2> HIDE DEF new
  <2> QED BY <1>1, <2>1, <2>5 DEF Committed
<1>9. CASE SavePosition \/ TradesKept
  BY <1>1, <1>9 DEF SavePosition, TradesKept
<1> QED BY <1>5, <1>6, <1>7, <1>8, <1>9, TradeCases DEF TxsGone

(* A pending transaction whose accounts can all be turned into rows when it *)
(* is entered keeps this until it is a row itself: no save, profile change  *)
(* or restore takes an account id away from it (AccountStore::commit,       *)
(* BaseStore::_idRemap, TransactionStore::commit).                          *)
THEOREM BookableStays == Spec => StaysBookable
<1>1. TypeOK /\ Core /\ Mirror /\ [Next]_vars =>
        [\A t \in Pending(txs), u \in txs' : Bookable(t) /\ u.id = t.id => Bookable(u)']_vars
  <2> SUFFICES ASSUME TypeOK, Core, Mirror, [Next]_vars,
                      NEW t \in Pending(txs), NEW u \in txs', Bookable(t), u.id = t.id
               PROVE  u.accts \subseteq BookableIds'
    BY DEF Bookable, BookableIds
  <2>1. ~ TxsGone
    BY GoneTxs DEF Mirror
  <2>2. t.accts \subseteq BookableIds
    BY DEF Bookable, BookableIds
  <2>3. \A a \in BookableIds : Remap(acctRemap, a) \in BookableIds
    BY DEF Remap, BookableIds, Mirror, AccountSide, AccountIds
  <2>4. u.accts \subseteq BookableIds
    BY <2>1, <2>2, <2>3, TxsKeepAccounts DEF Mirror
  <2>5. BookableIds \subseteq BookableIds'
    BY <2>1, AccountsReachable DEF Mirror
  <2> QED BY <2>4, <2>5
<1>2. [](TypeOK /\ Core /\ Mirror) /\ [][Next]_vars =>
        [][\A t \in Pending(txs), u \in txs' : Bookable(t) /\ u.id = t.id => Bookable(u)']_vars
  BY <1>1, PTL
<1> QED BY <1>2, MirrorHolds DEF Spec, StaysBookable
=============================================================================
