------------------------ MODULE StoreContainerMirror ------------------------
(***************************************************************************)
(* Why the caches of the stores agree with the file, why the file stays    *)
(* free of doubles and orphans, and why a save neither loses nor repeats:  *)
(* the inductive invariant behind CacheMirrorsDb, DbUnique, NoOrphans,     *)
(* CashHasExternal, SaveConserves and StaysBookable.  It has one part for  *)
(* profiles and accounts, one for stocks and options, and one for          *)
(* positions and transactions.                                             *)
(***************************************************************************)
EXTENDS StoreContainer

Saved(S) == S \ Pending(S)

(* The temporary ids a sequence has handed out. *)
TempsOf(name) == {i \in TempIds : seq[name] <= i}

-----------------------------------------------------------------------------
(* Profiles and accounts. *)

(* A process that has ended has forgotten what it knew, and the remap of a *)
(* save does not outlive the save.                                         *)
AccountsRest ==
  /\ pc = "off" => /\ profiles = {} /\ accounts = {} /\ session = {}
                   /\ activeProfile = NoId /\ acctProfile = NoId
  /\ pc \in {"idle", "off"} => DOMAIN acctRemap = {}

(* No two accounts share an id, and no id is drawn that was drawn before. *)
AccountIds ==
  /\ \A a, b \in accounts : a.id = b.id => a = b
  /\ Ids(Pending(profiles)) \subseteq TempIds
  /\ Ids(Pending(accounts)) \subseteq TempsOf("account")
  /\ \A k \in session : k.id < NoId => k.id \in TempsOf("account")
  /\ \A i \in DOMAIN acctRemap : acctRemap[i] \in AccountRows

(* Without a profile there are no accounts, and none of an unsaved profile *)
(* is saved.                                                               *)
ProfileFirst ==
  /\ activeProfile = acctProfile
  /\ activeProfile = NoId => accounts = {} /\ session = {}
  /\ activeProfile < NoId => Saved(accounts) = {}

AccountFile(d) ==
  /\ \A i \in DOMAIN d.account : d.account[i].profile \in Rows(d.profile)
  /\ \A i, j \in DOMAIN d.account : SameAccount(d.account[i], d.account[j]) => i = j

(* The saved accounts in the cache are the rows of the active profile. *)
AccountsMirrored ==
  /\ \A a \in Saved(accounts) :
       /\ a.id \in AccountRows
       /\ db.account[a.id] = [profile |-> acctProfile, name |-> a.name,
                              kind |-> a.kind, cur |-> a.cur]
  /\ pc # "off" =>
       \A i \in AccountRows :
         db.account[i].profile = acctProfile => i \in Ids(Saved(accounts))

AccountsUnique ==
  \A a, b \in accounts :
    a.kind = b.kind /\ (IF a.kind = "External" THEN a.cur = b.cur ELSE a.name = b.name)
      => a = b

(* The session has an account like every one of the cache, be it under an *)
(* id of before.                                                           *)
SessionKnown == \A a \in accounts : \E k \in session : k.kind = a.kind /\ k.cur = a.cur

(* Unless something was cut off midway, a cash account and the external    *)
(* account of its currency come together: in the cache, in every file, and *)
(* while accounts are being saved in cache and file together.              *)
HasExternalRow(d, i) ==
  \E j \in DOMAIN d.account :
    /\ d.account[j].kind = "External" /\ d.account[j].cur = d.account[i].cur
    /\ d.account[j].profile = d.account[i].profile
HasPendingExternal(i) ==
  /\ pc = "account" /\ db.account[i].profile = acctProfile
  /\ \E b \in Pending(accounts) : b.kind = "External" /\ b.cur = db.account[i].cur
PairedFile(d) ==
  \A i \in DOMAIN d.account : d.account[i].kind = "Cash" => HasExternalRow(d, i)
Paired ==
  ~ halfDone =>
    /\ \A d \in backups : PairedFile(d)
    /\ \A a \in accounts : a.kind = "Cash" => HasExternal(a.cur)
    /\ \A i \in AccountRows :
         db.account[i].kind = "Cash" => HasExternalRow(db, i) \/ HasPendingExternal(i)

AccountSide ==
  /\ IsFiniteSet(profiles) /\ IsFiniteSet(accounts)
  /\ AccountsRest /\ AccountIds /\ ProfileFirst /\ AccountsMirrored /\ AccountsUnique
  /\ SessionKnown /\ Paired /\ CashHasExternal
  /\ \A d \in backups \cup {db} : AccountFile(d)

-----------------------------------------------------------------------------
(* Stocks and options. *)

InstrumentsRest == pc = "off" => stocks = {} /\ options = {}

InstrumentIds ==
  /\ \A s, t \in stocks : s.instr = t.instr => s = t
  /\ \A o, p \in options : o.id = p.id => o = p
  /\ Ids(Pending(options)) \subseteq TempsOf("option")
  /\ pc = "stock" => StockTemps \cap DOMAIN stockMap = {}

InstrumentFile(d) ==
  /\ \A i, j \in DOMAIN d.stock : d.stock[i].ticker = d.stock[j].ticker => i = j
  /\ \A i, j \in DOMAIN d.stock : d.stock[i].instr = d.stock[j].instr => i = j
  /\ \A i, j \in DOMAIN d.option : d.option[i].und = d.option[j].und => i = j
  /\ \A i \in DOMAIN d.option : \E j \in DOMAIN d.stock : d.stock[j].instr = d.option[i].und

StocksMirrored ==
  /\ \A s \in Saved(stocks) :
       s.id \in DOMAIN db.stock /\ db.stock[s.id] = [instr |-> s.instr, ticker |-> s.ticker]
  /\ pc # "off" => DOMAIN db.stock \subseteq Ids(Saved(stocks))
OptionsMirrored ==
  /\ \A o \in Saved(options) :
       o.id \in DOMAIN db.option /\ db.option[o.id] = [instr |-> o.instr, und |-> o.und]
  /\ pc # "off" => DOMAIN db.option \subseteq Ids(Saved(options))

InstrumentsUnique ==
  /\ \A s, t \in stocks : s.ticker = t.ticker => s = t
  /\ \A o, p \in options : o.ticker = p.ticker => o = p

(* The stock under an option is in the cache; while stocks are being saved *)
(* the option may still name it by the id it had before.                   *)
UnderlyingKnown ==
  \A o \in options : \E s \in stocks :
    /\ s.ticker = o.ticker
    /\ \/ o.und = s.instr
       \/ /\ pc = "stock" /\ o.state = "New"
          /\ o.und \in DOMAIN stockMap /\ stockMap[o.und] = s.instr

(* Every instrument row belongs to a stock or an option. *)
OwnedFile(d) ==
  \A n \in Rows(d.instrument) :
    \/ \E i \in DOMAIN d.stock : d.stock[i].instr = n
    \/ \E i \in DOMAIN d.option : d.option[i].instr = n

InstrumentSide ==
  /\ IsFiniteSet(stocks) /\ IsFiniteSet(options)
  /\ InstrumentsRest /\ InstrumentIds /\ StocksMirrored /\ OptionsMirrored
  /\ InstrumentsUnique /\ UnderlyingKnown
  /\ \A d \in backups \cup {db} : InstrumentFile(d)
  /\ ~ halfDone => \A d \in backups \cup {db} : OwnedFile(d)

-----------------------------------------------------------------------------
(* Positions and transactions. *)

TradesRest ==
  /\ pc = "off" => positions = {} /\ txs = {}
  /\ pc \in {"idle", "off"} => DOMAIN posRemap = {}

TradeIds ==
  /\ \A t, u \in txs : t.id = u.id => t = u
  /\ Ids(Pending(txs)) \subseteq TempsOf("tx")
  /\ Ids(Pending(positions)) \cap DOMAIN posRemap = {}

TxsMirrored ==
  \A t \in Saved(txs) : t.id \in DOMAIN db.tx /\ db.tx[t.id] \in TradesOf({t})

(* Unless something was cut off midway, every position has a trade: a row  *)
(* has one in the file, or while a save runs a pending one that is about   *)
(* to get there, and a pending position has a pending one.                 *)
TradedFile(d) == \A p \in Rows(d.position) : \E i \in DOMAIN d.tx : d.tx[i].pos = p
Traded ==
  ~ halfDone =>
    /\ \A d \in backups : TradedFile(d)
    /\ \A p \in PositionRows :
         \/ \E i \in DOMAIN db.tx : db.tx[i].pos = p
         \/ pc \in Stages /\ \E t \in Pending(txs) : Remap(posRemap, t.pos) = p
    /\ \A e \in Pending(positions) : \E t \in Pending(txs) : t.pos = e.id

TradeSide ==
  /\ IsFiniteSet(positions) /\ IsFiniteSet(txs)
  /\ TradesRest /\ TradeIds /\ TxsMirrored /\ Traded

Mirror == AccountSide /\ InstrumentSide /\ TradeSide
=============================================================================
