------------------------------ MODULE Connection ------------------------------
(* db::Database and db::Transaction under the insertions of the             *)
(* repositories.  A call of a repository is a list of units.  A unit opens  *)
(* a Transaction of its own, or, when it inserts through Crud::insert(db,   *)
(* row), has that open one for the row; a Transaction built while another   *)
(* is open is inactive, and neither commits nor rolls back.  The engine may *)
(* be busy at BEGIN and at COMMIT, may refuse a row, and may roll back on   *)
(* its own; an exception unwinds the open Transactions and ends the         *)
(* program, and the program may end anywhere.                               *)
EXTENDS Integers, Sequences

CONSTANTS
  CashAccounts, Securities, Externals,   \* ids that accounts may get
  PositionIds,                           \* ids that positions may get
  None,                                  \* no account, no position, no type
  MaxOf                                  \* bound: rows of each table

LoneTables == {"account", "position", "instrument", "stock", "option_", "watchlist"}
Children == {"tx_entry", "trade_leg", "transaction_option"}
Tables == LoneTables \cup {"transaction_"} \cup Children
Dependents == Children \cup {"stock", "option_"}   \* rows that name another

(* TransactionRepo::addTransaction, over what getEntries returns: the       *)
(* amount on the cash account and, but for a stock, on the external one,    *)
(* and the fees on both.                                                    *)
Shape ==
  [Cash   |-> <<"transaction_", "tx_entry", "tx_entry", "tx_entry", "tx_entry">>,
   Stock  |-> <<"transaction_", "tx_entry", "tx_entry", "tx_entry", "trade_leg">>,
   Option |-> <<"transaction_", "tx_entry", "tx_entry", "tx_entry", "tx_entry",
                "trade_leg", "transaction_option">>]
Types == DOMAIN Shape

AccountIds == CashAccounts \cup Securities \cup Externals

ASSUME ConnectionAssumption ==
  /\ MaxOf \in [Tables -> Nat]
  /\ AccountIds \subseteq Nat /\ PositionIds \subseteq Nat
  /\ None \notin Nat \cup Types

VARIABLES
  up,          \* whether the program runs, as opposed to having ended
  todo,        \* the units that the running call has left
  scopes,      \* the Transaction objects alive, innermost first, each
               \* "active" or "inactive" (_isActive)
  started,     \* Database::_transactionStarted
  inTx,        \* whether the engine is in a transaction
  rows,        \* the committed rows
  work,        \* the rows the connection sees
  batch,       \* the rows inserted for the first unit of todo
  owner,       \* the id returned by the insertion that the next rows name
  failing,     \* whether an exception unwinds the Transactions
  last,        \* the batch that was last committed
  returned     \* the rows whose ids the repositories returned

conn == <<scopes, started, inTx>>
data == <<rows, work, last>>
vars == <<up, todo, conn, data, batch, owner, failing, returned>>

Idle == up /\ todo = <<>>

(* The ids in use in a table.                                               *)
Named(t) == {r.id : r \in {q \in work : q.table = t}}

(* A row before it has an id.                                               *)
Blank(t) == [table |-> t, type |-> None, account |-> None, position |-> None]
Entry(a) == [Blank("tx_entry") EXCEPT !.account = a]
Leg(s, p) == [Blank("trade_leg") EXCEPT !.account = s, !.position = p]
TxHead(type) == [Blank("transaction_") EXCEPT !.type = type]

CashTransaction(a, x) ==
  <<TxHead("Cash"), Entry(a), Entry(x), Entry(a), Entry(x)>>
StockTransaction(a, x, s, p) ==
  <<TxHead("Stock"), Entry(a), Entry(a), Entry(x), Leg(s, p)>>
OptionTransaction(a, x, s, p) ==
  <<TxHead("Option"), Entry(a), Entry(x), Entry(a), Entry(x), Leg(s, p),
    Blank("transaction_option")>>

(* A unit with a Transaction of its own around its insertions, and one that *)
(* leaves it to Crud::insert.                                               *)
Scope(rs) == [own |-> TRUE, rows |-> rs]
Single(t) == [own |-> FALSE, rows |-> <<Blank(t)>>]

AddStock == <<Single("instrument"), Single("stock")>>

(* addOption adds the stock of a contract that has none.                    *)
AddOption == (IF \E r \in work : r.table = "stock" THEN <<>> ELSE AddStock)
               \o <<Single("instrument"), Single("option_")>>

Call(units) ==
  /\ Idle /\ todo' = units
  /\ UNCHANGED <<up, conn, data, batch, owner, failing, returned>>

CreateAccount == Call(<<Scope(<<Blank("account")>>)>>)
CreateWatchlist == Call(<<Scope(<<Blank("watchlist")>>)>>)
CreatePosition == Call(<<Single("position")>>)

Unit == Head(todo)

(* Transaction objects alive while the next row is inserted: the unit's own *)
(* and, for the first row, that of Crud::insert.                            *)
Depth == IF Unit.own /\ batch = <<>> THEN 2 ELSE 1

(* Mutant: no Transaction begins one of the engine.                         *)
BeginsNever == FALSE

(* Transaction's constructor begins one unless one was begun.               *)
Begins == ~started
Open == /\ up /\ ~failing /\ todo # <<>>
        /\ Len(scopes) < Depth /\ Len(batch) < Len(Unit.rows)
        /\ \/ /\ scopes' = <<IF Begins THEN "active" ELSE "inactive">> \o scopes
              /\ started' = (started \/ Begins) /\ inTx' = (inTx \/ Begins)
              /\ UNCHANGED failing
           \/ /\ Begins                                  \* SQLITE_BUSY
              /\ failing' = TRUE /\ UNCHANGED conn
        /\ UNCHANGED <<up, todo, data, batch, owner, returned>>

(* The rowid that the engine gives.                                         *)
IsNext(t, id) == id \notin Named(t) /\ \A k \in 1..(id - 1) : k \in Named(t)

(* The id that the rows to come will name.                                  *)
OwnerAfter(row) == IF row.table \in Children THEN owner ELSE row.id

MayInsert == /\ up /\ ~failing /\ todo # <<>>
             /\ Len(scopes) = Depth /\ Len(batch) < Len(Unit.rows)

(* Crud::insert: outside of a transaction of the engine a row is committed  *)
(* as it is inserted.                                                       *)
Insert ==
  /\ MayInsert
  /\ LET r == Unit.rows[Len(batch) + 1]
     IN  \E id \in 1..MaxOf[r.table] :
           LET row == [table |-> r.table, type |-> r.type, account |-> r.account,
                       position |-> r.position, id |-> id,
                       of |-> IF r.table \in Dependents THEN owner ELSE None]
           IN  /\ IsNext(r.table, id)
               /\ work' = work \cup {row} /\ batch' = Append(batch, row)
               /\ owner' = OwnerAfter(row)
               /\ rows' = IF inTx THEN rows ELSE work'
               /\ last' = IF inTx THEN last ELSE <<row>>
  /\ UNCHANGED <<up, todo, conn, failing, returned>>

(* A row is refused, or the engine cannot go on and rolls back on its own;  *)
(* the repository throws.                                                   *)
InsertFails ==
  /\ MayInsert /\ failing' = TRUE
  /\ \/ UNCHANGED <<inTx, work>>
     \/ inTx' = FALSE /\ work' = rows
  /\ UNCHANGED <<up, todo, scopes, started, rows, last, batch, owner, returned>>

Ended == Len(batch) = Len(Unit.rows)

(* Mutant: a unit's own Transaction is not committed.                       *)
DurableWithoutOwn(active) == IF active /\ ~Unit.own THEN work ELSE rows

(* What the file holds after a Transaction was committed and destroyed: one *)
(* that is inactive leaves that to the one around it.                       *)
Durable(active) == IF active THEN work ELSE rows

(* Transaction::commit and the destructor after it, for the innermost one.  *)
Close ==
  /\ up /\ ~failing /\ todo # <<>>
  /\ batch # <<>> /\ (Len(scopes) > Depth \/ Ended)
  /\ \/ /\ scopes' = Tail(scopes)
        /\ IF Head(scopes) = "active"
           THEN /\ rows' = Durable(TRUE) /\ work' = rows'
                /\ last' = IF rows' = rows THEN last ELSE batch
                /\ started' = FALSE /\ inTx' = FALSE
           ELSE UNCHANGED <<rows, work, last, started, inTx>>
        /\ IF Len(scopes) = 1
           THEN /\ todo' = Tail(todo) /\ batch' = <<>>
                /\ owner' = IF Len(todo) = 1 THEN None ELSE owner
                /\ returned' = returned \cup {batch[1]}
           ELSE UNCHANGED <<todo, batch, owner, returned>>
        /\ UNCHANGED failing
     \/ /\ Head(scopes) = "active"                                \* SQLITE_BUSY
        /\ failing' = TRUE
        /\ UNCHANGED <<conn, data, todo, batch, owner, returned>>
  /\ UNCHANGED up

(* The destructor of the innermost Transaction on the way of an exception;  *)
(* a ROLLBACK that fails is logged and leaves _transactionStarted set.      *)
Unwind ==
  /\ up /\ failing /\ scopes # <<>>
  /\ scopes' = Tail(scopes)
  /\ IF Head(scopes) = "active" /\ inTx
     THEN started' = FALSE /\ inTx' = FALSE /\ work' = rows
     ELSE UNCHANGED <<started, inTx, work>>
  /\ UNCHANGED <<up, todo, rows, last, batch, owner, failing, returned>>

(* The exception arrives at notify, which ends the program; or the program  *)
(* ends anywhere.  The engine forgets what was not committed.               *)
Die ==
  /\ up /\ up' = FALSE
  /\ todo' = <<>> /\ batch' = <<>> /\ owner' = None /\ failing' = FALSE
  /\ scopes' = <<>> /\ started' = FALSE /\ inTx' = FALSE /\ work' = rows
  /\ UNCHANGED <<rows, last, returned>>

(* Database's constructor and open().                                       *)
Start == /\ ~up /\ up' = TRUE
         /\ UNCHANGED <<todo, conn, data, batch, owner, failing, returned>>

Init == /\ up = FALSE /\ todo = <<>> /\ batch = <<>> /\ owner = None
        /\ scopes = <<>> /\ started = FALSE /\ inTx = FALSE
        /\ rows = {} /\ work = {} /\ last = <<>>
        /\ failing = FALSE /\ returned = {}

(* The stores save the accounts and positions of a transaction before it.   *)
Saved(S, t) == S \cap Named(t)
AddTransaction ==
  \E a \in Saved(CashAccounts, "account"), x \in Saved(Externals, "account") :
    \/ Call(<<Scope(CashTransaction(a, x))>>)
    \/ \E s \in Saved(Securities, "account"), p \in Saved(PositionIds, "position") :
         \/ Call(<<Scope(StockTransaction(a, x, s, p))>>)
         \/ Call(<<Scope(OptionTransaction(a, x, s, p))>>)

Next == \/ CreateAccount \/ CreateWatchlist \/ CreatePosition
        \/ Call(AddStock) \/ Call(AddOption) \/ AddTransaction
        \/ Open \/ Insert \/ InsertFails \/ Close \/ Unwind \/ Die \/ Start

Spec == Init /\ [][Next]_vars

Promise == INSTANCE AtomicBatches

(* The file sees whole batches only, whatever fails and wherever the        *)
(* program ends (TransactionRepo, AccountRepo, Crud::insert).               *)
RowsComeWhole == Promise!Spec

(* An id that a repository has returned is that of a committed row: the     *)
(* stores replace their own ids by it and drop what they kept.              *)
ReturnedIsDurable == returned \subseteq rows
=============================================================================
