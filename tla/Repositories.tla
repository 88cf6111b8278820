----------------------------- MODULE Repositories -----------------------------
(* The reads of the repositories over the rows that a connection holds, and *)
(* the two ways in which the transaction store applies a filter: as SQL to  *)
(* what is saved, as a predicate to what it holds itself.                   *)
EXTENDS Connection, SequencesExt

Q == INSTANCE Query WITH Null <- None

(* TransactionFilter; the store puts in the accounts of the session when    *)
(* none is asked for.                                                       *)
Filters == [accountIds : SUBSET AccountIds \ {{}},
            positionIds : SUBSET PositionIds,
            transactionIds : SUBSET Named("transaction_")]

Ids(S) == SetToSortSeq(S, <)
Conditions(c, S) == Q!AnyOf([i \in DOMAIN Ids(S) |-> Q!Equal(c, Ids(S)[i])])

(* TransactionFactory::toWhereExpr and toJoin.                              *)
Where(f) ==
  Q!And(Conditions(<<"transaction_", "id">>, f.transactionIds),
        Conditions(<<"trade_leg", "position">>, f.positionIds))

ToLegs(f) ==
  IF f.positionIds = {} THEN <<>>
  ELSE <<[from |-> <<"transaction_", "id">>, to |-> <<"trade_leg", "of">>]>>

(* The rows of a table that name a transaction, in the order of their ids.  *)
OfTransaction(t, id) ==
  LET found == Q!Returned(work, t, Q!Query_(<<>>, FALSE, Q!Equal(<<t, "of">>, id)))
  IN  SetToSortSeq(DOMAIN found, LAMBDA a, b : a.id < b.id)

Accts(rs) == {rs[i].account : i \in DOMAIN rs}

(* The transaction of a row, put together from the rows that name it.       *)
Assembled(row, entries, legs, options) ==
  [id |-> row.id, type |-> row.type,
   entries |-> [i \in DOMAIN entries |-> entries[i].account],
   legs |-> [i \in DOMAIN legs |-> [account |-> legs[i].account, position |-> legs[i].position]],
   options |-> options]

(* TransactionRepo::getTransactions: what it returns and how often.         *)
GetTransactions(f) ==
  LET found == Q!Returned(work, "transaction_", Q!Query_(ToLegs(f), FALSE, Where(f)))
      kept == {r \in DOMAIN found :
                 (Accts(OfTransaction("tx_entry", r.id))
                    \cup Accts(OfTransaction("trade_leg", r.id))) \cap f.accountIds # {}}
      tx(r) == Assembled(r, OfTransaction("tx_entry", r.id), OfTransaction("trade_leg", r.id),
                         IF r.type = "Option"
                         THEN Len(OfTransaction("transaction_option", r.id)) ELSE 0)
  IN  {<<tx(r), found[r]>> : r \in kept}

(* Mutant: without DISTINCT a position comes once for every trade.          *)
QueryPositionsRepeating(joins, e) == Q!Query_(joins, FALSE, e)
QueryPositions(joins, e) == Q!Query_(joins, TRUE, e)

(* PositionRepo::getAllOpenPositions; nothing ever sets closed_at.          *)
OpenPositions(accountIds) ==
  Q!Returned(work, "position",
    QueryPositions(<<[from |-> <<"position", "id">>, to |-> <<"trade_leg", "position">>]>>,
                   Q!And(Q!In(<<"trade_leg", "account">>, Ids(accountIds)),
                         Q!IsNull(<<"position", "closed">>))))

(* ------------------------------ the store's way -------------------------- *)
(* The transactions of the file as they were entered.                       *)
Stored ==
  {LET mine(t) == SetToSortSeq({q \in work : q.table = t /\ q.of = r.id},
                               LAMBDA a, b : a.id < b.id)
   IN  Assembled(r, mine("tx_entry"), mine("trade_leg"), Len(mine("transaction_option"))) :
     r \in {q \in work : q.table = "transaction_"}}

IsAccountInvolved(tx, a) ==
  \/ \E i \in DOMAIN tx.entries : tx.entries[i] = a
  \/ \E i \in DOMAIN tx.legs : tx.legs[i].account = a

HasPositionId(tx, p) == \E i \in DOMAIN tx.legs : tx.legs[i].position = p

(* TransactionFilter::getPredicate.                                         *)
Predicate(f, tx) ==
  /\ \E a \in f.accountIds : IsAccountInvolved(tx, a)
  /\ f.positionIds # {} => \E p \in f.positionIds : HasPositionId(tx, p)
  /\ f.transactionIds # {} => tx.id \in f.transactionIds

(* Saving a transaction changes nothing in what a filter shows: the SQL of  *)
(* the filter finds what the predicate finds, each once and as it was       *)
(* entered (TransactionStore::getTransactions merges the two by id).        *)
SavedReadsAsHeld ==
  Idle => \A f \in Filters :
            GetTransactions(f) = {<<tx, 1>> : tx \in {t \in Stored : Predicate(f, t)}}

(* The positions of an account are those of the trades on it, each once.    *)
PositionsOfTrades ==
  Idle => \A S \in SUBSET AccountIds \ {{}} :
    LET found == OpenPositions(S)
    IN  /\ {r.id : r \in DOMAIN found} =
             {tx.legs[1].position : tx \in {t \in Stored : t.legs # <<>> /\ t.legs[1].account \in S}}
        /\ \A r \in DOMAIN found : found[r] = 1
=============================================================================
