--------------------------- MODULE ConnectionProofs ---------------------------
(* That the file sees whole batches only, and holds every row whose id was  *)
(* returned, for every set of accounts, positions and bounds.               *)
EXTENDS Connection, TLAPS

Account == Nat \cup {None}
Template == [table : Tables, type : Types \cup {None},
             account : Account, position : Account]
Row == [table : Tables, type : Types \cup {None}, account : Account,
        position : Account, id : Nat, of : Account]

LoneUnit(u) == Len(u.rows) = 1 /\ u.rows[1].table \in LoneTables

TxUnit(u) ==
  /\ u.own /\ u.rows[1].table = "transaction_" /\ u.rows[1].type \in Types
  /\ Len(u.rows) = Len(Shape[u.rows[1].type])
  /\ \A i \in 1..Len(u.rows) : u.rows[i].table = Shape[u.rows[1].type][i]
  /\ \A i \in 2..Len(u.rows) : u.rows[i].table \in Children

Units == {u \in [own : BOOLEAN, rows : Seq(Template)] : LoneUnit(u) \/ TxUnit(u)}

Own == <<"active">>
Both == <<"inactive">> \o Own

TypeOK ==
  /\ up \in BOOLEAN /\ failing \in BOOLEAN
  /\ todo \in Seq(Units)
  /\ scopes \in {<<>>, Own, Both}
  /\ started \in BOOLEAN /\ inTx \in BOOLEAN
  /\ rows \subseteq Row /\ work \subseteq Row
  /\ batch \in Seq(Row) /\ owner \in Account
  /\ returned \subseteq rows

(* The engine is in a transaction exactly while a Transaction is alive, and *)
(* the flag says so, unless an exception is under way.                      *)
InStep ==
  ~failing => /\ inTx = (scopes # <<>>)
              /\ started = (scopes # <<>>)

(* What is in work and not in the file is the batch, under keys of its own. *)
Uncommitted ==
  /\ ~inTx => work = rows
  /\ inTx => /\ work = rows \cup {batch[i] : i \in 1..Len(batch)}
             /\ \A i \in 1..Len(batch), r \in rows :
                   batch[i].table = r.table => batch[i].id # r.id

(* The batch is a beginning of the unit.                                    *)
BatchOfUnit ==
  /\ todo = <<>> => batch = <<>> /\ scopes = <<>>
  /\ todo # <<>> =>
       /\ Len(batch) <= Len(Unit.rows)
       /\ \A i \in 1..Len(batch) : /\ batch[i].table = Unit.rows[i].table
                                   /\ batch[i].type = Unit.rows[i].type
       /\ \A i \in 2..Len(batch) : batch[i].of = batch[1].id
       /\ (batch # <<>> /\ TxUnit(Unit)) => owner = batch[1].id
  /\ (batch # <<>> /\ ~failing) => scopes # <<>>

Consistent == TypeOK /\ InStep /\ Uncommitted /\ BatchOfUnit

-----------------------------------------------------------------------------
LEMMA UnitsOfCalls ==
  /\ <<Scope(<<Blank("account")>>)>> \in Seq(Units)
  /\ <<Scope(<<Blank("watchlist")>>)>> \in Seq(Units)
  /\ <<Single("position")>> \in Seq(Units)
  /\ AddStock \in Seq(Units) /\ AddOption \in Seq(Units)
<1>1. ASSUME NEW t \in LoneTables PROVE Scope(<<Blank(t)>>) \in Units /\ Single(t) \in Units
  <2>1. Blank(t) \in Template /\ Blank(t).table = t
    BY <1>1 DEF Blank, Template, Tables, Account
  <2>2. <<Blank(t)>> \in Seq(Template) /\ Len(<<Blank(t)>>) = 1 /\ <<Blank(t)>>[1] = Blank(t)
    BY <2>1
  <2> QED BY <1>1, <2>1, <2>2 DEF Scope, Single, Units, LoneUnit
<1>2. /\ Scope(<<Blank("account")>>) \in Units /\ Scope(<<Blank("watchlist")>>) \in Units
      /\ Single("position") \in Units /\ Single("instrument") \in Units
      /\ Single("stock") \in Units /\ Single("option_") \in Units
  BY <1>1 DEF LoneTables
<1>3. AddStock \in Seq(Units)
  BY <1>2 DEF AddStock
<1>4. AddOption \in Seq(Units)
  <2>1. <<Single("instrument"), Single("option_")>> \in Seq(Units)
    BY <1>2
  <2> QED BY <2>1, <1>3 DEF AddOption
<1> QED BY <1>2, <1>3, <1>4

LEMMA TxUnitOf ==
  ASSUME NEW rs \in Seq(Template), NEW t \in Types,
         Len(rs) = Len(Shape[t]), Len(rs) > 0,
         rs[1].table = "transaction_", rs[1].type = t,
         \A i \in 2..Len(rs) : rs[i].table = Shape[t][i] /\ rs[i].table \in Children,
         Shape[t][1] = "transaction_"
  PROVE  TxUnit(Scope(rs)) /\ Scope(rs) \in Units
<1>1. Scope(rs).rows = rs /\ Scope(rs).own = TRUE /\ Scope(rs) \in [own : BOOLEAN, rows : Seq(Template)]
  BY DEF Scope
<1> DEFINE u == Scope(rs)
<1> HIDE DEF u
<1>2. u.rows = rs /\ u.own = TRUE /\ u \in [own : BOOLEAN, rows : Seq(Template)]
  BY <1>1 DEF u
<1>3. \A i \in 1..Len(rs) : rs[i].table = Shape[t][i]
  <2>1. \A i \in 1..Len(rs) : i = 1 \/ i \in 2..Len(rs)
    BY Z3
  <2> QED BY <2>1
<1>4. TxUnit(u)
  BY <1>2, <1>3 DEF TxUnit
<1> QED BY <1>2, <1>4 DEF Units, u

LEMMA TemplatesOfTransactions ==
  ASSUME ConnectionAssumption
  PROVE  /\ \A n \in AccountIds : Entry(n) \in Template /\ Entry(n).table = "tx_entry"
         /\ \A s \in AccountIds, p \in PositionIds :
              Leg(s, p) \in Template /\ Leg(s, p).table = "trade_leg"
         /\ \A t \in Types : /\ TxHead(t) \in Template /\ TxHead(t).table = "transaction_"
                              /\ TxHead(t).type = t
         /\ Blank("transaction_option") \in Template
         /\ Blank("transaction_option").table = "transaction_option"
         /\ Types = {"Cash", "Stock", "Option"}
         /\ \A u \in Units : <<u>> \in Seq(Units)
<1>1. ASSUME NEW n \in AccountIds
      PROVE  Entry(n) \in Template /\ Entry(n).table = "tx_entry"
  BY ConnectionAssumption DEF ConnectionAssumption, Entry, Blank, Template, Tables, Children, Account
<1>2. ASSUME NEW s \in AccountIds, NEW p \in PositionIds
      PROVE  Leg(s, p) \in Template /\ Leg(s, p).table = "trade_leg"
  BY ConnectionAssumption DEF ConnectionAssumption, Leg, Blank, Template, Tables, Children, Account
<1>3. ASSUME NEW t \in Types
      PROVE  TxHead(t) \in Template /\ TxHead(t).table = "transaction_" /\ TxHead(t).type = t
  BY DEF TxHead, Blank, Template, Tables, Account
<1>4. Blank("transaction_option") \in Template
      /\ Blank("transaction_option").table = "transaction_option"
  BY DEF Blank, Template, Tables, Children, Account
<1>5. Types = {"Cash", "Stock", "Option"}
  BY DEF Types, Shape
<1>6. \A u \in Units : <<u>> \in Seq(Units)
  OBVIOUS
<1> QED BY <1>1, <1>2, <1>3, <1>4, <1>5, <1>6

LEMMA CashUnits ==
  ASSUME ConnectionAssumption, NEW a \in AccountIds, NEW x \in AccountIds
  PROVE  <<Scope(CashTransaction(a, x))>> \in Seq(Units)
<1>1. Types = {"Cash", "Stock", "Option"}
  BY TemplatesOfTransactions
<1>2. Scope(CashTransaction(a, x)) \in Units
  <2> DEFINE h == TxHead("Cash")  ea == Entry(a)  ex == Entry(x)
             rs == <<h, ea, ex, ea, ex>>
  <2>1a. /\ h \in Template /\ h.table = "transaction_" /\ h.type = "Cash"
         /\ ea \in Template /\ ea.table = "tx_entry"
         /\ ex \in Template /\ ex.table = "tx_entry"
    BY TemplatesOfTransactions
  <2> HIDE DEF h, ea, ex
  <2>1. rs \in Seq(Template) /\ Len(rs) = 5
    BY <2>1a
  <2>2. rs[1].table = "transaction_" /\ rs[1].type = "Cash"
    BY <2>1a
  <2>3. \A i \in 2..5 : rs[i].table = "tx_entry"
    BY <2>1a
  <2>4. Len(Shape["Cash"]) = 5 /\ Shape["Cash"][1] = "transaction_"
        /\ \A i \in 2..5 : Shape["Cash"][i] = "tx_entry"
    BY DEF Shape
  <2> HIDE DEF rs
  <2>5. \A i \in 2..Len(rs) : rs[i].table = Shape["Cash"][i] /\ rs[i].table \in Children
    BY <2>1, <2>3, <2>4 DEF Children
  <2>6. Len(rs) = Len(Shape["Cash"]) /\ Len(rs) > 0 /\ "Cash" \in Types
    BY <2>1, <2>4, <1>1
  <2>7. Scope(rs) \in Units
    BY <2>1, <2>2, <2>4, <2>5, <2>6, TxUnitOf
  <2> QED BY <2>7 DEF h, ea, ex, rs, CashTransaction
<1> QED BY <1>2, TemplatesOfTransactions

LEMMA UnitsOfTransactions ==
  ASSUME ConnectionAssumption, NEW a \in AccountIds, NEW x \in AccountIds,
         NEW s \in AccountIds, NEW p \in PositionIds
  PROVE  /\ <<Scope(StockTransaction(a, x, s, p))>> \in Seq(Units)
         /\ <<Scope(OptionTransaction(a, x, s, p))>> \in Seq(Units)
<1>1. Types = {"Cash", "Stock", "Option"}
  BY TemplatesOfTransactions
<1>2. Scope(StockTransaction(a, x, s, p)) \in Units
  <2> DEFINE h == TxHead("Stock")  ea == Entry(a)  ex == Entry(x)  leg == Leg(s, p)
             rs == <<h, ea, ea, ex, leg>>
  <2>1a. /\ h \in Template /\ h.table = "transaction_" /\ h.type = "Stock"
         /\ ea \in Template /\ ea.table = "tx_entry"
         /\ ex \in Template /\ ex.table = "tx_entry"
         /\ leg \in Template /\ leg.table = "trade_leg"
    BY TemplatesOfTransactions
  <2> HIDE DEF h, ea, ex, leg
  <2>1. rs \in Seq(Template) /\ Len(rs) = 5
    BY <2>1a
  <2>2. rs[1].table = "transaction_" /\ rs[1].type = "Stock"
    BY <2>1a
  <2>3. (\A i \in 2..4 : rs[i].table = "tx_entry") /\ rs[5].table = "trade_leg"
    BY <2>1a
  <2>4. Len(Shape["Stock"]) = 5 /\ Shape["Stock"][1] = "transaction_"
        /\ (\A i \in 2..4 : Shape["Stock"][i] = "tx_entry") /\ Shape["Stock"][5] = "trade_leg"
    BY DEF Shape
  <2> HIDE DEF rs
  <2>5. \A i \in 2..Len(rs) : rs[i].table = Shape["Stock"][i] /\ rs[i].table \in Children
    BY <2>1, <2>3, <2>4 DEF Children
  <2>6. Len(rs) = Len(Shape["Stock"]) /\ Len(rs) > 0 /\ "Stock" \in Types
    BY <2>1, <2>4, <1>1
  <2>7. Scope(rs) \in Units
    BY <2>1, <2>2, <2>4, <2>5, <2>6, TxUnitOf
  <2> QED BY <2>7 DEF h, ea, ex, leg, rs, StockTransaction
<1>3. Scope(OptionTransaction(a, x, s, p)) \in Units
  <2> DEFINE h == TxHead("Option")  ea == Entry(a)  ex == Entry(x)  leg == Leg(s, p)
             o == Blank("transaction_option")
             rs == <<h, ea, ex, ea, ex, leg, o>>
  <2>1a. /\ h \in Template /\ h.table = "transaction_" /\ h.type = "Option"
         /\ ea \in Template /\ ea.table = "tx_entry"
         /\ ex \in Template /\ ex.table = "tx_entry"
         /\ leg \in Template /\ leg.table = "trade_leg"
         /\ o \in Template /\ o.table = "transaction_option"
    BY TemplatesOfTransactions
  <2> HIDE DEF h, ea, ex, leg, o
  <2>1. rs \in Seq(Template) /\ Len(rs) = 7
    BY <2>1a
  <2>2. rs[1].table = "transaction_" /\ rs[1].type = "Option"
    BY <2>1a
  <2>3. (\A i \in 2..5 : rs[i].table = "tx_entry") /\ rs[6].table = "trade_leg"
        /\ rs[7].table = "transaction_option"
    BY <2>1a
  <2>4. Len(Shape["Option"]) = 7 /\ Shape["Option"][1] = "transaction_"
        /\ (\A i \in 2..5 : Shape["Option"][i] = "tx_entry")
        /\ Shape["Option"][6] = "trade_leg" /\ Shape["Option"][7] = "transaction_option"
    BY DEF Shape
  <2> HIDE DEF rs
  <2>5. \A i \in 2..Len(rs) : rs[i].table = Shape["Option"][i] /\ rs[i].table \in Children
    BY SMTT(30), <2>1, <2>3, <2>4 DEF Children
  <2>6. Len(rs) = Len(Shape["Option"]) /\ Len(rs) > 0 /\ "Option" \in Types
    BY <2>1, <2>4, <1>1
  <2>7. Scope(rs) \in Units
    BY <2>1, <2>2, <2>4, <2>5, <2>6, TxUnitOf
  <2> QED BY <2>7 DEF h, ea, ex, leg, o, rs, OptionTransaction
<1> QED BY <1>2, <1>3, TemplatesOfTransactions

-----------------------------------------------------------------------------
USE DEF conn, data, vars

LEMMA ScopeStacks ==
  /\ Len(<<>>) = 0 /\ Len(Own) = 1 /\ Len(Both) = 2
  /\ Own # <<>> /\ Both # <<>>
  /\ Tail(Own) = <<>> /\ Head(Own) = "active"
  /\ Tail(Both) = Own /\ Head(Both) = "inactive"
  /\ <<"active">> \o <<>> = Own /\ <<"inactive">> \o Own = Both
<1>1. Len(<<>>) = 0 /\ Len(Own) = 1 /\ Len(Both) = 2
  BY DEF Own, Both
<1>2. Own # <<>> /\ Both # <<>>
  BY DEF Own, Both
<1>3. Tail(Own) = <<>> /\ Head(Own) = "active"
  BY DEF Own
<1>4. Tail(Both) = Own
  <2>1. Tail(Both) \in Seq({"active", "inactive"}) /\ Len(Tail(Both)) = 1
    BY DEF Own, Both
  <2>2. Tail(Both)[1] = "active"
    BY DEF Own, Both
  <2>3. Own \in Seq({"active", "inactive"}) /\ Len(Own) = 1 /\ Own[1] = "active"
    BY DEF Own
  <2>4. \A a, b \in Seq({"active", "inactive"}) :
          Len(a) = 1 /\ Len(b) = 1 /\ a[1] = b[1] => a = b
    OBVIOUS
  <2> QED BY <2>1, <2>2, <2>3, <2>4
<1>5. Head(Both) = "inactive"
  BY DEF Own, Both
<1>6. <<"active">> \o <<>> = Own
  BY DEF Own
<1>7. <<"inactive">> \o Own = Both
  BY DEF Both
<1> QED BY <1>1, <1>2, <1>3, <1>4, <1>5, <1>6, <1>7

LEMMA InitConsistent == ConnectionAssumption /\ Init => Consistent
<1> SUFFICES ASSUME ConnectionAssumption, Init PROVE Consistent
  OBVIOUS
<1>1. TypeOK
  <2>1. <<>> \in Seq(Units) /\ <<>> \in Seq(Row)
    OBVIOUS
  <2>2. up = FALSE /\ failing = FALSE /\ started = FALSE /\ inTx = FALSE
        /\ rows = {} /\ work = {} /\ returned = {} /\ owner = None
        /\ todo = <<>> /\ batch = <<>> /\ scopes = <<>>
    BY DEF Init
  <2> QED BY <2>1, <2>2 DEF TypeOK, Account
<1>2. InStep
  BY DEF Init, InStep
<1>3. Uncommitted
  BY DEF Init, Uncommitted
<1>4. BatchOfUnit
  BY DEF Init, BatchOfUnit
<1> QED BY <1>1, <1>2, <1>3, <1>4 DEF Consistent

(* A call begins with no batch.                                             *)
LEMMA CallConsistent ==
  ASSUME Consistent, NEW us \in Seq(Units), Call(us)
  PROVE  Consistent'
<1>0. /\ todo = <<>> /\ todo' = us
      /\ UNCHANGED <<up, scopes, started, inTx, rows, work, last, batch, owner, failing, returned>>
  BY DEF Call, Idle
<1>1. TypeOK'
  BY <1>0 DEF Consistent, TypeOK
<1>2. InStep'
  BY <1>0 DEF Consistent, InStep
<1>3. Uncommitted'
  BY <1>0 DEF Consistent, Uncommitted
<1>4. batch' = <<>> /\ scopes' = <<>>
  BY <1>0 DEF Consistent, BatchOfUnit
<1>5. us # <<>> => us[1] \in Units
  OBVIOUS
<1>6. us # <<>> => Len(Head(us).rows) \in Nat
  BY <1>5 DEF Units
<1>7. BatchOfUnit'
  BY <1>0, <1>4, <1>6 DEF BatchOfUnit, Unit
<1> QED BY <1>1, <1>2, <1>3, <1>7 DEF Consistent

LEMMA UnitType ==
  ASSUME TypeOK, todo # <<>>
  PROVE  /\ Unit \in Units /\ Unit.own \in BOOLEAN /\ Unit.rows \in Seq(Template)
         /\ Len(Unit.rows) \in Nat /\ Len(Unit.rows) > 0
         /\ LoneUnit(Unit) \/ TxUnit(Unit)
         /\ Tail(todo) \in Seq(Units)
<1>1. Unit \in Units /\ Tail(todo) \in Seq(Units)
  BY DEF TypeOK, Unit
<1>2. Unit.own \in BOOLEAN /\ Unit.rows \in Seq(Template) /\ (LoneUnit(Unit) \/ TxUnit(Unit))
  BY <1>1 DEF Units
<1>3. Len(Shape["Cash"]) = 5 /\ Len(Shape["Stock"]) = 5 /\ Len(Shape["Option"]) = 7
  BY DEF Shape
<1>4. Types = {"Cash", "Stock", "Option"}
  BY DEF Types, Shape
<1>5. Len(Unit.rows) > 0
  BY <1>2, <1>3, <1>4 DEF LoneUnit, TxUnit
<1> QED BY <1>1, <1>2, <1>5

LEMMA OpenConsistent ==
  ASSUME Consistent, Open
  PROVE  Consistent'
<1>0. /\ todo # <<>> /\ ~failing /\ todo' = todo /\ rows' = rows /\ work' = work
      /\ up' = up /\ batch' = batch /\ owner' = owner /\ returned' = returned
      /\ Len(scopes) < Depth
  BY DEF Open
<1>1. inTx = (scopes # <<>>) /\ started = (scopes # <<>>)
  BY <1>0 DEF Consistent, InStep
<1>2. CASE failing' = TRUE /\ UNCHANGED <<scopes, started, inTx>>
  <2>1. TypeOK'
    BY <1>0, <1>2 DEF Consistent, TypeOK
  <2>2. InStep'
    BY <1>2 DEF InStep
  <2>3. Uncommitted'
    BY <1>0, <1>2 DEF Consistent, Uncommitted
  <2>4. BatchOfUnit'
    BY <1>0, <1>2 DEF Consistent, BatchOfUnit, Unit
  <2> QED BY <2>1, <2>2, <2>3, <2>4 DEF Consistent
<1>3. CASE /\ scopes' = <<IF Begins THEN "active" ELSE "inactive">> \o scopes /\ failing' = failing
           /\ started' = (started \/ Begins) /\ inTx' = (inTx \/ Begins)
  <2>1. scopes \in {<<>>, Own}
    <3>1. Depth <= 2
      BY DEF Depth
    <3>2. Len(scopes) < 2
      BY <1>0, <3>1, ScopeStacks DEF Consistent, TypeOK, Depth
    <3> QED BY <3>2, ScopeStacks DEF Consistent, TypeOK
  <2>2. /\ scopes = <<>> => scopes' = Own
        /\ scopes = Own => scopes' = Both
    <3>1. CASE scopes = <<>>
      <4>1. Begins
        BY <3>1, <1>1 DEF Begins
      <4> QED BY <4>1, <3>1, <1>3, ScopeStacks
    <3>2. CASE scopes = Own
      <4>1. ~Begins
        BY <3>2, <1>1, ScopeStacks DEF Begins
      <4> QED BY <4>1, <3>2, <1>3, ScopeStacks
    <3> QED BY <3>1, <3>2, <2>1
  <2>3. scopes' # <<>> /\ scopes' \in {<<>>, Own, Both}
    BY <2>1, <2>2, ScopeStacks
  <2>4. started' = TRUE /\ inTx' = TRUE
    BY <1>1, <1>3 DEF Begins
  <2>5. TypeOK'
    BY <1>0, <1>3, <2>3, <2>4 DEF Consistent, TypeOK
  <2>6. InStep'
    BY <2>3, <2>4 DEF InStep
  <2>7. Uncommitted'
    <3>1. CASE inTx
      BY <3>1, <1>0, <2>4 DEF Consistent, Uncommitted
    <3>2. CASE ~inTx
      <4>1. batch = <<>> /\ work = rows
        BY <3>2, <1>0, <1>1 DEF Consistent, Uncommitted, BatchOfUnit
      <4> QED BY <4>1, <1>0, <2>4 DEF Uncommitted
    <3> QED BY <3>1, <3>2
  <2>8. BatchOfUnit'
    BY <1>0, <2>3 DEF Consistent, BatchOfUnit, Unit
  <2> QED BY <2>5, <2>6, <2>7, <2>8 DEF Consistent
<1> QED BY <1>2, <1>3 DEF Open

LEMMA InsertConsistent ==
  ASSUME ConnectionAssumption, Consistent, Insert
  PROVE  Consistent' /\ UNCHANGED <<rows, last>>
<1> DEFINE r == Unit.rows[Len(batch) + 1]
           made(id) == [table |-> r.table, type |-> r.type, account |-> r.account,
                        position |-> r.position, id |-> id,
                        of |-> IF r.table \in Dependents THEN owner ELSE None]
<1>0. /\ todo # <<>> /\ ~failing /\ todo' = todo /\ up' = up /\ scopes' = scopes
      /\ started' = started /\ inTx' = inTx /\ failing' = failing /\ returned' = returned
      /\ Len(scopes) = Depth /\ Len(batch) < Len(Unit.rows)
  BY DEF Insert, MayInsert
<1>1. PICK id \in 1..MaxOf[r.table] :
        /\ IsNext(r.table, id)
        /\ work' = work \cup {made(id)} /\ batch' = Append(batch, made(id))
        /\ owner' = OwnerAfter(made(id))
        /\ rows' = IF inTx THEN rows ELSE work'
        /\ last' = IF inTx THEN last ELSE <<made(id)>>
  BY DEF Insert
<1> DEFINE row == made(id)
<1>2. TypeOK
  BY DEF Consistent
<1>3. /\ Unit \in Units /\ Unit.rows \in Seq(Template) /\ batch \in Seq(Row)
      /\ LoneUnit(Unit) \/ TxUnit(Unit)
  BY <1>0, <1>2, UnitType DEF TypeOK
<1>4. r \in Template
  BY <1>0, <1>3
<1>5. id \in Nat
  BY <1>1
<1>6. /\ row \in Row /\ row.table = r.table /\ row.type = r.type /\ row.id = id
      /\ row.table \in Children => row.of = owner
  BY <1>2, <1>4, <1>5 DEF Template, Row, TypeOK, Account, Dependents
<1>7. /\ work' = work \cup {row} /\ batch' = Append(batch, row)
      /\ owner' = IF row.table \in Children THEN owner ELSE row.id
  BY <1>1 DEF OwnerAfter
<1>8. scopes # <<>> /\ inTx
  <2>1. Len(scopes) > 0
    BY <1>0 DEF Depth
  <2>2. scopes # <<>>
    BY <2>1, ScopeStacks
  <2> QED BY <2>2, <1>0 DEF Consistent, InStep
<1>9. rows' = rows /\ last' = last
  BY <1>1, <1>8
<1>10. \A q \in work : q.table = row.table => q.id # row.id
  BY <1>1, <1>6 DEF IsNext, Named
<1> HIDE DEF r, row
<1>11. /\ Len(batch') = Len(batch) + 1 /\ batch'[Len(batch) + 1] = row
       /\ \A i \in 1..Len(batch) : batch'[i] = batch[i]
       /\ batch' \in Seq(Row) /\ Len(batch) \in Nat
  BY <1>3, <1>6, <1>7
<1>12. TypeOK'
  <2>1. owner' \in Account
    BY <1>2, <1>5, <1>6, <1>7 DEF TypeOK, Account
  <2>2. work' \subseteq Row
    BY <1>2, <1>6, <1>7 DEF TypeOK
  <2> QED BY <1>0, <1>2, <1>9, <1>11, <2>1, <2>2 DEF TypeOK
<1>13. InStep'
  BY <1>0 DEF Consistent, InStep
<1>14. Uncommitted'
  <2>1. work = rows \cup {batch[i] : i \in 1..Len(batch)}
    BY <1>8 DEF Consistent, Uncommitted
  <2>2. {batch'[i] : i \in 1..Len(batch')} = {batch[i] : i \in 1..Len(batch)} \cup {row}
    BY <1>11
  <2>3. work' = rows' \cup {batch'[i] : i \in 1..Len(batch')}
    BY <2>1, <2>2, <1>7, <1>9
  <2>4. ASSUME NEW i \in 1..Len(batch'), NEW q \in rows, batch'[i].table = q.table
        PROVE  batch'[i].id # q.id
    <3>1. CASE i \in 1..Len(batch)
      BY <3>1, <2>4, <1>8, <1>11 DEF Consistent, Uncommitted
    <3>2. CASE i = Len(batch) + 1
      BY <3>2, <2>1, <2>4, <1>10, <1>11
    <3> QED BY <3>1, <3>2, <1>11
  <2> QED BY <2>3, <2>4, <1>0, <1>8, <1>9 DEF Uncommitted
<1>15. BatchOfUnit'
  <2>1. Unit' = Unit /\ Len(Unit.rows) \in Nat
    BY <1>0, <1>3 DEF Unit
  <2>2. Len(batch') <= Len(Unit.rows)
    BY <1>0, <1>11, <2>1
  <2>3. r = Unit.rows[Len(batch) + 1]
    BY DEF r
  <2>4. \A i \in 1..Len(batch') : /\ batch'[i].table = Unit.rows[i].table
                                  /\ batch'[i].type = Unit.rows[i].type
    <3>1. ASSUME NEW i \in 1..Len(batch')
          PROVE  batch'[i].table = Unit.rows[i].table /\ batch'[i].type = Unit.rows[i].type
      <4>1. CASE i \in 1..Len(batch)
        BY <4>1, <1>0, <1>11 DEF Consistent, BatchOfUnit
      <4>2. CASE i = Len(batch) + 1
        BY <4>2, <1>6, <1>11, <2>3
      <4> QED BY <4>1, <4>2, <1>11
    <3> QED BY <3>1
  <2>5. CASE batch = <<>>
    <3>1. Len(batch') = 1 /\ batch'[1] = row
      BY <2>5, <1>11
    <3>2. TxUnit(Unit) => row.table = "transaction_"
      BY <1>6, <2>3, <2>5 DEF TxUnit
    <3>3. TxUnit(Unit) => owner' = batch'[1].id
      BY <1>7, <3>1, <3>2 DEF Children
    <3> QED BY <1>0, <1>8, <2>1, <2>2, <2>4, <3>1, <3>3 DEF BatchOfUnit
  <2>6. CASE batch # <<>>
    <3>1. Len(batch) > 0
      BY <2>6, <1>3
    <3>2. TxUnit(Unit)
      BY <3>1, <1>0, <1>3 DEF LoneUnit
    <3>3. row.table \in Children /\ owner = batch[1].id
      BY <3>1, <3>2, <1>0, <1>6, <1>11, <2>1, <2>3, <2>6 DEF TxUnit, Consistent, BatchOfUnit
    <3>4. row.of = owner /\ owner' = owner /\ batch'[1] = batch[1]
      BY <3>1, <3>3, <1>6, <1>7, <1>11
    <3>5. \A i \in 2..Len(batch) : batch[i].of = batch[1].id
      BY <1>0 DEF Consistent, BatchOfUnit
    <3>6. ASSUME NEW i \in 2..Len(batch') PROVE batch'[i].of = batch'[1].id
      <4>1. CASE i \in 2..Len(batch)
        BY <4>1, <1>11, <3>4, <3>5
      <4>2. CASE i = Len(batch) + 1
        BY <4>2, <1>11, <3>3, <3>4
      <4> QED BY <4>1, <4>2, <1>11
    <3> QED BY <1>0, <1>8, <2>1, <2>2, <2>4, <3>3, <3>4, <3>6 DEF BatchOfUnit
  <2> QED BY <2>5, <2>6
<1> QED BY <1>9, <1>12, <1>13, <1>14, <1>15 DEF Consistent

LEMMA InsertFailsConsistent ==
  ASSUME Consistent, InsertFails
  PROVE  Consistent'
<1>0. /\ todo # <<>> /\ todo' = todo /\ up' = up /\ scopes' = scopes /\ started' = started
      /\ rows' = rows /\ batch' = batch /\ owner' = owner /\ failing' = TRUE
      /\ returned' = returned
      /\ (inTx' = inTx /\ work' = work) \/ (inTx' = FALSE /\ work' = rows)
  BY DEF InsertFails, MayInsert
<1>1. TypeOK'
  BY <1>0 DEF Consistent, TypeOK
<1>2. InStep'
  BY <1>0 DEF InStep
<1>3. Uncommitted'
  BY <1>0 DEF Consistent, Uncommitted
<1>4. BatchOfUnit'
  BY <1>0 DEF Consistent, BatchOfUnit, Unit
<1> QED BY <1>1, <1>2, <1>3, <1>4 DEF Consistent

(* A batch that has come to its end is whole.                               *)
LEMMA EndedIsWhole ==
  ASSUME Consistent, todo # <<>>, batch # <<>>, Ended
  PROVE  Promise!IsLone(batch) \/ Promise!IsTransaction(batch)
<1>1. /\ LoneUnit(Unit) \/ TxUnit(Unit)
      /\ batch \in Seq(Row)
      /\ Len(batch) = Len(Unit.rows) /\ Len(batch) > 0
  BY UnitType DEF Consistent, TypeOK, Ended
<1>2. /\ \A i \in 1..Len(batch) : /\ batch[i].table = Unit.rows[i].table
                                  /\ batch[i].type = Unit.rows[i].type
      /\ \A i \in 2..Len(batch) : batch[i].of = batch[1].id
  BY DEF Consistent, BatchOfUnit
<1>3. 1 \in 1..Len(batch)
  BY <1>1
<1>4. CASE LoneUnit(Unit)
  BY <1>1, <1>2, <1>3, <1>4 DEF LoneUnit, Promise!IsLone
<1>5. CASE TxUnit(Unit)
  BY <1>1, <1>2, <1>3, <1>5 DEF TxUnit, Promise!IsTransaction, Types
<1> QED BY <1>1, <1>4, <1>5

LEMMA CloseConsistent ==
  ASSUME Consistent, Close
  PROVE  Consistent' /\ (Promise!Add \/ UNCHANGED <<rows, last>>)
<1>0. /\ todo # <<>> /\ ~failing /\ batch # <<>> /\ up' = up
      /\ Len(scopes) > Depth \/ Ended
  BY DEF Close
<1>1. TypeOK /\ scopes \in {<<>>, Own, Both} /\ Depth = 1 /\ scopes # <<>> /\ inTx /\ started
  BY <1>0 DEF Consistent, TypeOK, InStep, BatchOfUnit, Depth
<1>2. CASE failing' = TRUE /\ UNCHANGED <<conn, data, todo, batch, owner, returned>>
  <2>1. TypeOK'
    BY <1>0, <1>2 DEF Consistent, TypeOK
  <2>2. InStep'
    BY <1>2 DEF InStep
  <2>3. Uncommitted'
    BY <1>2 DEF Consistent, Uncommitted
  <2>4. BatchOfUnit'
    BY <1>0, <1>2 DEF Consistent, BatchOfUnit, Unit
  <2> QED BY <1>2, <2>1, <2>2, <2>3, <2>4 DEF Consistent
<1>3. CASE scopes = Both /\ ~(failing' = TRUE /\ UNCHANGED <<conn, data, todo, batch, owner, returned>>)
  <2>1. Tail(scopes) = Own /\ Head(scopes) = "inactive" /\ Len(scopes) = 2
    BY <1>3, ScopeStacks
  <2>2. /\ scopes' = Own /\ failing' = failing
        /\ UNCHANGED <<rows, work, last, started, inTx, todo, batch, owner, returned>>
    <3>1. ~(Head(scopes) = "active") /\ ~(Len(scopes) = 1)
      BY <2>1
    <3> QED BY <1>3, <2>1, <3>1, Zenon DEF Close
  <2>3. TypeOK'
    BY <1>0, <2>2 DEF Consistent, TypeOK
  <2>4. InStep'
    BY <1>1, <2>2, ScopeStacks DEF InStep
  <2>5. Uncommitted'
    BY <2>2 DEF Consistent, Uncommitted
  <2>6. BatchOfUnit'
    BY <1>0, <2>2, ScopeStacks DEF Consistent, BatchOfUnit, Unit
  <2> QED BY <2>2, <2>3, <2>4, <2>5, <2>6 DEF Consistent
<1>4. CASE scopes = Own /\ ~(failing' = TRUE /\ UNCHANGED <<conn, data, todo, batch, owner, returned>>)
  <2>1. Tail(scopes) = <<>> /\ Head(scopes) = "active" /\ Len(scopes) = 1
    BY <1>4, ScopeStacks
  <2>2. Ended
    BY <1>0, <1>1, <2>1
  <2>3. /\ scopes' = <<>> /\ failing' = failing
        /\ rows' = work /\ work' = rows'
        /\ last' = (IF rows' = rows THEN last ELSE batch)
        /\ started' = FALSE /\ inTx' = FALSE
        /\ todo' = Tail(todo) /\ batch' = <<>>
        /\ owner' = (IF Len(todo) = 1 THEN None ELSE owner)
        /\ returned' = returned \cup {batch[1]}
    BY <1>4, <2>1 DEF Close, Durable
  <2>4. /\ work = rows \cup {batch[i] : i \in 1..Len(batch)}
        /\ \A i \in 1..Len(batch), r \in rows :
             batch[i].table = r.table => batch[i].id # r.id
    BY <1>1 DEF Consistent, Uncommitted
  <2>5. 1 \in 1..Len(batch) /\ DOMAIN batch = 1..Len(batch)
    BY <1>0, <1>1 DEF TypeOK
  <2>6. batch[1] \in work /\ batch[1] \notin rows
    BY <2>4, <2>5
  <2>7. last' = batch
    BY <2>3, <2>6
  <2>8. Promise!Add
    <3>1. Promise!IsLone(last') \/ Promise!IsTransaction(last')
      BY <1>0, <2>2, <2>7, EndedIsWhole
    <3>2. Promise!IsNew(last')
      BY <2>4, <2>5, <2>7 DEF Promise!IsNew
    <3>3. rows' = rows \cup {last'[i] : i \in DOMAIN last'}
      BY <2>3, <2>4, <2>5, <2>7
    <3> QED BY <3>1, <3>2, <3>3 DEF Promise!Add
  <2>9. TypeOK'
    <3>1. todo' \in Seq(Units) /\ batch' \in Seq(Row)
      BY <1>0, <1>1, <2>3, UnitType
    <3>2. returned' \subseteq rows'
      BY <1>1, <2>3, <2>4, <2>6 DEF TypeOK
    <3>3. owner' \in Account
      BY <1>1, <2>3 DEF TypeOK, Account
    <3>4. rows' \subseteq Row /\ work' \subseteq Row
      BY <1>1, <2>3 DEF TypeOK
    <3> QED BY <1>0, <1>1, <2>3, <3>1, <3>2, <3>3, <3>4 DEF TypeOK
  <2>10. InStep'
    BY <2>3 DEF InStep
  <2>11. Uncommitted'
    BY <2>3 DEF Uncommitted
  <2>12. BatchOfUnit'
    <3>1. todo' # <<>> => Head(todo') \in Units
      BY <2>9 DEF TypeOK
    <3>2. todo' # <<>> => Len(Head(todo').rows) \in Nat
      BY <3>1 DEF Units
    <3> QED BY <2>3, <3>2 DEF BatchOfUnit, Unit
  <2> QED BY <2>8, <2>9, <2>10, <2>11, <2>12 DEF Consistent
<1> QED BY <1>1, <1>2, <1>3, <1>4

LEMMA UnwindConsistent ==
  ASSUME Consistent, Unwind
  PROVE  Consistent'
<1>0. /\ failing /\ failing' = failing /\ scopes # <<>> /\ scopes' = Tail(scopes)
      /\ up' = up /\ todo' = todo /\ rows' = rows /\ batch' = batch /\ owner' = owner
      /\ returned' = returned
      /\ \/ started' = FALSE /\ inTx' = FALSE /\ work' = rows
         \/ started' = started /\ inTx' = inTx /\ work' = work
  BY DEF Unwind
<1>1. scopes' \in {<<>>, Own, Both}
  BY <1>0, ScopeStacks DEF Consistent, TypeOK
<1>2. TypeOK'
  BY <1>0, <1>1 DEF Consistent, TypeOK
<1>3. InStep'
  BY <1>0 DEF InStep
<1>4. Uncommitted'
  BY <1>0 DEF Consistent, Uncommitted
<1>5. BatchOfUnit'
  BY <1>0 DEF Consistent, BatchOfUnit, Unit
<1> QED BY <1>2, <1>3, <1>4, <1>5 DEF Consistent

LEMMA DieConsistent ==
  ASSUME Consistent, Die
  PROVE  Consistent'
<1>0. /\ up' = FALSE /\ todo' = <<>> /\ batch' = <<>> /\ owner' = None /\ failing' = FALSE
      /\ scopes' = <<>> /\ started' = FALSE /\ inTx' = FALSE /\ work' = rows
      /\ rows' = rows /\ returned' = returned
  BY DEF Die
<1>1. TypeOK'
  <2>1. <<>> \in Seq(Units) /\ <<>> \in Seq(Row)
    OBVIOUS
  <2> QED BY <1>0, <2>1 DEF Consistent, TypeOK, Account
<1>2. InStep'
  BY <1>0 DEF InStep
<1>3. Uncommitted'
  BY <1>0 DEF Uncommitted
<1>4. BatchOfUnit'
  BY <1>0 DEF BatchOfUnit
<1> QED BY <1>1, <1>2, <1>3, <1>4 DEF Consistent

LEMMA StayConsistent ==
  ASSUME Consistent, up' \in BOOLEAN,
         UNCHANGED <<todo, conn, data, batch, owner, failing, returned>>
  PROVE  Consistent'
<1>1. TypeOK'
  BY DEF Consistent, TypeOK
<1>2. InStep'
  BY DEF Consistent, InStep
<1>3. Uncommitted'
  BY DEF Consistent, Uncommitted
<1>4. BatchOfUnit'
  BY DEF Consistent, BatchOfUnit, Unit
<1> QED BY <1>1, <1>2, <1>3, <1>4 DEF Consistent

(* Every call that Next makes asks for units.                               *)
LEMMA CallsAskForUnits ==
  ASSUME ConnectionAssumption,
         \/ CreateAccount \/ CreateWatchlist \/ CreatePosition
         \/ Call(AddStock) \/ Call(AddOption) \/ AddTransaction
  PROVE  \E us \in Seq(Units) : Call(us)
<1>1. CASE CreateAccount
  BY <1>1, UnitsOfCalls DEF CreateAccount
<1>2. CASE CreateWatchlist
  BY <1>2, UnitsOfCalls DEF CreateWatchlist
<1>3. CASE CreatePosition
  BY <1>3, UnitsOfCalls DEF CreatePosition
<1>4. CASE Call(AddStock)
  BY <1>4, UnitsOfCalls
<1>5. CASE Call(AddOption)
  BY <1>5, UnitsOfCalls
<1>6. CASE AddTransaction
  <2>1. PICK a \in CashAccounts, x \in Externals :
          \/ Call(<<Scope(CashTransaction(a, x))>>)
          \/ \E s \in Securities, p \in PositionIds :
               \/ Call(<<Scope(StockTransaction(a, x, s, p))>>)
               \/ Call(<<Scope(OptionTransaction(a, x, s, p))>>)
    BY <1>6 DEF AddTransaction, Saved
  <2>2. a \in AccountIds /\ x \in AccountIds /\ Securities \subseteq AccountIds
    BY DEF AccountIds
  <2>3. CASE Call(<<Scope(CashTransaction(a, x))>>)
    <3>1. CASE PositionIds = {}
      BY <2>2, <2>3, CashUnits
    <3> QED BY <2>2, <2>3, CashUnits
  <2>4. ASSUME NEW s \in Securities, NEW p \in PositionIds,
               \/ Call(<<Scope(StockTransaction(a, x, s, p))>>)
               \/ Call(<<Scope(OptionTransaction(a, x, s, p))>>)
        PROVE  \E us \in Seq(Units) : Call(us)
    <3>1. s \in AccountIds
      BY <2>2
    <3> QED BY <2>2, <2>4, <3>1, UnitsOfTransactions
  <2> QED BY <2>1, <2>3, <2>4
<1> QED BY <1>1, <1>2, <1>3, <1>4, <1>5, <1>6

LEMMA StepConsistent ==
  ASSUME ConnectionAssumption, Consistent, [Next]_vars
  PROVE  Consistent' /\ (Promise!Add \/ UNCHANGED <<rows, last>>)
<1>1. CASE \/ CreateAccount \/ CreateWatchlist \/ CreatePosition
           \/ Call(AddStock) \/ Call(AddOption) \/ AddTransaction
  <2>1. PICK us \in Seq(Units) : Call(us)
    BY <1>1, CallsAskForUnits
  <2>2. UNCHANGED <<rows, last>>
    BY <2>1 DEF Call
  <2> QED BY <2>1, <2>2, CallConsistent
<1>2. CASE Open
  <2>1. UNCHANGED <<rows, last>>
    BY <1>2 DEF Open
  <2> QED BY <1>2, <2>1, OpenConsistent
<1>3. CASE Insert
  BY <1>3, InsertConsistent
<1>4. CASE InsertFails
  <2>1. UNCHANGED <<rows, last>>
    BY <1>4 DEF InsertFails
  <2> QED BY <1>4, <2>1, InsertFailsConsistent
<1>5. CASE Close
  BY <1>5, CloseConsistent
<1>6. CASE Unwind
  <2>1. UNCHANGED <<rows, last>>
    BY <1>6 DEF Unwind
  <2> QED BY <1>6, <2>1, UnwindConsistent
<1>7. CASE Die
  <2>1. UNCHANGED <<rows, last>>
    BY <1>7 DEF Die
  <2> QED BY <1>7, <2>1, DieConsistent
<1>8. CASE Start
  <2>1. up' = TRUE /\ UNCHANGED <<todo, conn, data, batch, owner, failing, returned>>
    BY <1>8 DEF Start
  <2> QED BY <2>1, StayConsistent
<1>9. CASE UNCHANGED vars
  <2>1. up' = up /\ UNCHANGED <<todo, conn, data, batch, owner, failing, returned>>
    BY <1>9
  <2>2. up' \in BOOLEAN
    BY <2>1 DEF Consistent, TypeOK
  <2> QED BY <2>1, <2>2, StayConsistent
<1> QED BY <1>1, <1>2, <1>3, <1>4, <1>5, <1>6, <1>7, <1>8, <1>9 DEF Next

(* In every state of a run the flag _transactionStarted says whether the    *)
(* engine is in a transaction, unless an exception is under way, and what   *)
(* the connection sees beyond the file is the batch of the running unit.    *)
THEOREM ConnectionConsistent == Spec => []Consistent
<1>1. Init => Consistent
  BY ConnectionAssumption, InitConsistent
<1>2. Consistent /\ [Next]_vars => Consistent'
  <2> SUFFICES ASSUME Consistent, [Next]_vars PROVE Consistent'
    OBVIOUS
  <2> QED BY ConnectionAssumption, StepConsistent
<1> QED BY <1>1, <1>2, PTL DEF Spec

(* The rows of an id that a repository has returned are in the file.        *)
THEOREM ReturnedStays == Spec => []ReturnedIsDurable
<1>1. Consistent => ReturnedIsDurable
  BY DEF Consistent, TypeOK, ReturnedIsDurable
<1> QED BY <1>1, ConnectionConsistent, PTL

(* The connection implements the promise: at every commit a whole batch.    *)
THEOREM BatchesComeWhole == Spec => RowsComeWhole
<1>1. Init => Promise!Init
  BY DEF Init, Promise!Init
<1>2. Consistent /\ [Next]_vars => [Promise!Add]_<<rows, last>>
  <2> SUFFICES ASSUME Consistent, [Next]_vars
               PROVE  [Promise!Add]_<<rows, last>>
    OBVIOUS
  <2> QED BY ConnectionAssumption, StepConsistent
<1> QED BY <1>1, <1>2, ConnectionConsistent, PTL DEF Spec, RowsComeWhole, Promise!Spec
=============================================================================
