---------------------------- MODULE LedgerProofs ----------------------------
(* What is booked can be read back and shown, for any accounts, currencies, *)
(* tickers, contracts and numbers that the forms may be given, and for any  *)
(* number of bookings.                                                      *)
EXTENDS Ledger, FiniteSetTheorems, SequenceTheorems, TLAPS

-----------------------------------------------------------------------------
(* The drafts of the forms. *)

TradeDrafts == StockDrafts \cup OptionDrafts

LEMMA CashDraftShape ==
  ASSUME NEW d \in CashDrafts
  PROVE  /\ d = [kind |-> "cash", at |-> d.at, cash |-> d.cash, amount |-> d.amount,
                 fees |-> d.fees]
         /\ d.cash \in CashAccounts
BY DEF CashDrafts

(* A trade moves money of one currency, that of its accounts. *)
LEMMA TradeDraftShape ==
  ASSUME NEW d \in TradeDrafts
  PROVE  /\ d = [kind |-> d.kind, at |-> d.at, instrument |-> d.instrument,
                 qty |-> d.qty, security |-> d.security, cash |-> d.cash,
                 side |-> d.side, amount |-> d.amount, fees |-> d.fees]
         /\ (d.kind = "stock" /\ d.side = None) \/ d.kind = "option"
         /\ d.security \in SecurityAccounts /\ d.cash \in CashAccounts
         /\ d.amount.currency = CurrencyOf[d.security]
         /\ d.fees.currency = CurrencyOf[d.security]
<1>1. ASSUME NEW p \in Offered
      PROVE  /\ p[1] \in SecurityAccounts /\ p[2] \in CashAccounts
             /\ CurrencyOf[p[1]] = CurrencyOf[p[2]]
  BY DEF Offered
<1>2. CASE d \in StockDrafts
  <2>1. PICK at \in Moments, k \in Tickers, q \in Quantities, p \in Offered,
             n \in Amounts, f \in Fees :
          d = [kind |-> "stock", at |-> at, instrument |-> Stock(k), qty |-> q,
               security |-> p[1], cash |-> p[2], side |-> None,
               amount |-> Cash(CurrencyOf[p[2]], n),
               fees |-> Minus(Cash(CurrencyOf[p[2]], f))]
    BY <1>2 DEF StockDrafts
  <2> QED BY <1>1, <2>1 DEF Cash, Minus
<1>3. CASE d \in OptionDrafts
  <2>1. PICK at \in Moments, o \in Contracts, q \in Quantities, side \in Sides,
             p \in Offered, n \in Amounts, f \in Fees :
          d = [kind |-> "option", at |-> at, instrument |-> o, qty |-> q, side |-> side,
               security |-> p[1], cash |-> p[2],
               amount |-> Cash(CurrencyOf[p[2]], n),
               fees |-> Minus(Cash(CurrencyOf[p[2]], f))]
    BY <1>3 DEF OptionDrafts
  <2> QED BY <1>1, <2>1 DEF Cash, Minus
<1> QED BY <1>2, <1>3 DEF TradeDrafts

-----------------------------------------------------------------------------
(* The entries of a transaction, and the way back to its draft. *)

LEMMA FourEntries ==
  ASSUME NEW a, NEW b, NEW c, NEW e
  PROVE  LET s == <<a, b>> \o <<c, e>>
         IN  DOMAIN s = 1..4 /\ s[1] = a /\ s[2] = b /\ s[3] = c /\ s[4] = e
<1> DEFINE S == {a, b, c, e}
<1>1. <<a, b>> \in Seq(S) /\ <<c, e>> \in Seq(S)
  OBVIOUS
<1> QED BY <1>1

LEMMA ThreeEntries ==
  ASSUME NEW a, NEW b, NEW c
  PROVE  LET s == <<a>> \o <<b, c>>
         IN  DOMAIN s = 1..3 /\ s[1] = a /\ s[2] = b /\ s[3] = c
<1> DEFINE S == {a, b, c}
<1>1. <<a>> \in Seq(S) /\ <<b, c>> \in Seq(S)
  OBVIOUS
<1> QED BY <1>1

LEMMA PairOfPlaces ==
  ASSUME NEW m \in Nat, NEW n, n = m + 1
  PROVE  /\ FirstOf({m, n}) = m /\ SecondOf({m, n}) = n
         /\ Cardinality({m, n}) = 2
<1>1. FirstOf({n}) = n
  BY DEF FirstOf
<1>2. FirstOf({m, n}) = m
  <2>1. \A i \in {m, n} : (\A j \in {m, n} : i <= j) <=> i = m
    OBVIOUS
  <2> QED BY <2>1 DEF FirstOf
<1>3. {m, n} \ {m} = {n}
  OBVIOUS
<1>4. SecondOf({m, n}) = n
  BY <1>1, <1>2, <1>3 DEF SecondOf
<1>5. Cardinality({m}) = 1 /\ IsFiniteSet({m})
  BY FS_Singleton
<1>6. n \notin {m}
  OBVIOUS
<1>7. Cardinality({m} \cup {n}) = 2
  BY <1>5, <1>6, FS_AddElement, 1 + 1 = 2
<1>8. {m} \cup {n} = {m, n}
  OBVIOUS
<1> QED BY <1>2, <1>4, <1>7, <1>8

(* A transaction converts, and to what the form said. *)
LEMMA CashComesBack ==
  ASSUME NEW d \in CashDrafts, NEW id, NEW p
  PROVE  LET tx == ToDomain(d, id, p) IN Converts(tx) /\ Row(tx) = d
<1> DEFINE tx == ToDomain(d, id, p)
           e == tx.entries
<1>1. d.kind = "cash" /\ d.cash \in CashAccounts /\ d.cash # External
  BY CashDraftShape, AccountsAssumption
<1>2. /\ e = CashEntries(d) /\ tx.kind = "cash" /\ tx.at = d.at
  BY <1>1 DEF ToDomain
<1>3. /\ DOMAIN e = 1..4
      /\ e[1] = Entry(d.cash, d.amount, "General")
      /\ e[2] = Entry(External, Minus(d.amount), "General")
      /\ e[3] = Entry(d.cash, d.fees, "Fees")
      /\ e[4] = Entry(External, Minus(d.fees), "Fees")
  BY <1>2, FourEntries DEF CashEntries, Pair, FeePair
<1> HIDE DEF e
<1>4. General(tx) = {1, 2} /\ FeesOf(tx) = {3, 4}
  BY <1>3 DEF General, FeesOf, Entry, e
<1>5. /\ FirstOf({1, 2}) = 1 /\ SecondOf({1, 2}) = 2 /\ Cardinality({1, 2}) = 2
      /\ FirstOf({3, 4}) = 3 /\ SecondOf({3, 4}) = 4 /\ Cardinality({3, 4}) = 2
  BY PairOfPlaces
<1>6. Amount(tx) = e[1] /\ Amount(tx).account = d.cash /\ Amount(tx).cash = d.amount
  BY <1>3, <1>4, <1>5 DEF Amount, Entry, e
<1>7. Internal(tx) = d.cash
  BY <1>1, <1>6 DEF Internal
<1>8. FeesPaid(tx, d.cash) = d.fees
  <2>1. FeesOf(tx) # {} /\ FirstOf(FeesOf(tx)) = 3 /\ tx.entries = e
    BY <1>4, <1>5 DEF e
  <2>2. e[3].account = d.cash /\ e[3].cash = d.fees
    BY <1>3 DEF Entry
  <2> QED BY <2>1, <2>2 DEF FeesPaid
<1>9. EntriesFit(tx)
  BY <1>2, <1>4, <1>5 DEF EntriesFit
<1>10. CashFits(tx)
  <2>1. Has(tx.entries, {1, 2}, External) /\ Has(tx.entries, {3, 4}, d.cash)
        /\ Has(tx.entries, {3, 4}, External)
    BY <1>3 DEF Has, Entry, e
  <2> QED BY <1>1, <1>4, <1>7, <2>1 DEF CashFits
<1>11. Row(tx) = ToCash(tx)
  BY <1>2 DEF Row
<1> HIDE DEF tx
<1>12. ToCash(tx) = d
  BY <1>2, <1>6, <1>7, <1>8, CashDraftShape DEF ToCash
<1> QED BY <1>2, <1>9, <1>10, <1>11, <1>12 DEF Converts, tx

LEMMA TradeEntries ==
  ASSUME NEW d \in TradeDrafts, NEW id, NEW p
  PROVE  LET tx == ToDomain(d, id, p)
         IN  /\ EntriesFit(tx) /\ Amount(tx).account = d.cash
             /\ FeesOf(tx) # {} /\ Has(tx.entries, FeesOf(tx), d.cash)
             /\ FeesPaid(tx, d.cash) = d.fees
<1> DEFINE tx == ToDomain(d, id, p)
           e == tx.entries
<1>1. CASE d.kind = "option"
  <2>1. e = OptionEntries(d) /\ tx.kind = "option"
    BY <1>1 DEF ToDomain
  <2>2. /\ DOMAIN e = 1..4
        /\ e[1] = Entry(d.cash, d.amount, "General")
        /\ e[2] = Entry(External, Minus(d.amount), "General")
        /\ e[3] = Entry(d.cash, d.fees, "Fees")
        /\ e[4] = Entry(External, Minus(d.fees), "Fees")
    BY <2>1, FourEntries DEF OptionEntries, Pair, FeePair
  <2> HIDE DEF e
  <2>3. General(tx) = {1, 2} /\ FeesOf(tx) = {3, 4}
    BY <2>2 DEF General, FeesOf, Entry, e
  <2>4. /\ FirstOf({1, 2}) = 1 /\ Cardinality({1, 2}) = 2
        /\ FirstOf({3, 4}) = 3 /\ Cardinality({3, 4}) = 2
    BY PairOfPlaces
  <2>5. EntriesFit(tx)
    BY <2>1, <2>3, <2>4 DEF EntriesFit
  <2>6. Amount(tx).account = d.cash
    BY <2>2, <2>3, <2>4 DEF Amount, Entry, e
  <2>7. FeesPaid(tx, d.cash) = d.fees
    <3>1. FeesOf(tx) # {} /\ FirstOf(FeesOf(tx)) = 3 /\ tx.entries = e
      BY <2>3, <2>4 DEF e
    <3>2. e[3].account = d.cash /\ e[3].cash = d.fees
      BY <2>2 DEF Entry
    <3> QED BY <3>1, <3>2 DEF FeesPaid
  <2>8. Has(tx.entries, {3, 4}, d.cash)
    BY <2>2 DEF Has, Entry, e
  <2> QED BY <2>3, <2>5, <2>6, <2>7, <2>8
<1>2. CASE d.kind = "stock"
  <2> DEFINE cost == [d.amount EXCEPT !.amount = Times(@, d.qty)]
  <2>1. e = StockEntries(d) /\ tx.kind = "stock"
    BY <1>2 DEF ToDomain
  <2>2. /\ DOMAIN e = 1..3
        /\ e[1] = Entry(d.cash, Minus(cost), "General")
        /\ e[2] = Entry(d.cash, d.fees, "Fees")
        /\ e[3] = Entry(External, Minus(d.fees), "Fees")
    BY <2>1, ThreeEntries DEF StockEntries, Pair, FeePair
  <2> HIDE DEF e, cost
  <2>3. General(tx) = {1} /\ FeesOf(tx) = {2, 3}
    BY <2>2 DEF General, FeesOf, Entry, e
  <2>4. /\ FirstOf({1}) = 1 /\ Cardinality({1}) = 1
        /\ FirstOf({2, 3}) = 2 /\ Cardinality({2, 3}) = 2
    <3>1. FirstOf({1}) = 1
      BY DEF FirstOf
    <3>2. Cardinality({1}) = 1
      BY FS_Singleton
    <3> QED BY <3>1, <3>2, PairOfPlaces
  <2>5. EntriesFit(tx)
    BY <2>1, <2>3, <2>4 DEF EntriesFit
  <2>6. Amount(tx).account = d.cash
    BY <2>2, <2>3, <2>4 DEF Amount, Entry, e
  <2>7. FeesPaid(tx, d.cash) = d.fees
    <3>1. FeesOf(tx) # {} /\ FirstOf(FeesOf(tx)) = 2 /\ tx.entries = e
      BY <2>3, <2>4 DEF e
    <3>2. e[2].account = d.cash /\ e[2].cash = d.fees
      BY <2>2 DEF Entry
    <3> QED BY <3>1, <3>2 DEF FeesPaid
  <2>8. Has(tx.entries, {2, 3}, d.cash)
    BY <2>2 DEF Has, Entry, e
  <2> QED BY <2>3, <2>5, <2>6, <2>7, <2>8
<1> QED BY <1>1, <1>2, TradeDraftShape

LEMMA TradeComesBack ==
  ASSUME NEW d \in TradeDrafts, NEW id, NEW p
  PROVE  LET tx == ToDomain(d, id, p) IN Converts(tx) /\ Row(tx) = d
<1> DEFINE tx == ToDomain(d, id, p)
<1>1. /\ tx.legs = <<Leg(d, p)>> /\ tx.kind = d.kind /\ tx.at = d.at
      /\ tx.side = IF d.kind = "option" THEN d.side ELSE None
  BY TradeDraftShape DEF ToDomain
<1>2. /\ EntriesFit(tx) /\ Amount(tx).account = d.cash
      /\ FeesOf(tx) # {} /\ Has(tx.entries, FeesOf(tx), d.cash)
      /\ FeesPaid(tx, d.cash) = d.fees
  BY TradeEntries
<1> HIDE DEF tx
<1>3. Converts(tx)
  <2>1. Len(tx.legs) = 1 /\ tx.kind # "cash"
    BY <1>1, TradeDraftShape
  <2> QED BY <1>2, <2>1 DEF Converts, TradeFits
<1>4. \A kind, side :
        ToTrade(tx, kind, side)
          = [kind |-> kind, at |-> d.at, instrument |-> d.instrument,
             qty |-> d.qty, security |-> d.security, cash |-> d.cash,
             side |-> side, amount |-> d.amount, fees |-> d.fees]
  BY <1>1, <1>2 DEF ToTrade, Leg
<1>5. Row(tx) = ToTrade(tx, d.kind, d.side)
  BY <1>1, TradeDraftShape DEF Row, ToStock, ToOption
<1>6. Row(tx) = d
  BY <1>4, <1>5, TradeDraftShape
<1> QED BY <1>3, <1>6 DEF tx
-----------------------------------------------------------------------------
(* The invariant. The transactions of the file are the first that were      *)
(* booked; those of the store are the last, and the first of these may be   *)
(* in the file as well. Each is what its draft was translated to.           *)

Bookings == [draft : CashDrafts \cup TradeDrafts, position : Nat]

(* What a booking is in the store or in the file. *)
Written(b, id) == ToDomain(b.draft, id, b.position)

AllWritten == {Written(b, id) : b \in Bookings, id \in Int}

(* The bookings of earlier processes, which the store does not have. *)
Earlier == Len(booked) - Len(cache)

(* The id of a booking: its place, below zero until it is saved. *)
IdOf(i) == IF i <= Len(db) THEN i ELSE -i

LedgerTypeOK ==
  booked \in Seq(Bookings) /\ cache \in Seq(AllWritten) /\ db \in Seq(AllWritten)

InTurn ==
  /\ Earlier \in 0..Len(db) /\ Len(db) <= Len(booked)
  /\ \A i \in DOMAIN db : db[i] = Written(booked[i], i)
  /\ \A j \in DOMAIN cache :
       cache[j] = Written(booked[Earlier + j], IdOf(Earlier + j))

(* Of one kind, one instrument and one security account. *)
Alike(d, e) ==
  d.kind = e.kind /\ d.instrument = e.instrument /\ d.security = e.security

(* No position is older than its first booking, and all that joined it are
   alike. *)
Joined ==
  /\ \A i \in DOMAIN booked :
       /\ booked[i].position \in 0..i
       /\ booked[i].position = 0 <=> booked[i].draft.kind = "cash"
  /\ \A i, j \in DOMAIN booked :
       booked[i].position = booked[j].position /\ booked[i].position # 0 =>
         Alike(booked[i].draft, booked[j].draft)

LedgerInv == LedgerTypeOK /\ InTurn /\ Joined

-----------------------------------------------------------------------------
(* Bookings, as they are written and read. *)

(* A booking converts, to its draft, and its leg is that of the draft. *)
LEMMA BookingComesBack ==
  ASSUME NEW b \in Bookings, NEW id
  PROVE  /\ Converts(Written(b, id)) /\ Row(Written(b, id)) = b.draft
         /\ Written(b, id).kind = b.draft.kind /\ Written(b, id).id = id
<1>1. b.draft \in CashDrafts \/ b.draft \in TradeDrafts
  BY DEF Bookings
<1>2. Written(b, id).kind = b.draft.kind /\ Written(b, id).id = id
  BY DEF Written, ToDomain
<1> QED BY <1>1, <1>2, CashComesBack, TradeComesBack DEF Written

(* A row holds all of a transaction but its id. *)
LEMMA OnlyTheIdChanges ==
  ASSUME NEW b \in Bookings, NEW id, NEW new
  PROVE  RowsOf(Written(b, id), new) = Written(b, new)
<1> DEFINE d == b.draft
           tx == ToDomain(d, id, b.position)
<1>0. d.kind = "cash" \/ d.kind = "stock" \/ d.kind = "option"
  BY CashDraftShape, TradeDraftShape DEF Bookings
<1>1. tx = [id |-> id, at |-> tx.at, kind |-> tx.kind, entries |-> tx.entries,
            legs |-> tx.legs, side |-> tx.side]
  BY <1>0 DEF ToDomain
<1>2. ToDomain(d, new, b.position)
        = [id |-> new, at |-> tx.at, kind |-> tx.kind, entries |-> tx.entries,
           legs |-> tx.legs, side |-> tx.side]
  <2>1. CASE d.kind = "cash"
    BY <2>1 DEF ToDomain
  <2>2. CASE d.kind = "stock"
    BY <2>2 DEF ToDomain
  <2>3. CASE d.kind = "option"
    BY <2>3 DEF ToDomain
  <2> QED BY <1>0, <2>1, <2>2, <2>3
<1> HIDE DEF tx, d
<1>3. [tx EXCEPT !.id = new]
        = [id |-> new, at |-> tx.at, kind |-> tx.kind, entries |-> tx.entries,
           legs |-> tx.legs, side |-> tx.side]
  BY <1>1
<1> QED BY <1>2, <1>3 DEF RowsOf, Written, tx, d

(* A transaction that is found in a position, for a security account, was
   booked to that position as a trade of that account. *)
LEMMA MemberWasBooked ==
  ASSUME NEW b \in Bookings, NEW id, NEW account \in SecurityAccounts, NEW p,
         Involves(Written(b, id), account), InPosition(Written(b, id), p)
  PROVE  b.position = p /\ b.draft \in TradeDrafts /\ b.draft.security = account
<1> DEFINE d == b.draft
           tx == Written(b, id)
<1>1. tx = ToDomain(d, id, b.position)
  BY DEF Written
<1>2. d.kind # "cash"
  BY <1>1 DEF InPosition, ToDomain
<1>3. d \in TradeDrafts
  BY <1>2, CashDraftShape DEF Bookings
<1>4. /\ tx.legs = <<Leg(d, b.position)>>
      /\ tx.entries = OptionEntries(d) \/ tx.entries = StockEntries(d)
  BY <1>1, <1>3, TradeDraftShape DEF ToDomain
<1>5. b.position = p
  BY <1>4 DEF InPosition, Leg
<1>6. \A i \in DOMAIN tx.entries : tx.entries[i].account \in {d.cash, External}
  <2>1. CASE tx.entries = OptionEntries(d)
    BY <2>1, FourEntries DEF OptionEntries, Pair, FeePair, Entry
  <2>2. CASE tx.entries = StockEntries(d)
    BY <2>2, ThreeEntries DEF StockEntries, Pair, FeePair, Entry
  <2> QED BY <1>4, <2>1, <2>2
<1>7. account # d.cash /\ account # External
  BY <1>3, TradeDraftShape, AccountsAssumption
<1>8. d.security = account
  BY <1>4, <1>6, <1>7 DEF Involves, Has, Leg
<1> QED BY <1>3, <1>5, <1>8

-----------------------------------------------------------------------------
(* What is known and what is pending, in a state of the invariant. *)

LEMMA Lengths ==
  ASSUME LedgerTypeOK, InTurn
  PROVE  /\ Len(booked) \in Nat /\ Len(cache) \in Nat /\ Len(db) \in Nat
         /\ DOMAIN booked = 1..Len(booked) /\ DOMAIN cache = 1..Len(cache)
         /\ DOMAIN db = 1..Len(db)
         /\ Earlier \in Nat /\ Earlier <= Len(db) /\ Len(db) <= Len(booked)
         /\ Len(booked) = Earlier + Len(cache)
         /\ \A i \in 1..Len(booked) : booked[i] \in Bookings
<1>1. /\ booked \in Seq(Bookings) /\ cache \in Seq(AllWritten)
      /\ db \in Seq(AllWritten)
  BY DEF LedgerTypeOK
<1> HIDE DEF Bookings, AllWritten
<1>2. /\ Len(booked) \in Nat /\ Len(cache) \in Nat /\ Len(db) \in Nat
      /\ DOMAIN booked = 1..Len(booked) /\ DOMAIN cache = 1..Len(cache)
      /\ DOMAIN db = 1..Len(db)
      /\ \A i \in 1..Len(booked) : booked[i] \in Bookings
  BY <1>1
<1> QED BY <1>2 DEF InTurn, Earlier

LEMMA StoreIds ==
  ASSUME LedgerTypeOK, InTurn, NEW j \in 1..Len(cache)
  PROVE  /\ Earlier + j \in 1..Len(booked)
         /\ cache[j] = Written(booked[Earlier + j], IdOf(Earlier + j))
         /\ cache[j].id = IdOf(Earlier + j)
<1>1. Earlier + j \in 1..Len(booked)
  BY Lengths
<1>2. cache[j] = Written(booked[Earlier + j], IdOf(Earlier + j))
  BY Lengths DEF InTurn
<1>3. booked[Earlier + j] \in Bookings
  BY <1>1, Lengths
<1> QED BY <1>1, <1>2, <1>3, BookingComesBack

LEMMA FileIds ==
  ASSUME LedgerTypeOK, InTurn, NEW i \in 1..Len(db)
  PROVE  i \in 1..Len(booked) /\ db[i] = Written(booked[i], i) /\ db[i].id = i
<1>1. i \in 1..Len(booked)
  BY Lengths
<1>2. db[i] = Written(booked[i], i)
  BY Lengths DEF InTurn
<1>3. booked[i] \in Bookings
  BY <1>1, Lengths
<1> QED BY <1>1, <1>2, <1>3, BookingComesBack

(* The store has every booking but the earlier ones. *)
LEMMA KnownPlaces ==
  ASSUME LedgerTypeOK, InTurn
  PROVE  Known = ({"store"} \X (1..Len(cache))) \cup ({"file"} \X (1..Earlier))
<1>1. ASSUME NEW i \in 1..Len(db), i <= Earlier
      PROVE  i \notin Ids(cache)
  <2>1. ASSUME NEW j \in 1..Len(cache) PROVE cache[j].id # i
    BY <1>1, <2>1, StoreIds, Lengths DEF IdOf
  <2> QED BY <2>1, Lengths DEF Ids, Range
<1>2. ASSUME NEW i \in 1..Len(db), i > Earlier
      PROVE  i \in Ids(cache)
  <2>1. i - Earlier \in 1..Len(cache) /\ Earlier + (i - Earlier) = i
    BY <1>2, Lengths
  <2>2. cache[i - Earlier].id = i
    BY <2>1, StoreIds, Lengths DEF IdOf
  <2> QED BY <2>1, <2>2, Lengths DEF Ids, Range
<1>3. {i \in DOMAIN db : db[i].id \notin Ids(cache)} = 1..Earlier
  <2>1. \A i \in DOMAIN db : db[i].id = i
    BY FileIds, Lengths
  <2>2. \A i \in DOMAIN db : i \notin Ids(cache) <=> i <= Earlier
    BY <1>1, <1>2, Lengths
  <2> QED BY <2>1, <2>2, Lengths
<1> QED BY <1>3, Lengths DEF Known

(* What is pending are the last bookings, in turn. *)
LEMMA PendingPlaces ==
  ASSUME LedgerTypeOK, InTurn
  PROVE  LET saved == Len(db) - Earlier
         IN  /\ saved \in 0..Len(cache)
             /\ Pending = (saved + 1)..Len(cache)
             /\ Cardinality(Pending) = Len(booked) - Len(db)
             /\ \A j \in Pending : Turn(j) = j - saved
             /\ \A n \in 1..(Len(booked) - Len(db)) : Inserted(n) = saved + n
<1> DEFINE saved == Len(db) - Earlier
<1>1. saved \in 0..Len(cache)
  BY Lengths
<1>2. Pending = (saved + 1)..Len(cache)
  <2>1. \A j \in 1..Len(cache) : cache[j].id < 0 <=> j >= saved + 1
    <3> SUFFICES ASSUME NEW j \in 1..Len(cache)
                 PROVE  cache[j].id < 0 <=> j >= saved + 1
      OBVIOUS
    <3>1. cache[j].id = IdOf(Earlier + j)
      BY StoreIds
    <3> QED BY <3>1, Lengths DEF IdOf
  <2> QED BY <1>1, <2>1, Lengths DEF Pending
<1> HIDE DEF saved
<1>3. Cardinality(Pending) = Len(cache) - saved
  <2>1. saved + 1 \in Int /\ Len(cache) \in Int
    BY <1>1, Lengths
  <2>2. Cardinality((saved + 1)..Len(cache))
          = IF saved + 1 > Len(cache) THEN 0 ELSE Len(cache) - (saved + 1) + 1
    BY <2>1, FS_Interval
  <2> QED BY <1>1, <1>2, <2>1, <2>2
<1>4. ASSUME NEW j \in Pending PROVE Turn(j) = j - saved
  <2>1. {k \in Pending : k <= j} = (saved + 1)..j
    BY <1>1, <1>2, Lengths
  <2>2. Cardinality((saved + 1)..j) = j - saved
    BY <1>1, <1>2, FS_Interval, Lengths
  <2> QED BY <2>1, <2>2 DEF Turn
<1>5. ASSUME NEW n \in 1..(Len(cache) - saved) PROVE Inserted(n) = saved + n
  <2>1. saved + n \in Pending
    BY <1>1, <1>2, Lengths
  <2>2. \A j \in Pending : Turn(j) = n <=> j = saved + n
    BY <1>1, <1>2, <1>4, Lengths
  <2> QED BY <2>1, <2>2 DEF Inserted
<1>6. Len(cache) - saved = Len(booked) - Len(db)
  BY Lengths DEF saved
<1> QED BY <1>1, <1>2, <1>3, <1>4, <1>5, <1>6 DEF saved

(* A save writes them where they were booked. *)
LEMMA RowsInTurn ==
  ASSUME LedgerTypeOK, InTurn, NEW n \in 0..Cardinality(Pending)
  PROVE  /\ Rows(n) \in Seq(AllWritten) /\ Len(Rows(n)) = n
         /\ db \o Rows(n) \in Seq(AllWritten)
         /\ Len(db \o Rows(n)) = Len(db) + n
         /\ Len(db) + n <= Len(booked)
         /\ \A i \in 1..(Len(db) + n) : (db \o Rows(n))[i] = Written(booked[i], i)
<1> DEFINE saved == Len(db) - Earlier
<1>1. n \in Nat /\ n <= Len(booked) - Len(db)
  BY PendingPlaces, Lengths
<1>2. ASSUME NEW k \in 1..n
      PROVE  /\ Len(db) + k \in 1..Len(booked)
             /\ Rows(n)[k] = Written(booked[Len(db) + k], Len(db) + k)
  <2>1. Inserted(k) = saved + k /\ saved + k \in 1..Len(cache)
        /\ Earlier + (saved + k) = Len(db) + k
    BY SMTT(30), <1>1, PendingPlaces, Lengths
  <2>2. Len(db) + k \in 1..Len(booked)
    BY <1>1, Lengths
  <2>3. cache[saved + k] = Written(booked[Len(db) + k], IdOf(Len(db) + k))
    BY <2>1, StoreIds
  <2>4. booked[Len(db) + k] \in Bookings
    BY <2>2, Lengths
  <2>5. Rows(n)[k] = RowsOf(cache[saved + k], Len(db) + k)
    BY <2>1 DEF Rows
  <2> QED BY <2>2, <2>3, <2>4, <2>5, OnlyTheIdChanges
<1>3. ASSUME NEW k \in 1..n PROVE Rows(n)[k] \in AllWritten
  <2>1. booked[Len(db) + k] \in Bookings /\ Len(db) + k \in Int
    BY <1>2, Lengths
  <2> QED BY <1>2, <2>1 DEF AllWritten
<1>4. Rows(n) \in Seq(AllWritten) /\ Len(Rows(n)) = n
  <2>1. Rows(n) = [k \in 1..n |-> Rows(n)[k]]
    BY DEF Rows
  <2>2. Rows(n) \in [1..n -> AllWritten]
    BY <1>3, <2>1
  <2> QED BY <1>1, <2>2
<1>5. db \in Seq(AllWritten)
  BY DEF LedgerTypeOK
<1>6. /\ db \o Rows(n) \in Seq(AllWritten)
      /\ Len(db \o Rows(n)) = Len(db) + n
      /\ \A i \in 1..(Len(db) + n) :
           (db \o Rows(n))[i] = IF i <= Len(db) THEN db[i] ELSE Rows(n)[i - Len(db)]
  BY <1>4, <1>5, ConcatProperties
<1>7. ASSUME NEW i \in 1..(Len(db) + n)
      PROVE  (db \o Rows(n))[i] = Written(booked[i], i)
  <2>1. CASE i <= Len(db)
    BY <1>6, <2>1, FileIds, Lengths
  <2>2. CASE i > Len(db)
    <3>1. i - Len(db) \in 1..n /\ Len(db) + (i - Len(db)) = i
      BY <1>1, <2>2, Lengths
    <3>2. (db \o Rows(n))[i] = Rows(n)[i - Len(db)]
      BY <1>6, <2>2, Lengths
    <3>3. Rows(n)[i - Len(db)]
            = Written(booked[Len(db) + (i - Len(db))], Len(db) + (i - Len(db)))
      BY <1>2, <3>1
    <3> QED BY <3>1, <3>2, <3>3
  <2>3. i <= Len(db) \/ i > Len(db)
    BY <1>1, Lengths
  <2> QED BY <2>1, <2>2, <2>3
<1> QED BY <1>1, <1>4, <1>6, <1>7, Lengths

-----------------------------------------------------------------------------
(* What is known was booked, and a position is offered for what it holds. *)

LEMMA KnownWasBooked ==
  ASSUME LedgerTypeOK, InTurn, NEW tx \in Transactions
  PROVE  \E i \in 1..Len(booked), id \in Int : tx = Written(booked[i], id)
<1>1. PICK place \in Known : tx = At(place)
  BY DEF Transactions
<1>2. CASE place \in {"store"} \X (1..Len(cache))
  <2>1. PICK j \in 1..Len(cache) : place = <<"store", j>>
    BY <1>2
  <2>2. tx = cache[j]
    BY <1>1, <2>1 DEF At
  <2>3. Earlier + j \in 1..Len(booked)
        /\ cache[j] = Written(booked[Earlier + j], IdOf(Earlier + j))
    BY StoreIds
  <2>4. IdOf(Earlier + j) \in Int
    BY <2>3, Lengths DEF IdOf
  <2> QED BY <2>2, <2>3, <2>4
<1>3. CASE place \in {"file"} \X (1..Earlier)
  <2>1. PICK i \in 1..Earlier : place = <<"file", i>>
    BY <1>3
  <2>2. tx = db[i] /\ i \in 1..Len(db)
    BY <1>1, <2>1, Lengths DEF At
  <2> QED BY <2>2, FileIds
<1> QED BY <1>2, <1>3, KnownPlaces

(* Each transaction of a position, in a table of the account, stands for a
   trade that was booked to the position, in that account. *)
LEMMA MembersWereBooked ==
  ASSUME LedgerTypeOK, InTurn, NEW account \in SecurityAccounts, NEW p,
         NEW tx \in Members(account, p)
  PROVE  \E i \in 1..Len(booked) :
           /\ booked[i].position = p /\ booked[i].draft \in TradeDrafts
           /\ booked[i].draft.security = account
           /\ tx.kind = booked[i].draft.kind /\ Row(tx) = booked[i].draft
<1>1. tx \in Transactions /\ Involves(tx, account) /\ InPosition(tx, p)
  BY DEF Members, TradesOf
<1>2. PICK i \in 1..Len(booked), id \in Int : tx = Written(booked[i], id)
  BY <1>1, KnownWasBooked
<1>3. booked[i] \in Bookings
  BY Lengths
<1>4. booked[i].position = p /\ booked[i].draft \in TradeDrafts
      /\ booked[i].draft.security = account
  BY <1>1, <1>2, <1>3, MemberWasBooked
<1>5. tx.kind = booked[i].draft.kind /\ Row(tx) = booked[i].draft
  BY <1>2, <1>3, BookingComesBack
<1> QED BY <1>4, <1>5

LEMMA StockInstrument ==
  ASSUME NEW d \in TradeDrafts, d.kind = "stock"
  PROVE  d.instrument = Stock(d.instrument.ticker)
<1>1. d \in StockDrafts
  BY DEF TradeDrafts, OptionDrafts
<1>2. \E k \in Tickers : d.instrument = Stock(k)
  BY <1>1 DEF StockDrafts
<1> QED BY <1>2 DEF Stock

(* A position that is offered to a trade of a ticker in an account holds
   nothing but stock of that ticker, in that account. *)
LEMMA OfferedPosition ==
  ASSUME LedgerInv, NEW account \in SecurityAccounts, NEW ticker \in Tickers,
         NEW p \in Matching(account, ticker)
  PROVE  /\ p \in 1..Len(booked)
         /\ \A i \in 1..Len(booked) :
              booked[i].position = p =>
                /\ booked[i].draft.kind = "stock"
                /\ booked[i].draft.instrument = Stock(ticker)
                /\ booked[i].draft.security = account
<1>1. /\ p \in 1..MaxBookings /\ Members(account, p) # {}
      /\ ~ContainsOptions(Members(account, p))
      /\ \A tx \in Members(account, p) : Row(tx).instrument.ticker = ticker
  BY DEF Matching, StockPositions, Positions
<1>2. PICK tx \in Members(account, p) : TRUE
  BY <1>1
<1>3. LedgerTypeOK /\ InTurn /\ Joined
  BY DEF LedgerInv
<1>4. PICK i \in 1..Len(booked) :
        /\ booked[i].position = p /\ booked[i].draft \in TradeDrafts
        /\ booked[i].draft.security = account
        /\ tx.kind = booked[i].draft.kind /\ Row(tx) = booked[i].draft
  BY <1>3, MembersWereBooked
<1>5. booked[i].draft.kind = "stock"
  BY <1>1, <1>4, TradeDraftShape DEF ContainsOptions
<1>6. booked[i].draft.instrument = Stock(ticker)
  BY <1>1, <1>4, <1>5, StockInstrument
<1>7. p \in Nat /\ p # 0
  BY <1>1, FieldsAssumption
<1>8. p \in 1..Len(booked)
  <2>1. booked[i].position \in 0..i
    BY <1>3, Lengths DEF Joined
  <2> QED BY <1>3, <1>4, <1>7, <2>1, Lengths
<1>9. ASSUME NEW j \in 1..Len(booked), booked[j].position = p
      PROVE  Alike(booked[i].draft, booked[j].draft)
  BY <1>3, <1>4, <1>7, <1>9, Lengths DEF Joined
<1> QED BY <1>4, <1>5, <1>6, <1>8, <1>9 DEF Alike

-----------------------------------------------------------------------------
(* The invariant holds of every step. *)

LEMMA BookKeeps ==
  ASSUME LedgerInv, NEW d \in CashDrafts \cup TradeDrafts,
         NEW p \in 0..(Len(booked) + 1), Book(d, p),
         p = 0 <=> d.kind = "cash",
         \A i \in 1..Len(booked) :
           booked[i].position = p /\ p # 0 => Alike(booked[i].draft, d)
  PROVE  LedgerInv'
<1> DEFINE b == [draft |-> d, position |-> p]
           last == Len(booked) + 1
<1>1. LedgerTypeOK /\ InTurn /\ Joined
  BY DEF LedgerInv
<1>2. /\ cache' = Append(cache, Written(b, -last)) /\ booked' = Append(booked, b)
      /\ db' = db
  BY DEF Book, Written
<1>3. p \in Nat /\ last \in Nat /\ -last \in Int
  BY <1>1, Lengths
<1>4. b \in Bookings
  BY <1>3 DEF Bookings
<1>5. Written(b, -last) \in AllWritten
  BY <1>3, <1>4 DEF AllWritten
<1>6. booked \in Seq(Bookings) /\ cache \in Seq(AllWritten)
      /\ db \in Seq(AllWritten)
  BY <1>1 DEF LedgerTypeOK
<1> HIDE DEF b
<1>7. /\ booked' \in Seq(Bookings) /\ Len(booked') = last
      /\ \A i \in 1..Len(booked) : booked'[i] = booked[i]
      /\ booked'[last] = b
  BY <1>2, <1>4, <1>6, AppendProperties
<1>8. /\ cache' \in Seq(AllWritten) /\ Len(cache') = Len(cache) + 1
      /\ \A j \in 1..Len(cache) : cache'[j] = cache[j]
      /\ cache'[Len(cache) + 1] = Written(b, -last)
  BY <1>2, <1>5, <1>6, AppendProperties
<1>9. LedgerTypeOK'
  BY <1>2, <1>6, <1>7, <1>8 DEF LedgerTypeOK
<1>10. /\ DOMAIN booked' = 1..last /\ DOMAIN cache' = 1..(Len(cache) + 1)
       /\ Earlier' = Earlier
  <2>1. Earlier' = last - (Len(cache) + 1)
    BY <1>7, <1>8 DEF Earlier
  <2> QED BY <1>1, <1>7, <1>8, <2>1, Lengths DEF Earlier
<1>11. InTurn'
  <2>1. Earlier' \in 0..Len(db') /\ Len(db') <= Len(booked')
    BY <1>1, <1>2, <1>7, <1>10, Lengths
  <2>2. ASSUME NEW i \in DOMAIN db PROVE db[i] = Written(booked'[i], i)
    BY <1>1, <1>7, <2>2, FileIds, Lengths
  <2>3. ASSUME NEW j \in 1..(Len(cache) + 1)
        PROVE  cache'[j] = Written(booked'[Earlier + j], IdOf(Earlier + j))
    <3>1. CASE j \in 1..Len(cache)
      BY <1>1, <1>7, <1>8, <3>1, StoreIds
    <3>2. CASE j = Len(cache) + 1
      <4>1. Earlier + j = last /\ last > Len(db)
        BY <1>1, <3>2, Lengths
      <4> QED BY <1>7, <1>8, <3>2, <4>1 DEF IdOf
    <3>3. j \in 1..Len(cache) \/ j = Len(cache) + 1
      BY <1>1, Lengths
    <3> QED BY <3>1, <3>2, <3>3
  <2>4. \A i : IdOf(i)' = IdOf(i)
    BY <1>2 DEF IdOf
  <2> QED BY <1>2, <1>10, <2>1, <2>2, <2>3, <2>4 DEF InTurn
<1>12. b.draft = d /\ b.position = p
  BY DEF b
<1>13. Joined'
  <2>1. ASSUME NEW i \in 1..last
        PROVE  /\ booked'[i].position \in 0..i
               /\ booked'[i].position = 0 <=> booked'[i].draft.kind = "cash"
    <3>1. CASE i \in 1..Len(booked)
      BY <1>1, <1>7, <3>1, Lengths DEF Joined
    <3>2. CASE i = last
      BY <1>7, <1>12, <3>2
    <3>3. i \in 1..Len(booked) \/ i = last
      BY <1>1, Lengths
    <3> QED BY <3>1, <3>2, <3>3
  <2>2. ASSUME NEW i \in 1..last, NEW j \in 1..last,
               booked'[i].position = booked'[j].position, booked'[i].position # 0
        PROVE  Alike(booked'[i].draft, booked'[j].draft)
    <3>1. CASE i \in 1..Len(booked) /\ j \in 1..Len(booked)
      BY <1>1, <1>7, <2>2, <3>1, Lengths DEF Joined
    <3>2. CASE i \in 1..Len(booked) /\ j = last
      BY <1>7, <1>12, <2>2, <3>2
    <3>3. CASE i = last /\ j \in 1..Len(booked)
      BY <1>7, <1>12, <2>2, <3>3 DEF Alike
    <3>4. CASE i = last /\ j = last
      BY <3>4 DEF Alike
    <3>5. \A k \in 1..last : k \in 1..Len(booked) \/ k = last
      BY <1>1, Lengths
    <3> QED BY <3>1, <3>2, <3>3, <3>4, <3>5
  <2> QED BY <1>10, <2>1, <2>2 DEF Joined
<1> QED BY <1>9, <1>11, <1>13 DEF LedgerInv

(* Nothing was booked to a new position. *)
LEMMA NothingIsNew ==
  ASSUME LedgerInv, NEW d \in TradeDrafts, Book(d, NewPosition)
  PROVE  LedgerInv'
<1>1. LedgerTypeOK /\ InTurn /\ Joined
  BY DEF LedgerInv
<1>2. NewPosition \in 0..(Len(booked) + 1) /\ NewPosition # 0
  BY <1>1, Lengths DEF NewPosition
<1>3. \A i \in 1..Len(booked) : booked[i].position # NewPosition
  <2> SUFFICES ASSUME NEW i \in 1..Len(booked)
               PROVE  booked[i].position # Len(booked) + 1
    BY DEF NewPosition
  <2>1. booked[i].position \in 0..i
    BY <1>1, Lengths DEF Joined
  <2> QED BY <1>1, <2>1, Lengths
<1>4. d.kind # "cash"
  BY TradeDraftShape
<1> QED BY <1>2, <1>3, <1>4, BookKeeps

LEMMA SaveKeeps == LedgerInv /\ Save => LedgerInv'
<1> SUFFICES ASSUME LedgerInv, Save PROVE LedgerInv'
  OBVIOUS
<1> DEFINE n == Cardinality(Pending)
           saved == Len(db) - Earlier
<1>1. LedgerTypeOK /\ InTurn /\ Joined
  BY DEF LedgerInv
<1>2. /\ db' = db \o Rows(n) /\ booked' = booked
      /\ cache' = [j \in DOMAIN cache |->
                     IF j \in Pending THEN RowsOf(cache[j], Len(db) + Turn(j))
                     ELSE cache[j]]
  BY DEF Save
<1>3. n = Len(booked) - Len(db) /\ n \in 0..n
  BY <1>1, PendingPlaces, Lengths
<1> HIDE DEF n
<1>4. /\ db' \in Seq(AllWritten) /\ Len(db') = Len(booked)
      /\ \A i \in 1..Len(booked) : db'[i] = Written(booked[i], i)
  <2>1. n \in 0..Cardinality(Pending) /\ Len(db) + n = Len(booked)
    BY <1>1, <1>3, Lengths DEF n
  <2> QED BY <1>1, <1>2, <2>1, RowsInTurn
<1>5. ASSUME NEW j \in 1..Len(cache)
      PROVE  cache'[j] = Written(booked[Earlier + j], Earlier + j)
  <2>1. /\ Earlier + j \in 1..Len(booked)
        /\ cache[j] = Written(booked[Earlier + j], IdOf(Earlier + j))
    BY <1>1, StoreIds
  <2>2. CASE j \in Pending
    <3>1. Len(db) + Turn(j) = Earlier + j
      BY <1>1, <2>2, PendingPlaces, Lengths
    <3>2. cache'[j] = RowsOf(cache[j], Earlier + j)
      BY <1>1, <1>2, <2>2, <3>1, Lengths
    <3>3. booked[Earlier + j] \in Bookings
      BY <1>1, <2>1, Lengths
    <3> QED BY <2>1, <3>2, <3>3, OnlyTheIdChanges
  <2>3. CASE j \notin Pending
    <3>1. Earlier + j <= Len(db)
      <4>1. ~(j >= saved + 1)
        BY <1>1, <2>3, PendingPlaces, Lengths
      <4> QED BY <1>1, <4>1, Lengths
    <3>2. cache'[j] = cache[j]
      BY <1>1, <1>2, <2>3, Lengths
    <3> QED BY <2>1, <3>1, <3>2 DEF IdOf
  <2> QED BY <2>2, <2>3
<1>6. cache' \in Seq(AllWritten) /\ Len(cache') = Len(cache)
      /\ DOMAIN cache' = 1..Len(cache)
  <2>1. ASSUME NEW j \in 1..Len(cache) PROVE cache'[j] \in AllWritten
    <3>1. booked[Earlier + j] \in Bookings /\ Earlier + j \in Int
      BY <1>1, StoreIds, Lengths
    <3> QED BY <1>5, <3>1 DEF AllWritten
  <2>2. cache' = [j \in 1..Len(cache) |-> cache'[j]]
    BY <1>1, <1>2, Lengths
  <2>3. cache' \in [1..Len(cache) -> AllWritten]
    BY <2>1, <2>2
  <2>4. Len(cache) \in Nat
    BY <1>1, Lengths
  <2> QED BY <2>3, <2>4
<1>7. LedgerTypeOK'
  BY <1>1, <1>2, <1>4, <1>6 DEF LedgerTypeOK
<1>8. InTurn'
  <2>1. Earlier' = Earlier
    BY <1>2, <1>6 DEF Earlier
  <2>2. Earlier \in 0..Len(db') /\ Len(db') <= Len(booked')
    BY <1>1, <1>2, <1>4, Lengths
  <2>3. DOMAIN db' = 1..Len(booked)
    BY <1>4
  <2>4. ASSUME NEW j \in 1..Len(cache) PROVE IdOf(Earlier + j)' = Earlier + j
    <3>1. Earlier + j <= Len(booked)
      BY <1>1, StoreIds, Lengths
    <3> QED BY <1>4, <2>1, <3>1 DEF IdOf
  <2> QED BY <1>2, <1>4, <1>5, <1>6, <2>1, <2>2, <2>3, <2>4 DEF InTurn
<1>9. Joined'
  BY <1>1, <1>2 DEF Joined
<1> QED BY <1>7, <1>8, <1>9 DEF LedgerInv

LEMMA RestartKeeps == LedgerInv /\ Restart => LedgerInv'
<1> SUFFICES ASSUME LedgerInv, Restart PROVE LedgerInv'
  OBVIOUS
<1>1. LedgerTypeOK /\ InTurn /\ Joined
  BY DEF LedgerInv
<1>2. PICK n \in 0..Cardinality(Pending) :
        /\ db' = db \o Rows(n)
        /\ booked' = SubSeq(booked, 1, Len(db) + n)
  BY DEF Restart
<1>3. cache' = <<>>
  BY DEF Restart
<1> DEFINE m == Len(db) + n
<1>4. /\ db' \in Seq(AllWritten) /\ Len(db') = m /\ m <= Len(booked)
      /\ \A i \in 1..m : db'[i] = Written(booked[i], i)
  BY <1>1, <1>2, RowsInTurn
<1>5. m \in Nat
  BY <1>4
<1> HIDE DEF m
<1>6. /\ booked' \in Seq(Bookings) /\ Len(booked') = m
      /\ \A i \in 1..m : booked'[i] = booked[i]
  <2>1. \A i \in 1..m : booked[i] \in Bookings
    BY <1>1, <1>4, <1>5, Lengths
  <2>2. booked' = SubSeq(booked, 1, m)
    BY <1>2 DEF m
  <2> QED BY <1>5, <2>1, <2>2, SubSeqProperties
<1>7. cache' \in Seq(AllWritten) /\ Len(cache') = 0 /\ DOMAIN cache' = {}
  BY <1>3
<1>8. LedgerTypeOK'
  BY <1>4, <1>6, <1>7 DEF LedgerTypeOK
<1>9. DOMAIN booked' = 1..m /\ DOMAIN db' = 1..m
  BY <1>4, <1>5, <1>6
<1>10. InTurn'
  <2>1. Earlier' = m
    BY <1>5, <1>6, <1>7 DEF Earlier
  <2> QED BY <1>4, <1>5, <1>6, <1>7, <1>9, <2>1 DEF InTurn
<1>11. Joined'
  <2>1. \A i \in 1..m : i \in 1..Len(booked)
    BY <1>1, <1>4, <1>5, Lengths
  <2> QED BY <1>1, <1>6, <1>9, <2>1, Lengths DEF Joined
<1> QED BY <1>8, <1>10, <1>11 DEF LedgerInv

LEMMA LedgerInvariant == Spec => []LedgerInv
<1>1. Init => LedgerInv
  <2> SUFFICES ASSUME Init PROVE LedgerInv
    OBVIOUS
  <2>1. cache = <<>> /\ db = <<>> /\ booked = <<>>
    BY DEF Init
  <2>2. LedgerTypeOK
    BY <2>1 DEF LedgerTypeOK
  <2>3. InTurn /\ Joined
    BY <2>1 DEF InTurn, Joined, Earlier
  <2> QED BY <2>2, <2>3 DEF LedgerInv
<1>2. LedgerInv /\ [Next]_vars => LedgerInv'
  <2> SUFFICES ASSUME LedgerInv, [Next]_vars PROVE LedgerInv'
    OBVIOUS
  <2>1. LedgerTypeOK /\ InTurn /\ Joined
    BY DEF LedgerInv
  <2>2. CASE BookCash
    <3>1. PICK d \in CashDrafts : Book(d, 0)
      BY <2>2 DEF BookCash
    <3>2. d.kind = "cash" /\ 0 \in 0..(Len(booked) + 1)
      BY <2>1, CashDraftShape, Lengths
    <3> QED BY <3>1, <3>2, BookKeeps
  <2>3. CASE BookStock
    <3>1. PICK account \in SecurityAccounts, ticker \in Tickers :
            \E p \in {NewPosition} \cup Matching(account, ticker) :
              \E d \in StockDrafts :
                /\ d.security = account /\ d.instrument = Stock(ticker)
                /\ Book(d, p)
      BY <2>3 DEF BookStock
    <3>2. PICK p \in {NewPosition} \cup Matching(account, ticker), d \in StockDrafts :
            /\ d.security = account /\ d.instrument = Stock(ticker)
            /\ Book(d, p)
      BY <3>1
    <3>3. d \in TradeDrafts /\ d.kind = "stock"
      BY DEF TradeDrafts, StockDrafts
    <3>4. CASE p = NewPosition
      BY <2>1, <3>2, <3>3, <3>4, NothingIsNew
    <3>5. CASE p \in Matching(account, ticker)
      <4>1. /\ p \in 1..Len(booked)
            /\ \A i \in 1..Len(booked) :
                 booked[i].position = p => Alike(booked[i].draft, d)
        BY <3>2, <3>3, <3>5, OfferedPosition DEF Alike
      <4>2. p \in 0..(Len(booked) + 1) /\ p # 0
        BY <2>1, <4>1, Lengths
      <4> QED BY <3>2, <3>3, <4>1, <4>2, BookKeeps
    <3> QED BY <3>4, <3>5
  <2>4. CASE BookOption
    <3>1. PICK d \in OptionDrafts : Book(d, NewPosition)
      BY <2>4 DEF BookOption
    <3>2. d \in TradeDrafts /\ d.kind = "option"
      BY DEF TradeDrafts, OptionDrafts
    <3> QED BY <3>1, <3>2, NothingIsNew
  <2>5. CASE Save
    BY <2>5, SaveKeeps
  <2>6. CASE Restart
    BY <2>6, RestartKeeps
  <2>7. CASE UNCHANGED vars
    BY <2>7 DEF vars, LedgerInv, LedgerTypeOK, InTurn, Joined, Earlier, IdOf
  <2> QED BY <2>2, <2>3, <2>4, <2>5, <2>6, <2>7 DEF Next
<1> QED BY <1>1, <1>2, PTL DEF Spec

-----------------------------------------------------------------------------
(* Every open position can be shown. *)

LEMMA AllReadable ==
  ASSUME LedgerTypeOK, InTurn
  PROVE  Readable
<1> SUFFICES ASSUME NEW tx \in Transactions PROVE Converts(tx)
  BY DEF Readable
<1>1. PICK i \in 1..Len(booked), id \in Int : tx = Written(booked[i], id)
  BY KnownWasBooked
<1> QED BY <1>1, Lengths, BookingComesBack

(* The transactions of a position are of one kind, and fit together. *)
LEMMA PositionIsSound ==
  ASSUME LedgerInv, NEW account \in SecurityAccounts, NEW p \in Positions(account)
  PROVE  LET txs == Members(account, p)
         IN  /\ txs # {}
             /\ \E kind \in {"stock", "option"} :
                  Sound(txs, kind) /\ \A tx \in txs : tx.kind = kind
<1> DEFINE txs == Members(account, p)
<1>1. LedgerTypeOK /\ InTurn /\ Joined
  BY DEF LedgerInv
<1>2. p \in 1..MaxBookings /\ txs # {}
  BY DEF Positions
<1>3. p # 0
  BY <1>2, FieldsAssumption
<1>4. ASSUME NEW tx \in txs
      PROVE  \E i \in 1..Len(booked) :
               /\ booked[i].position = p /\ booked[i].draft \in TradeDrafts
               /\ booked[i].draft.security = account
               /\ tx.kind = booked[i].draft.kind /\ Row(tx) = booked[i].draft
  BY <1>1, MembersWereBooked
<1> HIDE DEF txs
<1>5. PICK first \in 1..Len(booked) :
        /\ booked[first].position = p /\ booked[first].draft \in TradeDrafts
        /\ \E tx \in txs : TRUE
  BY <1>2, <1>4
<1> DEFINE d == booked[first].draft
           currency == CurrencyOf[account]
<1>6. ASSUME NEW tx \in txs
      PROVE  /\ tx.kind = d.kind /\ Row(tx).instrument = d.instrument
             /\ Row(tx).amount.currency = currency
             /\ Row(tx).fees.currency = currency
  <2>1. PICK i \in 1..Len(booked) :
          /\ booked[i].position = p /\ booked[i].draft \in TradeDrafts
          /\ booked[i].draft.security = account
          /\ tx.kind = booked[i].draft.kind /\ Row(tx) = booked[i].draft
    BY <1>4
  <2>2. Alike(booked[i].draft, d)
    BY <1>1, <1>3, <1>5, <2>1, Lengths DEF Joined
  <2>3. /\ booked[i].draft.amount.currency = currency
        /\ booked[i].draft.fees.currency = currency
    BY <2>1, TradeDraftShape
  <2> QED BY <2>1, <2>2, <2>3 DEF Alike
<1>7. d.kind \in {"stock", "option"}
  BY <1>5, TradeDraftShape
<1> HIDE DEF d, currency
<1>8. {t \in txs : t.kind = d.kind} = txs
  BY <1>6
<1>9. InstrumentIds(txs, d.kind) = {d.instrument}
  BY <1>2, <1>6, <1>8 DEF InstrumentIds
<1>10. {Row(tx).amount.currency : tx \in txs} \cup {Row(tx).fees.currency : tx \in txs}
         = {currency}
  BY <1>2, <1>6
<1>11. {Row(tx).instrument.size : tx \in txs} = {d.instrument.size}
  BY <1>2, <1>6
<1>12. \A x : Cardinality({x}) = 1
  BY FS_Singleton
<1>13. Foldable(txs)
  BY <1>10, <1>11, <1>12 DEF Foldable
<1>14. Sound(txs, d.kind)
  BY <1>9, <1>12, <1>13 DEF Sound
<1> QED BY <1>2, <1>6, <1>7, <1>14 DEF txs

LEMMA InvShowsPositions == LedgerInv => PositionsAreShown
<1> SUFFICES ASSUME LedgerInv PROVE PositionsAreShown
  OBVIOUS
<1>1. Readable
  BY AllReadable DEF LedgerInv
<1>2. ASSUME NEW account \in SecurityAccounts
      PROVE  StocksShown(account) /\ OptionsShown(account)
  <2> SUFFICES ASSUME NEW p \in Positions(account)
               PROVE  LET txs == Members(account, p)
                      IN  /\ ContainsOptions(txs) \/ Sound(txs, "stock")
                          /\ ContainsOptions(txs) => Sound(txs, "option")
    BY DEF StocksShown, OptionsShown
  <2> DEFINE txs == Members(account, p)
  <2>1. PICK kind \in {"stock", "option"} :
          Sound(txs, kind) /\ \A tx \in txs : tx.kind = kind
    BY PositionIsSound
  <2>2. txs # {}
    BY PositionIsSound
  <2> HIDE DEF txs
  <2>3. ContainsOptions(txs) <=> kind = "option"
    BY <2>1, <2>2 DEF ContainsOptions
  <2> QED BY <2>1, <2>3 DEF txs
<1> QED BY <1>1, <1>2 DEF PositionsAreShown

(* For any accounts, currencies, tickers and contracts and any number of
   bookings, saves and restarts: the transactions of an open position are of
   one kind, one instrument and one currency, so the tables of positions can
   always be shown (position_gateway.cpp:226). *)
THEOREM PositionsStayShown == Spec => []PositionsAreShown
BY LedgerInvariant, InvShowsPositions, PTL

-----------------------------------------------------------------------------
(* The overview shows each transaction as it was booked, once. *)

Place(i) == IF i <= Earlier THEN <<"file", i>> ELSE <<"store", i - Earlier>>

(* Each place is that of one booking, which reads back as its draft. *)
LEMMA PlacesAreBookings ==
  ASSUME LedgerTypeOK, InTurn
  PROVE  /\ \A i \in 1..Len(booked) :
              Place(i) \in Known /\ Row(At(Place(i))) = booked[i].draft
         /\ \A place \in Known : \E i \in 1..Len(booked) : Place(i) = place
         /\ \A i, j \in 1..Len(booked) : Place(i) = Place(j) => i = j
<1>1. ASSUME NEW i \in 1..Len(booked)
      PROVE  Place(i) \in Known /\ Row(At(Place(i))) = booked[i].draft
  <2>1. CASE i <= Earlier
    <3>1. i \in 1..Earlier /\ i \in 1..Len(db) /\ Place(i) = <<"file", i>>
      BY <2>1, Lengths DEF Place
    <3>2. At(Place(i)) = db[i]
      BY <3>1 DEF At
    <3>3. Place(i) \in Known
      BY <3>1, KnownPlaces
    <3> QED BY <3>1, <3>2, <3>3, FileIds, Lengths, BookingComesBack
  <2>2. CASE i > Earlier
    <3> DEFINE j == i - Earlier
    <3>1. j \in 1..Len(cache) /\ Earlier + j = i /\ Place(i) = <<"store", j>>
      BY <2>2, Lengths DEF Place
    <3> HIDE DEF j
    <3>2. At(Place(i)) = cache[j]
      BY <3>1 DEF At
    <3>3. Place(i) \in Known
      BY <3>1, KnownPlaces
    <3>4. cache[j] = Written(booked[i], IdOf(i))
      BY <3>1, StoreIds
    <3> QED BY <3>2, <3>3, <3>4, Lengths, BookingComesBack
  <2>3. i <= Earlier \/ i > Earlier
    BY Lengths
  <2> QED BY <2>1, <2>2, <2>3
<1>2. ASSUME NEW place \in Known
      PROVE  \E i \in 1..Len(booked) : Place(i) = place
  <2>1. CASE place \in {"store"} \X (1..Len(cache))
    <3>1. PICK j \in 1..Len(cache) : place = <<"store", j>>
      BY <2>1
    <3>2. Earlier + j \in 1..Len(booked) /\ Place(Earlier + j) = place
      BY <3>1, Lengths DEF Place
    <3> QED BY <3>2
  <2>2. CASE place \in {"file"} \X (1..Earlier)
    <3>1. PICK i \in 1..Earlier : place = <<"file", i>>
      BY <2>2
    <3>2. i \in 1..Len(booked) /\ Place(i) = place
      BY <3>1, Lengths DEF Place
    <3> QED BY <3>2
  <2> QED BY <2>1, <2>2, KnownPlaces
<1>3. ASSUME NEW i \in 1..Len(booked), NEW j \in 1..Len(booked), Place(i) = Place(j)
      PROVE  i = j
  <2>1. CASE i <= Earlier
    BY <1>3, <2>1 DEF Place
  <2>2. CASE ~(i <= Earlier)
    <3>1. ~(j <= Earlier) /\ i - Earlier = j - Earlier
      BY <1>3, <2>2 DEF Place
    <3> QED BY <3>1, Lengths
  <2> QED BY <2>1, <2>2
<1> QED BY <1>1, <1>2, <1>3

LEMMA InvReadsBack == LedgerInv => ReadsBack
<1> SUFFICES ASSUME LedgerInv PROVE ReadsBack
  OBVIOUS
<1>1. LedgerTypeOK /\ InTurn
  BY DEF LedgerInv
<1> DEFINE rows == Overview
           B == 1..Len(booked)
<1>2. /\ DOMAIN rows = Known
      /\ \A place \in Known : rows[place] = Row(At(place))
  BY DEF Overview
<1> HIDE DEF rows
(* Rows that satisfy anything are as many as the bookings that do. *)
<1>3. ASSUME NEW S \in SUBSET B, NEW T \in SUBSET Known,
             \A i \in B : i \in S <=> Place(i) \in T
      PROVE  Cardinality(T) = Cardinality(S)
  <2> DEFINE f == [i \in S |-> Place(i)]
  <2>1. f \in [S -> T]
    BY <1>3
  <2>2. f \in Injection(S, T)
    <3>1. \A i, j \in S : f[i] = f[j] => i = j
      BY <1>1, PlacesAreBookings
    <3> QED BY <2>1, <3>1 DEF Injection, IsInjective
  <2>3. f \in Surjection(S, T)
    <3>1. ASSUME NEW place \in T PROVE \E i \in S : f[i] = place
      <4>1. PICK i \in B : Place(i) = place
        BY <1>1, PlacesAreBookings
      <4>2. i \in S
        BY <1>3, <4>1
      <4> QED BY <4>1, <4>2
    <3> QED BY <2>1, <3>1 DEF Surjection
  <2>4. ExistsBijection(S, T)
    BY <2>2, <2>3 DEF ExistsBijection, Bijection
  <2>5. IsFiniteSet(S)
    <3>1. Len(booked) \in Int
      BY <1>1, Lengths
    <3>2. IsFiniteSet(B)
      BY <3>1, FS_Interval
    <3> QED BY <3>2, FS_Subset
  <2> QED BY <2>4, <2>5, FS_Bijection
<1>4. Cardinality(B) = Len(booked)
  <2>1. Len(booked) \in Nat
    BY <1>1, Lengths
  <2>2. Cardinality(1..Len(booked))
          = IF 1 > Len(booked) THEN 0 ELSE Len(booked) - 1 + 1
    BY <2>1, FS_Interval
  <2> QED BY <2>1, <2>2
<1>5. Cardinality(DOMAIN rows) = Len(booked)
  <2>1. \A i \in B : i \in B <=> Place(i) \in Known
    BY <1>1, PlacesAreBookings
  <2> QED BY <1>2, <1>3, <1>4, <2>1
<1>6. ASSUME NEW i \in DOMAIN booked
      PROVE  Occurrences(rows, booked[i].draft)
               = Cardinality({j \in DOMAIN booked :
                               booked[j].draft = booked[i].draft})
  <2> DEFINE x == booked[i].draft
             S == {j \in DOMAIN booked : booked[j].draft = x}
             T == {place \in DOMAIN rows : rows[place] = x}
  <2>1. S \in SUBSET B /\ T \in SUBSET Known
    BY <1>1, <1>2, Lengths
  <2>2. \A j \in B : j \in S <=> Place(j) \in T
    BY <1>1, <1>2, PlacesAreBookings, Lengths
  <2> HIDE DEF S, T
  <2>3. Cardinality(T) = Cardinality(S)
    BY <1>3, <2>1, <2>2
  <2> QED BY <2>3 DEF Occurrences, S, T
<1>7. Readable
  BY <1>1, AllReadable
<1> QED BY <1>5, <1>6, <1>7 DEF ReadsBack, rows

(* For any bookings, any number of saves, and processes that end anywhere in
   a save: what was booked and not lost is read back as it was booked, once,
   through the double entry, the rows of the file and back
   (transaction_store.cpp:275). *)
THEOREM BookingsReadBack == Spec => []ReadsBack
BY LedgerInvariant, InvReadsBack, PTL
=============================================================================
