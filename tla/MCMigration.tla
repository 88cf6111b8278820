----------------------------- MODULE MCMigration -----------------------------
(* Files of the four schema versions that were released: version 0 before   *)
(* release 0.0.4, then 5, 10 with release 0.2.0 and 15 with release 0.3.0.  *)
EXTENDS Migration

Row(tab, known) == [c \in tab.cols |-> IF c \in DOMAIN known THEN known[c] ELSE "some"]

(* Known gives the rows of some tables, as records of some of their columns. *)
Released(v, known) ==
  [version |-> v,
   db |-> [t \in DOMAIN BareAt(v) |->
             IF t \in DOMAIN known
             THEN [BareAt(v)[t] EXCEPT !.rows = {Row(BareAt(v)[t], r) : r \in known[t]}]
             ELSE BareAt(v)[t]]]

NoFile == [version |-> 0, db |-> NoDb]

Profiles == {[id |-> 1, name |-> "p1"], [id |-> 2, name |-> "p2"]}

AnAccount == {[id |-> 1, profile_id |-> 1, kind |-> "Cash", name |-> <<"A">>]}

(* An account and any two others: before version 2 nothing about them was   *)
(* unique.  A name <<"A", 2>> is that of <<"A">> with the id 2 appended.    *)
Accounts0 ==
  {AnAccount \cup {[id |-> i, profile_id |-> p[i], kind |-> k[i], name |-> n[i]] : i \in 2..3} :
     p \in [2..3 -> 1..2], k \in [2..3 -> {"Cash", "Security"}],
     n \in [2..3 -> {<<"A">>, <<"B">>, <<"A", 2>>, <<"A", 3>>}]}
ACashTx == {[id |-> 1, type |-> "Cash"]}
AnEntry == {[id |-> 1, transaction_id |-> 1, account_id |-> 1]}

V0Files == {Released(0, [profile |-> Profiles, account |-> a]) : a \in Accounts0}
V5File == Released(5, [profile |-> Profiles, account |-> AnAccount,
                       instrument |-> {[id |-> 1]},
                       transaction_ |-> ACashTx, tx_entry |-> AnEntry])
V10File == Released(10, [profile |-> Profiles, account |-> AnAccount,
                         instrument |-> {[id |-> 1]},
                         stock |-> {[id |-> 1, instrument_id |-> 1, ticker |-> "T"]},
                         position |-> {[id |-> 1]},
                         transaction_ |-> {[id |-> 1, type |-> "Trade"]} ,
                         tx_entry |-> AnEntry,
                         trade_leg |-> {[id |-> 1, transaction_id |-> 1, account_id |-> 1,
                                         instrument_id |-> 1, position_id |-> 1]}])
V15File == Released(15, [profile |-> Profiles, account |-> AnAccount])

MCReleases == V0Files \cup {NoFile, V5File, V10File, V15File}
MCTxIds == {2}
=============================================================================
