------------------------------- MODULE Upgrade -------------------------------
(* What an upgrade of the database promises: at a start the whole file      *)
(* becomes a file of today at once, or stays what it is.  Nobody sees       *)
(* anything in between, and what the user entered is still there.           *)
EXTENDS Schema

VARIABLES
  file,            \* the database file, a version and a database
  backups,         \* the copies in the backup directory
  on               \* the program runs on the file

RowsOf(f, t) == IF t \in DOMAIN f.db THEN f.db[t].rows ELSE {}
WithoutCol(rows, col) == {Without(r, col) : r \in rows}

(* Accounts keep all but their names, and their names unless an earlier     *)
(* account of that kind had the same.                                       *)
KeepsAccounts(f, g) ==
  LET old == RowsOf(f, "account") new == RowsOf(g, "account")
  IN  /\ WithoutCol(new, "name") = WithoutCol(old, "name")
      /\ \A a \in new, b \in old :
           a["id"] = b["id"] /\ a["name"] # b["name"] =>
             \E c \in old : /\ c["id"] < b["id"]
                            /\ c["name"] = b["name"] /\ c["kind"] = b["kind"]

(* Version 6 discards the transactions of older files.  All others are      *)
(* kept; trades have become stock transactions and entries have a type.     *)
KeepsTransactions(f, g) ==
  LET txs == RowsOf(g, "transaction_") entries == RowsOf(g, "tx_entry")
  IN  IF f.version < 6 THEN txs = {} /\ entries = {}
      ELSE /\ WithoutCol(txs, "type") = WithoutCol(RowsOf(f, "transaction_"), "type")
           /\ \A t \in txs : t["type"] # "Trade"
           /\ WithoutCol(entries, "type") = WithoutCol(RowsOf(f, "tx_entry"), "type")
           /\ \A e \in entries : "type" \in DOMAIN e

(* All other tables keep their rows, but for the instruments of old files.  *)
KeepsOthers(f, g) ==
  \A t \in DOMAIN g.db \ {"account", "transaction_", "tx_entry"} :
    RowsOf(g, t) = IF t = "instrument" /\ f.version < 6 THEN {} ELSE RowsOf(f, t)

IsUpgradeOf(g, f) ==
  /\ g.version = DbVersion /\ SchemaOf(g.db) = CurrentSchema
  /\ KeepsAccounts(f, g) /\ KeepsTransactions(f, g) /\ KeepsOthers(f, g)

-----------------------------------------------------------------------------
BackUp == ~ on /\ backups' = backups \cup {file} /\ UNCHANGED <<file, on>>

Begin == ~ on /\ on' /\ IsUpgradeOf(file', file) /\ UNCHANGED backups

Change ==
  /\ on /\ on' /\ UNCHANGED backups
  /\ file'.version = file.version /\ SchemaOf(file'.db) = SchemaOf(file.db)

(* Restoring a copy keeps the program running if the copy is of today. *)
Restore ==
  /\ on /\ file' \in backups
  /\ on' = (SchemaOf(file'.db) = CurrentSchema)
  /\ UNCHANGED backups

End == on /\ ~ on' /\ UNCHANGED <<file, backups>>

Spec == [][BackUp \/ Begin \/ Change \/ Restore \/ End]_<<file, backups, on>>
=============================================================================
