------------------------------ MODULE Migration ------------------------------
(* The upgrade of the database at the start of the program: RepoContainer   *)
(* opens the file, backs it up, and MigrationRunner brings it from the      *)
(* version it has to the version of the program, in one transaction.  The   *)
(* process may die at any point.  While the program runs the user books     *)
(* transactions and restores backups, of which some are of older versions.  *)
EXTENDS Schema

CONSTANTS
  Releases,        \* the files that earlier releases left, and none at all
  TxIds,           \* bound: the row ids of booked transactions
  MaxBackups       \* bound: copies in the backup directory

-----------------------------------------------------------------------------
(* The files that releases left, and what the versions make of them.        *)

NoDb == <<>>

(* Releases left schemas of version 0 before release 0.0.4, then 5, 10 with  *)
(* release 0.2.0 and 15 with release 0.3.0.                                  *)
ReleasedVersions == {0, 5, 10, 15}

Steps(from, to) == UNION {{Versions[v][i] : i \in DOMAIN Versions[v]} : v \in from..to}

(* The models that have a table in a version. *)
ModelsAt(v) ==
  IF v = 0 THEN {ProfileRow, AccountRow}
  ELSE {m \in Models : CreateTable(m) \in Steps(1, v)}

(* A table of a version: that of today, without what later versions add and *)
(* with what they drop.                                                     *)
TableAt(m, v) ==
  LET later == {s \in Steps(v + 1, DbVersion) : s.table = m.table}
      added == {s.col : s \in {l \in later : l.do = "addColumn"}}
      dropped == {s.col : s \in {l \in later : l.do = "dropColumn"}}
  IN  [cols |-> (m.cols \ added) \cup dropped,
       refs |-> {k \in m.refs : k.col \notin added},
       unique |-> IF v = 0 /\ m = AccountRow THEN {} ELSE m.unique]

(* A database without its rows, that of a version, and those that an        *)
(* upgrade can begin with: the last of them is that of no file.             *)
Bare(db) == [t \in DOMAIN db |-> Empty(db[t])]
BareAt(v) ==
  [t \in {m.table : m \in ModelsAt(v)} |->
     Empty(TableAt(CHOOSE m \in Models : m.table = t, v))]
Origins ==
  {[version |-> v, db |-> BareAt(v)] : v \in ReleasedVersions}
    \cup {[version |-> 0, db |-> NoDb]}

(* Tables are records, rows have the columns of their table, and ids are    *)
(* numbers that no two rows of a table share.                               *)
IsDb(db) ==
  /\ db = [t \in DOMAIN db |-> db[t]]
  /\ \A t \in DOMAIN db :
       db[t] = [cols |-> db[t].cols, refs |-> db[t].refs, unique |-> db[t].unique,
                rows |-> db[t].rows]
IsRow(r, cols) == r = [c \in cols |-> r[c]]
RowsFit(db) == \A t \in DOMAIN db : \A r \in db[t].rows : IsRow(r, db[t].cols)
IdsDiffer(rows) ==
  \A r, q \in rows : r["id"] \in Nat /\ (r["id"] = q["id"] => r = q)

(* No table holds the type that version 12 renames. *)
NoTrades(db) ==
  "transaction_" \in DOMAIN db => \A t \in db["transaction_"].rows : t["type"] # "Trade"

IsReleased(f) ==
  /\ f = [version |-> f.version, db |-> f.db]
  /\ [version |-> f.version, db |-> Bare(f.db)] \in Origins
  /\ IsDb(f.db) /\ RowsFit(f.db) /\ Constrained(f.db)
  /\ \A t \in DOMAIN f.db : IdsDiffer(f.db[t].rows)
  /\ f.version >= 12 => NoTrades(f.db)

ASSUME ReleasesAssumption ==
  /\ \A f \in Releases : IsReleased(f)
  /\ TxIds \subseteq Nat /\ MaxBackups \in Nat

VARIABLES
  file,            \* the database file as SQLite finds it after a crash
  backups,         \* the copies in the backup directory
  stage,           \* "off", "upgrading" or "on"
  at, step,        \* the next single migration, Versions[at][step]
  work             \* what the open transaction has made of the database

migrationVars == <<file, backups, stage, at, step, work>>

MigrationInit ==
  /\ file \in Releases /\ backups = {}
  /\ stage = "off" /\ at = 1 /\ step = 1 /\ work = NoDb

(* Mutant: the version after that of the file is passed over. *)
StartOneLate(saved) ==
  /\ stage = "off" /\ (saved => Cardinality(backups \cup {file}) <= MaxBackups)
  /\ backups' = IF saved THEN backups \cup {file} ELSE backups
  /\ stage' = "upgrading" /\ work' = file.db
  /\ at' = file.version + 2 /\ step' = 1
  /\ UNCHANGED file

(* MigrationRunner::migrate reads user_version and begins the transaction.  *)
(* The backup that precedes it may fail or be disabled.                     *)
Start(saved) ==
  /\ stage = "off" /\ (saved => Cardinality(backups \cup {file}) <= MaxBackups)
  /\ backups' = IF saved THEN backups \cup {file} ELSE backups
  /\ stage' = "upgrading" /\ work' = file.db
  /\ at' = file.version + 1 /\ step' = 1
  /\ UNCHANGED file

Todo == Versions[at][step]

(* Mutant: every step is committed as it is made. *)
MigrateInPlace ==
  /\ stage = "upgrading" /\ at <= DbVersion
  /\ Allowed(work, Todo)
  /\ work' = Applied(work, Todo)
  /\ file' = [version |-> file.version, db |-> work']
  /\ IF step < Len(Versions[at]) THEN step' = step + 1 /\ at' = at
     ELSE step' = 1 /\ at' = at + 1
  /\ UNCHANGED <<backups, stage>>

(* The loop over the versions and, in each, over its single migrations. *)
Migrate ==
  /\ stage = "upgrading" /\ at <= DbVersion
  /\ Allowed(work, Todo)
  /\ work' = Applied(work, Todo)
  /\ IF step < Len(Versions[at]) THEN step' = step + 1 /\ at' = at
     ELSE step' = 1 /\ at' = at + 1
  /\ UNCHANGED <<file, backups, stage>>

Closed == at' = 1 /\ step' = 1 /\ work' = NoDb

(* A statement that fails throws; the transaction is rolled back and the    *)
(* program ends with a MigrationException.                                  *)
Refuse ==
  /\ stage = "upgrading" /\ at <= DbVersion
  /\ ~ Allowed(work, Todo)
  /\ stage' = "off" /\ Closed
  /\ UNCHANGED <<file, backups>>

Commit ==
  /\ stage = "upgrading" /\ at > DbVersion
  /\ file' = [version |-> DbVersion, db |-> work]
  /\ stage' = "on" /\ Closed
  /\ UNCHANGED backups

(* The process ends or dies; SQLite rolls the open transaction back. *)
Ends ==
  /\ stage # "off"
  /\ stage' = "off" /\ Closed
  /\ UNCHANGED <<file, backups>>

-----------------------------------------------------------------------------
Filled(m, known) ==
  [c \in m.cols |-> IF c \in DOMAIN known THEN known[c] ELSE "some"]
TxRow(n, type) == Filled(TransactionRow, [id |-> n, type |-> type])
EntryRow(n, account) ==
  Filled(TransactionEntryRow,
         [id |-> n, transaction_id |-> n, account_id |-> account, type |-> "General"])

WithRow(db, t, row) == [db EXCEPT ![t].rows = @ \cup {row}]

(* TransactionRepo::addTransaction, with one entry. *)
Book ==
  /\ stage = "on"
  /\ \E n \in TxIds \ {t["id"] : t \in file.db["transaction_"].rows},
        a \in file.db["account"].rows :
       LET db == WithRow(file.db, "transaction_", TxRow(n, "Cash"))
       IN  file' = [file EXCEPT !.db = WithRow(db, "tx_entry", EntryRow(n, a["id"]))]
  /\ UNCHANGED <<backups, stage, at, step, work>>

(* The tables that the stores read whenever they are reloaded. *)
Reloaded == {ProfileRow, StockRow, OptionRow, WatchlistRow}
CanReload(db) ==
  \A m \in Reloaded : m.table \in DOMAIN db /\ m.cols \subseteq db[m.table].cols

(* The last of these tables came with the version of today, as the schema   *)
(* of today did.                                                            *)
ASSUME ReloadAssumption ==
  \A o \in Origins : /\ CanReload(o.db) <=> o.version = DbVersion
                     /\ SchemaOf(o.db) = CurrentSchema <=> o.version = DbVersion

(* Mutant: the program goes on with whatever was restored. *)
RestoreAnything ==
  /\ stage = "on" /\ file' \in backups
  /\ UNCHANGED <<backups, stage, at, step, work>>

(* The file is replaced and opened, and not upgraded.  A store that cannot  *)
(* be reloaded throws, which ends the program.                              *)
Restore ==
  /\ stage = "on"
  /\ \E f \in backups : /\ file' = f
                        /\ stage' = IF CanReload(f.db) THEN "on" ELSE "off"
  /\ UNCHANGED <<backups, at, step, work>>

MigrationNext ==
  \/ (\E saved \in BOOLEAN : Start(saved))
  \/ Migrate \/ Refuse \/ Commit \/ Ends \/ Book \/ Restore

MigrationSpec == MigrationInit /\ [][MigrationNext]_migrationVars

-----------------------------------------------------------------------------
(* The upgrade of each origin, without rows.  These formulas have neither   *)
(* constants nor variables: TLC computes them, all of them, and the proofs  *)
(* take from here what the steps do to the schema; what they do to the rows *)
(* is proved.                                                               *)

TmpName == "account_tmp"
Accounts == {"account", TmpName}

First(o) == <<o.version + 1, 1>>
Last == <<DbVersion + 1, 1>>
StepAt(p) == Versions[p[1]][p[2]]
Positions(o) ==
  UNION {{v} \X DOMAIN Versions[v] : v \in (o.version + 1)..DbVersion}
NextOf(p) ==
  IF p[2] < Len(Versions[p[1]]) THEN <<p[1], p[2] + 1>> ELSE <<p[1] + 1, 1>>

(* The database before each step, and in the end. *)
Plan(o) ==
  LET plan[p \in Positions(o) \cup {Last}] ==
        IF p = First(o) THEN o.db
        ELSE LET q == CHOOSE q \in Positions(o) : NextOf(q) = p
             IN  Bare(Applied(plan[q], StepAt(q)))
  IN  plan

IsBefore(q, p) == q[1] < p[1] \/ (q[1] = p[1] /\ q[2] < p[2])

(* The steps that were made before one, and the tables dropped by them that *)
(* do not come back with their rows.                                        *)
Made(o, p) ==
  {StepAt(q) : q \in {r \in Positions(o) : IsBefore(r, p)}}
Gone(o, p) == {s.table : s \in {d \in Made(o, p) : d.do = "drop"}} \ Accounts
Fresh(o, p, t) == t \notin Accounts /\ (t \notin DOMAIN o.db \/ t \in Gone(o, p))
IsMade(do, o, p) == \E s \in Made(o, p) : s.do = do

RefersTo(tab, t) == \E k \in tab.refs : k.to = t
KeyCols(tab) == {"id"} \cup {k.col : k \in tab.refs} \cup UNION tab.unique

(* What is so before the step s at p of the upgrade of o, which finds the   *)
(* tables db.                                                               *)
IsForeseen(o, p, db, s) ==
  /\ s.do \in {"create", "copy", "drop", "rename", "addColumn", "dropColumn",
               "dedupe", "retype"}
  /\ Applicable(db, s)
  /\ \A t \in DOMAIN db : KeyCols(db[t]) \subseteq db[t].cols
  /\ \A t \in DOMAIN db : \A k \in db[t].refs : k = Ref(k.col, k.to, k.cascade)
  /\ \A t \in DOMAIN o.db : t \in DOMAIN db \cup Gone(o, p) \cup Accounts
  /\ s.do = "create" /\ s.table \notin DOMAIN db =>
       /\ s.table = TmpName => "account" \in DOMAIN db
       /\ s.table = "account" => TmpName \notin DOMAIN db
  /\ s.do = "copy" =>
       /\ s.table = "account" /\ s.to = TmpName
       /\ db["account"].refs = db[TmpName].refs
       /\ \/ db["account"].unique = db[TmpName].unique
          \/ /\ db[TmpName].unique = {{"profile_id", "kind", "name"}}
             /\ IsMade("dedupe", o, p)
  /\ s.do = "drop" =>
       /\ s.table # TmpName
       /\ \A t \in DOMAIN db : RefersTo(db[t], s.table) => Fresh(o, p, t)
  /\ s.do = "rename" =>
       /\ s.table = TmpName /\ s.to = "account"
       /\ \A t \in DOMAIN db : ~ RefersTo(db[t], TmpName)
  /\ s.do = "addColumn" /\ s.col \notin db[s.table].cols =>
       Fresh(o, p, s.table) \/ (s.table = "tx_entry" /\ s.col = "type")
  /\ s.do = "dropColumn" /\ s.table \in DOMAIN db => s.col \notin db[s.table].cols
  /\ s.do = "dedupe" =>
       /\ s.table = "account" /\ ~ IsMade("dedupe", o, p)
       /\ "name" \in db["account"].cols /\ \A k \in db["account"].refs : k.col # "name"
       /\ "account" \in DOMAIN o.db => db["account"].unique = {}
  /\ s.do = "retype" =>
       /\ s.table = "transaction_" /\ "type" \in db["transaction_"].cols
       /\ "type" \notin KeyCols(db["transaction_"])

(* What a step leaves for the next. *)
LeadsOn(o, p, db, s) ==
  /\ NextOf(p) \in Positions(o) \cup {Last}
  /\ Plan(o)[NextOf(p)] = Bare(Applied(db, s))
  /\ Made(o, NextOf(p)) = Made(o, p) \cup {s}
  /\ NextOf(p) # Last =>
       LET next == StepAt(NextOf(p))
       IN  /\ next.do = "copy" => s.do = "create" /\ s.table = TmpName
                                   /\ TmpName \notin DOMAIN db
           /\ next.do = "drop" /\ next.table = "account" => s.do = "copy"

(* Of an upgrade: it ends with the tables of today. *)
IsPlanned(o) ==
  /\ TmpName \notin DOMAIN o.db
  /\ "account" \in DOMAIN o.db => {"id", "name", "kind"} \subseteq o.db["account"].cols
  /\ First(o) \in Positions(o) \cup {Last} /\ Made(o, First(o)) = {}
  /\ Plan(o)[First(o)] = o.db /\ Plan(o)[Last] = BareAt(DbVersion)
  /\ First(o) # Last =>
       LET s == StepAt(First(o)) IN s.do # "copy" /\ ~ (s.do = "drop" /\ s.table = "account")
  /\ Gone(o, Last) = IF o.version < 6 THEN {"instrument", "transaction_", "tx_entry"} ELSE {}
  /\ IsMade("dedupe", o, Last) <=> o.version = 0
  /\ IsMade("retype", o, Last) <=> o.version < 12
  /\ \A p \in Positions(o) :
       LET db == Plan(o)[p]
       IN  IsForeseen(o, p, db, StepAt(p)) /\ LeadsOn(o, p, db, StepAt(p))

ASSUME PlanAssumption == \A o \in Origins : IsPlanned(o)

(* The tables of today. *)
ASSUME TodayAssumption ==
  /\ {"account", "transaction_", "tx_entry"} \subseteq DOMAIN BareAt(DbVersion)
  /\ BareAt(DbVersion)["transaction_"].cols = TransactionRow.cols
  /\ BareAt(DbVersion)["tx_entry"].cols = TransactionEntryRow.cols
  /\ DbVersion \in ReleasedVersions

-----------------------------------------------------------------------------
(* Properties.                                                              *)

MigrationTypeOK ==
  /\ file.version \in 0..DbVersion
  /\ \A f \in backups : f.version \in 0..DbVersion
  /\ stage \in {"off", "upgrading", "on"}
  /\ at \in 1..(DbVersion + 1)
  /\ step \in 1..(IF at <= DbVersion THEN Len(Versions[at]) ELSE 1)
  /\ stage # "upgrading" => work = NoDb

(* A crash never leaves a file between two versions, in the database or in  *)
(* a backup: a file is one that a release left, or of today's version.      *)
NoHalfUpgrade ==
  \A f \in backups \cup {file} : f \in Releases \/ f.version = DbVersion

(* While the program runs, the file has exactly the tables, columns, keys   *)
(* and unique groups that the models declare, whatever release the file came *)
(* from and whatever was restored.                                          *)
RunsOnToday == stage = "on" => SchemaOf(file.db) = CurrentSchema

(* Every file a release left can be upgraded, no step of it fails for a     *)
(* missing table, a unique group or a foreign key, but for one case: the id *)
(* that version 2 appends makes a name that another account has already.    *)
SuffixClash ==
  /\ "account" \in DOMAIN file.db
  /\ \E a, b \in Deduped(file.db["account"].rows) :
       a # b /\ \A c \in {"profile_id", "kind", "name"} : a[c] = b[c]
RefusedOnlyByClash ==
  stage = "upgrading" /\ at <= DbVersion /\ ~ Allowed(work, Todo) => SuffixClash

(* The upgrade is atomic and keeps what the user entered. *)
Promise == INSTANCE Upgrade WITH on <- (stage = "on")
UpgradesAtOnce == Promise!Spec
=============================================================================
