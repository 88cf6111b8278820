# MolarTracker, specified in TLA+

MolarTracker is a desktop program (C++, Qt, SQLite) that keeps the accounts,
trades and positions of an investor. This directory specifies the parts of it in
which order, failure and stale state decide whether the program is correct: the
stores and the save that writes them to the database, the connection under it and
what is read back, the undo stack and what is pushed on it, the backups, the
upgrades of the schema, the prices that a worker thread fetches, the settings and
the dialog that edits them, the log files that two threads write, the forms
a transaction is entered with, and the arithmetic of positions. TLC checks the
specifications on small instances; TLAPS proves the invariants that matter most
for every instance.

## The system

| Part | State it keeps | Operations | Talks to |
|---|---|---|---|
| Stores (`store/`) | caches of entries with a state (New, Clean, Modified, Deleted), id sequences, id remaps, the session of the active profile | create, look up, commit, reload | repositories through services; notifies views by signals |
| Store container | the stores in commit order | `commit`, `restoreFromBackup`, dirty state | all stores, the database file |
| Repositories, services, ORM (`repo/`, `service/`, `orm/`) | none | insert, select, update, delete rows | the database connection |
| Database (`db/`) | connection, transaction flag, execution history | open, close, begin, commit, roll back | SQLite |
| Migrations (`repo/migration`) | the schema version in the file | upgrade from version to version at start | database |
| Backups (`db/backup_manager`) | the backup directory | back up at start, prune, list | file system, settings |
| Undo stack and commands (`commands/`) | commands and a cursor | push, undo, redo | stores, log manager, edit menu |
| Log manager, ring file, debug slots and viewer (`logging/`, `common/ring_file`, debug menu) | a level per category, the default level, `log_levels.json`; a buffer and a ring of files | log, rotate, flush, set and edit levels, show the file | settings, undo stack, the fetching thread |
| Settings (`settings/`) | parameters with defaults, limits and dirty flags, a JSON file | get, set, save, revert | nearly everything, by signals |
| Signals (`connections/`) | subscribers of an event | subscribe, notify, disconnect | nearly everything |
| Side bar, dialogs, views (`controller/`, `ui/`) | copies of what the stores held when they were opened; texts typed so far | create transactions and accounts, show tables | stores, undo stack |
| Finance (`finance/`) | none, but for the price cache | profit and loss, positions from trades, conversion of transactions | gateway, views |
| Price cache, client, gateway | quotes with their time, a session of Yahoo Finance | fetch, look up | HTTP |
| Update check | a timer, a worker, a copy of the settings | compare versions, ask, remember what was dismissed | network, settings |

What makes this hard:

* Everything a user creates lives under a *temporary id* until a save gives it a
  row id. Other pending entries hold temporary ids, in three different roles
  (account, position, instrument), and every one of them has to be rewritten at
  the right moment of a save.
* A save is a sequence of insertions without a transaction around it. The
  process may die after each. One transaction of the user is a batch of rows in
  one transaction of the file, and nested `Transaction` objects decide where that
  one begins and ends.
* Dialogs are not modal. What they hold was read before a save, an undo or a
  restore that happens while they are open, and their buttons are recomputed on
  some of the signals of some of their fields.
* A restore replaces the file under the running program.
* An undo may fail after the stack has moved its cursor.
* Prices come from a worker thread, by an event that may be overtaken; what they
  are shown on was copied when an account was selected. The same thread logs
  through the ring file of the main thread, without a lock.
* An upgrade replays the history of the schema on files of every age.
* A start backs up and prunes a directory; copies and removals fail, processes
  die, the clock that names the files is set back.
* The preferences dialog edits the running settings in place and takes them back
  when it is cancelled, while the update check saves a copy of its own.
* A position is folded from its trades in fixed-point numbers that are cut
  towards zero; what is booked has to come back through rows, drafts and domain
  objects as it was entered.

What makes each part correct: a pending reference can always be resolved by the
rest of the save that will resolve it; a save neither loses nor repeats; caches
equal the file; the file sees whole batches; uniqueness survives interruption; the
cursor of the stack and the state of the program agree; a month that had a backup
keeps one; an upgrade is all or nothing; what is saved of the settings stays saved
and what is cancelled is undone; log lines keep their order; what can be sent from
a form is what it shows; profit and loss are those of a reckoning over all trades;
a notification reaches who was subscribed.

## Modules

| Module | What it is |
|---|---|
| `StoreContainer` | the stores, the database and the save, in one state machine |
| `MCStoreContainer` | its small instances |
| `StoreContainerMirror` | the inductive invariant behind the agreement of caches and file |
| `StoreContainerProofs` | type correctness, the two inductive invariants and what follows from them |
| `ProfileStore` | signals, the entries of a store with their states, and the store of the profiles, as operators |
| `Composites` | composite commands, the profile commands, and the entry that ensures a profile, as operators |
| `LogCategoryTree` | the tree of log categories and the model that filters it, as operators |
| `UndoStack` | undo stack, edit menu, debug dialog, log manager with its operators, and the accounts a command creates |
| `MCUndoStack`, `UndoStackProofs` | its instance (with the operator modules above) and its proofs |
| `RetentionPolicy` | which backups the tiered policy keeps, as operators |
| `Retention` | the abstract specification of the backups: a policy applied at once |
| `BackupRetention` | the backups step by step; refines `Retention` |
| `MCBackupRetention` | its instances |
| `Schema` | the tables of today and the statements of the fifteen versions, as operators |
| `Upgrade` | the abstract specification of an upgrade: all at once, and nothing is lost |
| `Migration` | the files of releases, start, upgrade, failure, death, bookings and restores; refines `Upgrade` |
| `MCMigration` | the rows of the files that releases left |
| `FileProofs` | the proofs about the files beside each other: `BackupRetention` and `Migration` |
| `QuoteBoard` | the abstract specification of the prices: what is posted are all the answers to one round of questions, and nothing else |
| `PriceFeed` | timer, worker, cache, account view and user; refines `QuoteBoard` |
| `MCPriceFeed` | its instance |
| `QuoteSource` | the session of Yahoo Finance and what is made of its answers, as operators |
| `Parameters` | the kinds of parameters, the sections and the pages of the settings, as operators |
| `Preferences` | the running settings, the file, the dialog and the update check, over starts and releases |
| `MCPreferences`, `PreferencesProofs` | its instance and its proofs |
| `PositionMath` | the arithmetic of one position, as operators |
| `Pnl`, `MCPnl` | the fold over the trades of a position, and its instance |
| `PositionProofs` | the proofs about positions and their prices: `Pnl` and `PriceFeed` |
| `Drafts` | drafts, domain objects and rows, and how one becomes another, as operators |
| `TransactionTables` | the tables of transactions and positions: filters, groups, cells, sorting, selection, as operators |
| `Ledger` | bookings through the three forms, the rows, and the way back to overview and positions |
| `MCLedger`, `LedgerProofs` | its instance (with `TransactionTables`) and its proofs |
| `AtomicBatches` | the abstract specification of the file: rows come in whole batches |
| `Connection` | connection, `Transaction` objects and engine under the insertions; refines `AtomicBatches` |
| `Query` | conditions, the SQL text and the bindings they become, and what SQL reads in it, as operators |
| `Repositories` | the selections over the rows of a connection, and the filters of the stores |
| `MCRepositories`, `ConnectionProofs` | the instance of both, and the proofs about `Connection` |
| `LogFiles` | ring file, two logging threads, starts, deaths and the viewer |
| `EntryForms` | the dialogs of transactions, stocks and accounts |
| `MCEntryForms` | its instance |
| `LogAndFormProofs` | the proofs about `LogFiles` and `EntryForms` |

Three modules of proofs speak of two components that have nothing to do with each
other. So that both can be extended, the specification of the second is named after it:
`MigrationSpec`, `FeedSpec`, `FormsSpec`.

A definition that no other one uses, marked *Mutant*, is the definition after it
with a plausible defect. `PROJECT.json` says which property each of them breaks.

The modules of operators have no behaviour of their own. Their assumptions
state what the operators are for; TLC evaluates them over bounded inputs in every
run of a module that extends them. They are listed under *What the assumptions
check*.

### StoreContainer

One variable per cache, per remap and per id sequence, one record `db` for the
file. A table from which nothing is deleted is a sequence, so that its row ids are
`1..Len`; a table of which only the number of rows matters is that number. `pc` is
the store a running save has reached. An insertion of a save is one action, and
`Die` may come between any two of them; everything else the program does is one
action per handler, because the program is single-threaded and no handler returns
to the event loop in the middle. `dialog` is what an open transaction form was
filled with. The form may be submitted any time later, which is how stale ids get
into new transactions. `fault` records why the program last ended on its own: an
exception from a slot reaches `MolarTrackerApplication::notify`, which shows it and
exits.

Updates and deletions of accounts and transactions, watchlists and the states
Modified and Deleted are not in this module. Nor are rows that an upgrade creates.

### UndoStack

`entries` and `cursor` are the members of `commands::UndoStack`. `menuUndo` and
`menuRedo` are what the edit menu shows; they change only when the stack signals.
Two kinds of command are pushed: the creation of an account, whose undo always
fails, and an update of the debug flags, which also may rewrite
`log_levels.json`. The composite that ensures a profile is at the bottom and is
disabled. The debug dialog is a snapshot (`reference`) and an edit (`current`); it
stays open across undo, redo and changes of the default level.

### ProfileStore and Composites

`ProfileStore` has the base of all stores as operators on a record: entries with their
states, what subscribers were told (`said`), the flag behind the title (`maybe`)
and the remap of a commit. On it are the operations of `ProfileStore`, the one
store whose entries can be removed and come back. A removal that reaches a commit
erases from the vector the loop goes over, which is undefined; `CommitEntry` models
one such step, `Commit` only commits without it. The program makes no other: a
profile is removed only when a composite that added it is taken back.

`Composites` has `Commands` as a list that is run until one command fails and then taken
back, the three commands on profiles, and what `EnsureProfileController` puts into
its one entry.

### BackupRetention

A backup is named by the wall clock. `BackUp` copies and computes what is to go;
`Remove` takes the files away one by one, newest first, as the loop does;
`RemoveThrows` and `End` cut it off; `BackUpThrows` fails before it prunes. A copy
may fail unseen and leave an empty file (`hollow`), because the result of
`sqlite3_backup_step` is not read. The calendar is a constant: any numbering of
weeks and months in their order.

`Retention` says what this amounts to: a backup arrives and the policy is applied
to all that is kept. `BackupRetention` implements it under the mapping in
`CutsLeaveNoTrace`, which reads the directory as what a completed prune would
leave of it, and exactly as it is once a prune was completed.

### Migration

A database is a function from the names of its tables to records of columns,
foreign keys, unique groups and rows; a row keeps the values that a step looks at.
Each of `V1` to `V15` is the list of single migrations that the constructor of
`Migrations` builds, and `Applied` says what one does. As in the code, tables
are created from the models *of today*; columns that a later version adds are then
found present. A step that SQLite would reject is not `Allowed`: a missing table, a
unique group or a foreign key that the rows break. The pragma that is to switch
foreign keys off is a no-op inside the transaction of the upgrade, so the keys
stay on and dropping a table deletes the rows that refer to it, if the key says so.
The cascade is one level deep, which is exact for these tables.

`Migrate` applies one single migration to `work`, what the open transaction has
made of the database; `Commit` writes version and tables at once; `Refuse` is an
exception, `Ends` the death or the end of the process. A start may or may not have
made its backup, since that can fail or be switched off.

The files that earlier releases left (`Origins`) are none, version 0 (up to 0.0.3), 5
(0.0.4 to 0.1.0), 10 (0.2) and 15 (0.3), which follows from the groups of versions in
`migration.cpp` and from the changelogs. Their tables (`BareAt`) are deduced from the
models of today, less what later versions add and plus what they drop; `IsReleased`
says what rows may be in them, and `MCMigration` fills some in. Version 6 discards the
transactions of older files, and so does the model. Not modelled: files of a version
no release had, and files of a newer program, whose `user_version` is set down to 15.

`Plan` is the upgrade of each origin without its rows: the tables before every one of
its single migrations and in the end. No constant and no variable occurs in it, so TLC
computes it entirely, and what the assumptions say of it is the whole fact, not a
bounded instance of one. The proofs add the rows.

### PriceFeed

`fetch` is the future that `QFutureWatcher` watches. It is running in the worker,
finished while the event that says so waits in the queue, or idle. `isRunning` is
false for a finished one, so `FetchPrices` may replace it and lose its answers;
Qt takes the waiting event out of the queue. `Answer` gives prices for any part of
what was asked. `Publish` and `Discard` are `_onPricesFetched` on either side of its
gate; `Publish` includes the notification and everything `AccountController` and
the view do with it. `details` are the copies that the controller keeps, `view` is
what the detail view shows; the rows of a hidden table are left out. A price of
another currency than the account (`Foreign`) throws, which ends the program.

The tickers at the start are those of every stock in the database, because
`_initTickers` runs before a profile is active, finds no position, and an empty set
of ids means no filter. An option is looked up by its own id, which is no stock's:
it collects nothing, and a deposit, which has no instrument, collects every stock.

Quotes are drawn from a set of prices; their time and the amounts that are computed
from them are left out, as are HTTP and the renaming of ids by a save, after which
the view goes on with the ids it has.

### Preferences and Parameters

`Parameters` declares what the code declares: the kinds of parameters with what each
keeps, clamps, rejects, writes and reads back, which parameters the eight
sections own, and the pages they appear on. `Preferences` picks one parameter of each
kind of behaviour: `main` are those of the running program, `copy` those that the
update check loaded at the start, `file` the settings file (none, torn, or a value
for each). `dialog` holds the snapshot that a cancel restores, the label and the
marked rows. Release, deaths in a save, an unreadable file, ticks of the timer,
the worker and the queue of update dialogs are actions; setters notify in the
action that sets.

### PositionMath and Pnl

`PositionMath` has the products and quotients of `Cash` and `Quantity` as cuts towards
zero at a unit `Factor`, and one operator for each kind of event of `pnl.cpp`. `Pnl` is the
fold: an action for each kind of event, with ghosts (`net`, `spent`, `taken`) that
reckon without the fold, and `cuts`, the number of times something was cut off.
`peak` is the most that was ever open. `beyond` says that more was closed than was
open, which the code does not refuse.

### Ledger, Drafts and TransactionTables

`Drafts` has every draft, domain object and row as a record, with the conversions
between them; where a conversion loses something, so does the operator. `Ledger` books
through the three forms of the user interface: `cache` is the transaction store,
`db` the rows, `options` and `dbOptions` the contracts, which are saved before the
transactions, `booked` the history of what was entered. `Restart` ends the program
anywhere in a save and reads the file. What is shown are the transactions of the store
and the rows that the store does not have (`Known`, by their places). The overview and
the positions of an account are operators over these; they are `Readable` only if every transaction can
be converted, since one that cannot makes the whole list fail.
`TransactionTables` says what the tables make of it: which cell shows what, with the
texts of amounts, what filters and groups keep, what a click on a header sorts by.

### Connection, Query and Repositories

A call of a repository is a list of units, a unit is a scope of a `Transaction` object
with the rows it inserts. `scopes` are the objects alive, `started` is the flag of
`Database`, `inTx` what the engine thinks; they part when the engine rolls back on its
own or a roll back fails. `work` is what the connection sees, `rows` what is
committed. Each insertion is an action; BEGIN and COMMIT may find the file busy.
`Connection` implements `AtomicBatches`, which knows only whole batches.

`Query` builds conditions as `filter::Node` does, turns them into tokens and bindings
as the ORM does, and reads the tokens by the precedences of SQL. `Repositories` runs the
queries of the repositories over `work`, and beside it the predicate that the
transaction store applies to what it holds itself.

### LogFiles and LogCategoryTree

`LogManager::log` takes no lock. `pc` is where each of the two threads is inside it: the
check of the limit, close, the removals and renamings of a rotation one by one, reopen,
write, flush. `ring` are the files by their slots, `stream` the one it is open on, which
a renaming by the other thread moves and a removal leaves without a name. The stream has
a buffer of its own that spills, dies with the process, or is flushed for warnings. If
both threads rotate, one may remove what the other has just renamed, and open a stream
that is open already, which then has failed for good (`raced` says that they met).
`viewer` is what the log viewer shows, with its timer and its buttons.

`_file.flush()`, `close()`, `open()` and `<<` are calls on one `std::ofstream` without a
lock, and two that overlap are a data race. `Call` is such a call: whole if the other
thread is in none, and otherwise, from then on, anything (`torn`). What the stream holds,
is open on and counts is lost to the model then, and the file it was open on, and the
current one, are `Garbled`: their content may be anything, lines twice included, so
nothing is said of it. The model takes a thread to be in a call from the check that
precedes it, so it counts as overlapping more than what overlaps. After such a race a rotation
still goes on, removing and renaming files, garbled ones among them, and what it does to
the others is said. Two things are left out: a renaming that fails with the file there, for which
the code copies and removes, and a race whose write ends up in a file the process has
open for something else. A failing disk is left out too.

`LogCategoryTree` has the tree of dotted names and what *Show only modified* leaves of
it.

### EntryForms and QuoteSource

One form of each kind, of which one run has any: its rows with text and decimals, the
accounts and reference accounts offered, the ticker, and the Add button. `EditRow` and
the other actions recompute the button exactly where the code connects a signal. A form
that is closed keeps its rows; opening it again fills in accounts anew. `lookup` is
the window that finds a stock; it stays open beside the form.

A text is what the row and the parser tell apart of it: digits in the form a row
accepts, with a number before the point and digits behind it; what only the parser reads,
such as "-5"; nothing; or noise. `microUnitsFromString` throws for noise and for digits
before the point beyond an `int64_t`, out of a slot, which ends the program (`ended`).
Digits that fit are multiplied by the power of ten of the row, and nobody looks at that
product: `GetAmount` wraps it around. Signed overflow is undefined in C++; wrapping is
what the multiplication of the machine does, and the model's one choice. The amounts of
a draft are those of the rows; the sign that a withdrawal and the fees get after that is
in `Drafts`.

`QuoteSource` is what a look-up asks and what comes of each answer.

## Runs

| Run | Properties | Shows |
|---|---|---|
| `session` | `Consistent`, `NoOrphans`, `SaveConserves`, `StaysBookable`, `SaveSucceeds` | one process, two tickers, two transactions, a dialog, saves and restores in every order |
| `restarts` | `CacheMirrorsDb`, `DbUnique`, `CashHasExternal` | two processes on one file, the first cut off at any insertion |
| `undo_stack` | `LevelsFollowStack`, `ReloadReproduces` | a stack of four, one category, two levels, restarts and restores |
| `backups` | `MonthKept`, `CopySurvives`, `CutsLeaveNoTrace` | seven times in four weeks and three months |
| `upgrades` | `NoHalfUpgrade`, `RunsOnToday`, `RefusedOnlyByClash`, `UpgradesAtOnce` | files of every release, two backups, a booked transaction, deaths between any two steps |
| `prices` | `ShownPricesAreCached`, `PostsWholeBatches`, `ShownIsPriced` | two tickers, two prices, three accounts, stocks and an option, one of another currency |
| `settings` | `SavedIsKept`, `CancelRestores`, `UnsavedIsShown` | every kind of parameter, edits, cancels, saves and updates, over starts of two releases, with deaths in a save |
| `pnl` | `QuantityIsNet`, `MarkedToMarket`, `PremiumsBalance`, `ClosedIsRealized` | six trades, long and short, calls and puts, rolls and exercises, at three marks |
| `ledger` | `ReadsBack`, `PositionsAreShown`, `PositionsAddUp` | three bookings of any kind in two currencies, saves, cut-off saves and restarts |
| `sql` | `RowsComeWhole`, `ReturnedIsDurable`, `SavedReadsAsHeld`, `PositionsOfTrades` | accounts, positions and two transactions of any kind, a busy engine, refused rows, deaths, and every filter over what is there |
| `logs` | `InOrder`, `UrgentOnDisk`, `ViewerCatchesUp` | five lines of two threads in every interleaving, calls on the stream that overlap, two starts, a viewer |
| `forms` | `EnabledIsPriced`, `DraftIsShown`, `AddedIsDisplayed` | a form of each kind, opened, edited, sent and opened again, with accounts and stocks created beside it |

The type invariants of the modules with theorems (`session`, `restarts`,
`undo_stack`, `backups`, `upgrades`, `prices`, `pnl`, `ledger`, `sql`, `logs`) are proved
and not run.
`NoInternalFault` and `PendingResolves` are conjuncts of `Consistent`, which `session` checks.

Bounds, and why they are enough:

* `MaxTemp` bounds the temporary ids each sequence hands out in a process, and
  with them the entries. Every defect of a remap needs at most two entries of the
  kinds involved: one that holds an id and one that owns it; `session` has two of
  each, three accounts (a cash account, the external account that comes with it,
  a security account) and three instrument ids, so that an option, its underlying
  and another stock are pending together.
* `MaxStarts = 2` in `restarts`: what a cut-off save leaves is read by the next
  start; a third start reads what a second one left, which is of the same shape.
* `MaxRows` bounds transactions, saved or not.
* `MaxEntries = 4`: the bottom entry and three commands, so that a failed undo,
  a truncation and an update fit on one stack.
* `Horizon = 6`: every tier is full and files go; with a fall of the clock, names
  are reused and come out of order.
* `MaxBackups = 2` and one booked transaction in `upgrades`: the version before and
  the version after an upgrade are both in the directory, and a file holds rows of
  every table whose rows a step moves. The versions are all there are.
* `prices` has no bound but its sets. Two tickers are what an incomplete answer and
  a grown set of tickers need, two prices what a stale one needs, and two security
  accounts what a stale copy needs.
* `MaxEdits = 2` bounds the edits of one opening of the preferences: one that is
  taken back by another and one that stays. Three widths are below, at and above
  what the limits allow; of two actions one has a stroke, so that shortcuts
  collide.
* `MaxTrades = 6` in `pnl`: open, add, close a part, turn around, close, and open
  again. `Factor = 3` makes most products leave something to cut off.
* `MaxBookings = 3` in `ledger`: two trades of one position and one of another
  account, or a contract before and after its trade. Every number is divisible by
  what the arithmetic divides it by, so that sums are exact; `pnl` has what is cut.
* `MCMaxOf` in `sql` leaves room for two transactions, which is what a filter needs to
  take one and leave one; the accounts on them are all there are. There are two
  instruments, so that an option is inserted after the stock it names. There is no room
  for a watchlist, which takes the steps of an account.
* `Capacity = 2`, `MaxFiles = 3`, `MaxLines = 5` in `logs`: a file has lines in an order, a
  line may wait behind another, and two rotations move a file twice. Six lines fit, so
  a file falls out of the ring only where threads that met have rotated once too often;
  with `MaxFiles = 2`, which passes too, the fifth line drops the oldest file. `MaxStarts = 2`, for a start that takes up what a death left. `TakesUpRaced = FALSE`
  keeps a start from taking up what threads that met have left, which halves the states;
  the theorems hold with and without. One file only (`MaxFiles = 1`) has a
  branch of its own, in the model and the theorems; the run has three.
* `forms` has, for cash, a text for each way a number can be wrong: empty, malformed,
  negative, zero, one that rounds to zero, one that wraps around to zero, to a negative
  and to another positive amount, and one that throws. `Base = 2` and `Half = 512` make
  the decimals and the integers small, in the proportion that all of these fit. The
  forms of stocks and options, which have more rows, have some of them.

Deadlock is checked where the system has no end. The runs of the save pipeline
turn it off, because with every bound reached, or after the last permitted start,
nothing is left to do; so do `pnl` and `logs` for their bounds, and `prices` and
`forms`, because an exception ends the program.

### What the assumptions check

TLC evaluates these with the runs; they are about operators, over bounded inputs. The
first three are closed formulas over everything there is; the proofs of `FileProofs`
use them.

* `Migration` (`upgrades`): every single migration of every upgrade finds the tables it
  needs, in the order it needs them, and the last leaves the tables of today
  (`PlanAssumption`); of these only the newest have what a reload reads
  (`ReloadAssumption`) and what a booking writes (`TodayAssumption`).
* `ProfileStore` (run `undo_stack`; every history of five calls): look-ups agree
  (`LookupsAgree`), names stay unique (`NamesStayUnique`), the title never hides a change
  (`DirtIsAnnounced`), the active profile exists (`ActiveIsShown`), a commit saves
  everything and tells of it once (`CommitSavesAndTellsOnce`), a profile entered again
  keeps its row (`RestoredKeepsItsRow`), changes are told but one
  (`ChangesAreToldButOne`), a reload keeps the active id (`ReloadKeepsTheActive`), what the
  commit of a removal does to its neighbour (`RemovalCleansTheNext`); each
  subscriber is held by one connection (`EachIsHeldOnce`) and one dropped during a
  notification is still called (`DroppedAreCalledOnceMore`).
* `Composites` (`undo_stack`; lists of up to three commands): a failing composite is taken
  back (`AllOrNothing`) unless the first activation of a profile is in it
  (`FirstActivationStays`), undo and redo are inverse (`UndoneAndRedone`), the entry that
  ensures a profile does and stays disabled (`EnsuredIsActive`).
* `LogCategoryTree` (`undo_stack`): the tree has a node for every name and prefix, under
  the right parent, and rows and indices agree (`TreeFollowsNames`).
* `Parameters` (`settings`): every parameter is listed by its section
  (`NothingForgotten`), has a default it would take (`DefaultsAreTaken`), comes back from the
  file (`SavedComesBack`, `VectorsComeBack`; not so shortcuts, `MapsStayAsTheyAre`), keeps
  its limits (`LimitsHold`), and has a page (`EveryPageIsReached`); intervals of timers
  come out positive (`TimerPauses`).
* `Drafts` (`ledger`): accounts survive the way to rows and drafts and back
  (`AccountsComeBack`, `ExternalOrNot`), the rows of the overview say what the forms said
  (`RowsSayWhatFormsSaid`), a leg keeps its position (`LegsKeepThePosition`), and a price
  changes only the mark (`PricesChangeOnlyTheMark`).
* `TransactionTables` (`ledger`): filters commute and add up (`FiltersAddUp`), groups are a
  partition (`GroupsArePartition`), sorting and searching lose no row (`SortingKeepsAll`,
  `ViewsShowTheFound`), texts can be read back where they can (`FullTextReadsBack`,
  `TwoDecimalsReadBack`), names of contracts may be shared (`NamesMayBeShared`), every
  column has a cell (`EveryColumnHasACell`), a refresh covers the columns of prices
  (`RefreshCoversPrices`), and what is offered can be chosen (`OfferedIsTaken`,
  `UnknownAccountsAreBlank`).
* `QuoteSource` through `EntryForms` (`forms`): a look-up succeeds only with a session, a
  quote and a known currency (`SessionAssumption`).

## Fairness

`FairSpec` of `StoreContainer` asks weak fairness of the steps of a running save.
`StoreContainer::commit` is one synchronous call on the only thread: once begun it
goes on until it returns, throws, or the process dies. Nothing is assumed of the
user. `SaveSucceeds` needs this and no more.

`FairSpec` of `PriceFeed` asks weak fairness of the timer, which runs as long as the
program does, and strong fairness of two steps that depend on others: that the
network answers every ticker again and again, and that again and again the event
of a complete answer is delivered before the next tick or booking. The first is an
assumption on the network; without it one ticker that fails for good holds back
all prices. The second holds of an event loop that delivers an event at once and a
timer of a minute; the code does not enforce it. `ShownIsPriced` needs all three.

`Spec` of `LogFiles` asks weak fairness of the steps of each thread inside `log()`, which
is a call that returns, and of the timer of the viewer, which runs while it is shown
with auto reload on. Nothing is assumed of who logs, nor of the user.
`ViewerCatchesUp` needs both.

## Proofs

TLAPS checks the following, for every value of the constants that the named
assumptions allow. Each invariant was first checked by TLC on the instance of a run.

*Stores and file.* `TypeCorrect` is `[]TypeOK`. `StoresConsistent` is `[]Consistent`.
`PendingResolves` alone is not inductive: a step of a save preserves it only because
no store that the save has passed is still pending (`StagesInOrder`), because the two
instrument maps never share a key (`MapsDisjoint`, which follows from the sequence the
stores share, `TempsInRange`), and because what is Clean names rows only
(`CleanSound`). A restore brings back an older file, so each file ever backed up has
to be sound (`FileSound`). `Consistent` is the conjunction. `SaveNeverFaults` and
`ReferencesResolve` follow from it.

That caches and file agree needs a second invariant, `Mirror` of `StoreContainerMirror`,
with a side for accounts, for instruments and for trades. Each side says that what a
cache holds as saved is the row of its id and each row of the active profile is in the
cache (`AccountsMirrored`), that nothing occurs twice in a cache or in a file
(`AccountsUnique`, `AccountFile`), and, until a save was cut off, that what is booked
together stays together (`Paired`, `OwnedFile`, `Traded`). Each needs the others: a row
that an insertion adds is no double because the cache has one entry like it and every
row is in the cache; the cache has one because it was filled from a file without doubles,
so every file ever backed up has to be one. `CacheAgreesWithFile`, `FileHasNoDoubles`,
`FileHasNoOrphans` and `ExternalIsKnown` follow. The action properties `SaveKeepsCount`
(`SaveConserves`) and `BookableStays` (`StaysBookable`) are proved step by step from
`Consistent` and `Mirror`.

*Undo stack.* `UndoTypeCorrect`, and `LevelsFollow`: `[]LevelsFollowStack`. The
invariant is about every entry, also those above the cursor, so that redo and undo of
any of them preserve it. The lemmas about `LevelsAfter` are stated over any sequence and
used on the entries before and after a step. `ReloadsReproduce` (`ReloadReproduces`):
whenever `log_levels.json` is written, a start that reads it gets the levels of now.

*Backups.* `BackupTypeCorrect`, and `MonthsAreKept` from the lemma that the policy keeps
a backup of every month it finds, which needs a newest element of a set of times: the
well-foundedness of the natural numbers gives it. The policy is confluent: what it
keeps of what it kept is the same (`KeepStable`), and so is what it keeps when some of
the doomed files are gone already (`KeepAbsorbs`). From these, `CutsRefineRetention`:
prunes that are cut off and taken up later amount to the abstract `Retention`. The
policy must not change between starts: with two of them, the files that a cut-off prune of
one has left need not be what a prune of the other keeps. For the same reason
`CompleteCopySurvives` asks that all policies have the same tiers. A prune
removes nothing before the tiers are full (`TiersFull`), so once it removes something
more copies remain than may be empty; the invariant (`PruneLeavesTiers`) says of a prune
that is under way how much it will leave.

*Upgrades.* `MigrationTypeCorrect`, `NoHalfUpgrades`, `RunsOnTodaysSchema` (`RunsOnToday`),
`OnlyAClashRefuses` (`RefusedOnlyByClash`) and `UpgradesAreAtomic`, the refinement of
`Upgrade`, for any rows in the files that releases may have left and any number of bookings
and backups. `ReleasesAssumption` asks of such a file that its tables are those of its
release, that its rows fit their columns, keep the unique groups and the foreign keys,
and have numbers as ids, no two the same in a table, and that it holds no type "Trade"
once version 12 has renamed that.

What forty single migrations make of a schema is a computation (`PlanAssumption`); what
they do to rows has an argument. The invariant (`UpgradeInv`) says that every file, in use or
copied, is one that fits its version (`FileFits`), that the program runs on a file of today
only, and of an upgrade under way that its tables are those of the plan and that its rows
follow the file it began with (`InUpgrade`): a table made since, or made again, is empty; any
other has its rows; accounts are those of before, or of before with their names told
apart; transactions are trades no more once version 12 was there. `StepKeepsRows` proves
that of each kind of step. A table whose rows are removed is one that only fresh, and so
empty, tables refer to, which is why no key cascades; the account table is the
exception, and it is dropped only after it was copied. `StepRefused` proves that a step
keeps unique groups and foreign keys but for the names that version 2 makes, and
`LeavesReady` that the next one finds the copy it needs (`ReadyFor`). Nothing is asked of the
constraints in a file of today, which has no step left. A restore is
where `RunsOnToday` could fail: the program runs on after it only if its stores could be
reloaded, and only a file of today's version lets them (`ReloadAssumption`).

*Prices.* `FeedTypeCorrect`, `WholeBatches`, `PricesAreCached`: `[]TypeOK`, the refinement
of `QuoteBoard`, and `[]ShownPricesAreCached`, for any tickers, accounts and files. The
gate of the code counts; the proof needs that the count belongs to the fetch that is
watched (`ExpectsAnswers`), that answers are among the questions, and that questions
only grow, so that an update replaces every quote. For the view, a row has a price
only if its ticker has a quote (`PricesHaveQuotes`), so an update leaves no old price,
and a view with nobody to refresh has no rows (`RowsHaveAccount`).

*Settings.* `SettingsTypeCorrect`, `SavedStaysSaved`, `UnsavedIsAlwaysShown` and
`CancelGoesBack`, for any names, actions, strokes, widths and releases. `SavedIsKept`
compares the file with the parameters while nothing is unsaved, and that is not
inductive: a parameter may be edited and edited back. `FileHasBase` compares the file
with what each parameter was when it was last loaded or saved, whatever it is now.
`UnsavedIsShown` is inductive with it and with the dialog being open only while the
program runs.

*Positions.* `PositionTypeCorrect`, `OpenQuantityIsNet`, `PremiumsAreKept`: `[]TypeOK`,
`[]QuantityIsNet` and `[]PremiumsBalance` of the fold, for any unit, trades and number
of them. The type needs that no quotient has divisor zero, which each event guards in
its own way; the premiums balance to the unit although a part of them is a rounded
quotient, because what is moved to the realized ones is what is taken from the others.

`ProfitIsMarked` and `ClosedIsSettled` bound what cutting towards zero costs. Two facts
carry them: two parts that are cut differ from their sum by one unit at most (`CutSum`),
and the share of all that is open leaves of an amount at most a unit for each whole share,
because the average is a whole number of units (`WholeShare`). So in `StockKept` realized
profit, cost and money spent differ by one unit for each sale, however many there
are, while the cost left over when nothing is held does not add up: the next average
takes it in. `LegsKept` says the same of the legs of an option position together. The
bounds of `MarkedToMarket` and `ClosedIsRealized` came out of these proofs: a smaller one,
which had only counted the parts closed, held of the instance and fails of 31 shares of a
tenth. `ClosedIsSettled` assumes that option trades have a quantity
(`QuantitiesArePositive`), which the form asks for: a premium for no contracts would
never be realized.

*Connection.* `ConnectionConsistent`: `[]Consistent`, the conjunction of its type, of the
agreement of the Transaction objects, the flag and the engine (`InStep`), of what is not
committed being the running batch (`Uncommitted`), and of that batch being a prefix of
what its unit inserts (`BatchOfUnit`). From it follow `ReturnedStays`,
`[]ReturnedIsDurable`, and `BatchesComeWhole`, the refinement of `AtomicBatches`: only a
commit changes the file, and at a commit the prefix is the whole.

*Ledger.* `BookingsReadBack` and `PositionsStayShown`: `[]ReadsBack` and
`[]PositionsAreShown`, for any accounts, currencies, tickers, contracts and numbers and any
number of bookings. That a draft survives the double entry and the way back is a fact
about each kind of draft (`CashComesBack`, `TradeComesBack`) which needs that the external
account is none of the user's and that a withdrawal keeps its sign. The invariant then
says where each booking is (`InTurn`): the file holds the first ones, in turn; the store
the last ones, of which the first may be in the file too, and each has its place as its id.
So the places that are known are the bookings, one to one, wherever a save was cut off
(`PlacesAreBookings`), and a save inserts each row where it was booked (`RowsInTurn`).
`PositionsAreShown` is not inductive by itself, since a position that cannot be seen now
may be seen later: `Joined` says of all that was booked that a position holds one kind,
instrument and account, and that no position is used before its first booking, which is
why the one that a new booking makes is new.

*Log files.* `LogStaysInOrder` and `UrgentLinesAreKept`: `[]InOrder` and `[]UrgentOnDisk`,
for any limit, number of files (one included), lines and starts. The invariant (`LogInv`)
has three parts. `AnyRace` holds of every interleaving: the lines come in order from file
to file and those held back come after them (`FilesInOrder`), and no file newer than the
one the stream is open on has any (`NothingNewer`). The second is what keeps a stream in
order that is open on a file the other thread has renamed: what it delivers there is
newer than that file and nothing is newer still. Files are moved whole and removed, and
garbled ones say nothing, so a removal or renaming in any order keeps both. `UrgentWaits`
says that an urgent line in the buffer has a thread that is about to flush it, also while
the other thread opens, closes and rotates. `NotMet` holds until the threads meet: one of
them is inside, no file is garbled, every file but the current one is full or the
oldest, and the files, with what is held back, are the newest lines without a gap, in
each state of a rotation with the hole that is being moved (`Shifting`). The three need
one another only in part: a step of a thread that is alone finds no call under way
(`Undisturbed`) and so does what it says.

*Forms.* `EnabledStaysPriced`, `DraftsAreShown`, `AddedWasDisplayed`: `[]EnabledIsPriced`,
`[]DraftIsShown` and the action property `AddedIsDisplayed`, for any texts, accounts and
stocks. The button is recomputed where the code connects a signal and nowhere else; the
invariant (`FormsInv`) says of a form that is closed, too, what its rows and its
account are, because it is opened again with them, and of the look-up that what can be
accepted is on display. A number of decimals only grows once a row was edited, so what
was a price then is one now. A price that does not fit is read by the button and by the
draft with the same decimals, and wraps to the same amount for both, so it is not zero,
though it need not be positive.

Only model-checked:

* Liveness: `SaveSucceeds`, `ShownIsPriced`, `ViewerCatchesUp`.
* The schema in an upgrade, without rows: computed by TLC for every origin there is.
* `SavedReadsAsHeld` and `PositionsOfTrades`: the text of a query and what SQL reads in it
  are recursive operators, out of the prover's reach.
* `PositionsAddUp`: its sums are folds over a position's trades in any order, so it is
  an induction over data. What one event adds is proved in `OpenQuantityIsNet`.
* What the assumptions above say of operators, for the inputs they name.

## What the sources say and the code does not do

Seen while modelling. The models do what the code does; none of the properties
above depends on the other reading. Paths are below `src/src`.

Stores, save and restore:

* A transaction entered with an account id that a save has retired is accepted by
  the store and the next save fails on the foreign key and ends the program; the
  session keeps temporary account ids next to the saved ones
  (`transaction_store.cpp:99`, `account_store.cpp:207`).
* The external account of a deposit is looked up by its kind, whatever its currency
  (`accounts.cpp:67`). The price of a stock in another currency than its account ends
  the program (`account_controller.cpp:193`).
* A restore reloads "all stores so they reflect the restored data" but keeps a
  profile active that the file may not have (`store_container.cpp:353`); restoring a
  backup made before an upgrade ends the program, though `CHANGELOG.md:45` offers it.
* A new profile that is taken back is removed without a notification, and the title goes
  on to say that there is something to save (`base_store.tpp:360`). Of the three
  deletion policies two do the same (`base_store.hpp:73`). The commit of a removed
  entry writes to the entry that moved into its place (`base_store.tpp:477`).
* An option contract is found again by a name without its size, so a second trade of one
  is refused; after a save that was cut off between contract and trade it is refused for
  good (`option.cpp:98`). Strikes 1.05 and 1500 share a name.
* `Commands::redo` promises all or nothing; the first activation of a profile cannot be
  taken back, and what was done before it stays (`set_active_profile_command.cpp:34`).

Undo, debug slots, backups:

* `UndoStack::undo` returns on a failure after it moved the cursor and before it
  signals; the menu shows the old state (`undo_stack.cpp:66`), and an account creation
  whose undo failed counts as one to redo though it is in effect.
* The debug dialog is synchronised only when it is requested, though an undo may
  happen while it is open (`debug_menu_controller.cpp:72`); an undo of an update of the
  flags after a change of the default level takes categories nobody set off the
  default (`update_debug_flags_command.cpp:31`). *Show only modified* hides a modified
  category whose parent is not (`debug_slots_model.cpp:462`).
* The weekly tier keeps the oldest weeks (`backup_manager.cpp:103`), not the newest; after
  the clock was set back the prune of a start may remove the backup of that start
  (`backup_manager.cpp:210`).

Prices and positions:

* Selecting a cash account leaves `currentAccount`, "the currently selected account", as
  it was, so that the next prices switch the view back (`account_controller.cpp:273`).
* The tickers "based on the currently open positions" are those of every stock in the
  database, and one of them that cannot be fetched blocks all prices
  (`position_controller.cpp:135`). With no open position the gateway's filter names none
  and asks for every transaction.
* Closing a short realises (price - average) * closed, the wrong sign (`pnl.cpp:88`);
  closing one leg of several realises the premium of all. The user interface books
  neither.
* `getTransactions` warns that "not all" entries match when none does, and one
  transaction that cannot be converted makes the whole overview fail. A comment entered
  with a booking is dropped (`transaction_converter.cpp:118`).
* Errors of the session of Yahoo Finance are never reported; the request without one
  fails instead (`yf_client.cpp:140`).

Database:

* `addStock` and `addOption` insert their two rows in two transactions
  (`instrument_repo.cpp:234`). After a roll back of the engine, the destructor's ROLLBACK
  fails and the flag stays set (`transaction.cpp`); moving a `Database` or closing it does
  not reset the flag.
* The operators In, NotIn and Between of `orm` produce two placeholders and bind one
  value; nothing uses them. Nothing sets `closed_at`.

Settings:

* Shortcuts in the file are never loaded, because loading adds and adding a key that is
  there does nothing; a cancel does not take them back either
  (`settings_menu_controller.cpp:126`).
* The update check saves a copy that it made at the start over the file of today's
  settings (`SavedIsKept` states it as the one exception).
* Version, defaults and limits are read from the file and override the program's.
* The interval of the log viewer is a truncated product of doubles: from 1.001 s up some
  millisecond values come out one short, though the comment says a precision of 3
  ensures the conversion (`log_viewer_settings.cpp:47`).
* A rejected change of a vector notifies all the same; a cancel reverts without a
  notification.

Log files:

* Two threads that meet in the ring file may leave the stream failed, or race on it, and
  "on warning or error we want always to log" (`log_manager.cpp:262`) no longer holds of
  the file.
* `maxLogFiles` counts the files of one base name, and starts have different ones.
* The cleaner's documentation says that links are skipped; `is_regular_file` follows them.

Forms and tables:

* Quantity and fees are not watched: Add stays enabled with a quantity of zero, and
  disabled after a bad one was corrected, until another field changes
  (`stock_widget.cpp:455`). Opening a form again clears the account but not Add.
* Before an account is chosen there are two decimals: "0.001" becomes 0.00.
* "`std::from_chars` detects out-of-range for us" (`quantity.cpp:264`) is true of the digits
  before the point only. A price of 10000000000000 is valid and not zero, enables Add, and
  reaches the draft as a negative amount; other prices come out as another positive one.
  Digits beyond an `int64_t` throw in the slot that asks whether the row is zero.
* A row rejects "-5" and the parser reads it: in the fees, or in a quantity that is edited
  while Add is enabled, it is booked.
* `microUnitsToString` pads the fraction but does not cut it: with two decimals 12.05 is
  shown as "12.50000" (`quantity.cpp:322`). `Percentage::toString` always prints a plus.
* Dates are sorted and searched by their text. `refreshPrices` and `selectedRow` have no
  caller.
* A name of an account that is taken is only logged; its Cancel button is not connected.

## Not modelled, and why

* Windows, menus, delegates, style sheets and the tree of the side bar: presentation.
* The transfer of HTTP, PDF and help pages: input and output.
* The cleaner of the log files and the link to the newest one: file names and ages, at a
  start, before anything else runs.
* The text of JSON, of log lines and messages; of SQL, column definitions and the
  CREATE statements: modelled by what they do.
* Opening, closing and moving a `Database`, and its history of statements: no behaviour
  of the program depends on it after the start.
* Watchlists beyond their insertion; `TransactionMapper` and `TransactionDraft`: nothing
  calls them.
* Overflow of products of amounts, but for the scaling of what is typed into a form, and
  floating-point percentages.
* A data race on the stream of the log in detail: what it leaves is not said at all.
* Parsing of versions and paths.

## Plan

1. The columns and constraints of the ORM, and the history of statements.
2. Watchlists, once something uses them.
