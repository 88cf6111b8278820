------------------------------ MODULE UndoStack ------------------------------
(* The undo stack and what is pushed on it: commands::UndoStack with the    *)
(* edit menu that drives it, CreateAccountCommand, UpdateDebugFlagsCommand  *)
(* with the dialog that issues it, and the log manager and account store    *)
(* the two commands change.                                                 *)
EXTENDS Integers, Sequences

CONSTANTS
  Categories,      \* the registered log categories
  Levels,          \* the levels of config/logging_base.hpp
  Accounts,        \* the accounts a user may create (name and kind)
  DefaultLevels,   \* the default levels the settings are given
  Below,           \* the categories below a category, itself included
  MaxEntries       \* bound: entries the stack may hold

ASSUME UndoStackAssumption ==
  /\ DefaultLevels \subseteq Levels /\ DefaultLevels # {}
  /\ Below \in [Categories -> SUBSET Categories]
  /\ MaxEntries \in Nat \ {0}

-----------------------------------------------------------------------------
(* The log levels: one per category, a default level taken from the         *)
(* settings, and the file log_levels.json that keeps the levels that differ *)
(* from the default.                                                        *)

(* LogManager::saveOverrides: the file names the categories whose level is *)
(* not the default, with their level.                                      *)
Overrides(lv, dflt) ==
  [c \in {x \in Categories : lv[x] # dflt} |-> lv[c]]

(* LogManager::_initializeCategories: every category starts at the default *)
(* level, then loadOverrides applies what the file names.                  *)
Loaded(file, dflt) ==
  [c \in Categories |-> IF c \in DOMAIN file THEN file[c] ELSE dflt]

(* LogManager::setDefaultLogLevel: the categories at the old default move  *)
(* to the new one.                                                         *)
WithDefault(lv, old, new) ==
  [c \in Categories |-> IF lv[c] = old THEN new ELSE lv[c]]

-----------------------------------------------------------------------------
VARIABLES
  entries,         \* UndoStack::_commands
  cursor,          \* UndoStack::_cursor, entries below it are to be undone
  menuUndo,        \* the Undo action of the edit menu is enabled
  menuRedo,        \* the Redo action of the edit menu is enabled
  levels,          \* LogManager::_categories
  default,         \* LogManager::_defaultLogLevel
  overrides,       \* log_levels.json
  savedDefault,    \* the default level in the settings file
  dialog,          \* DebugSlotsDialog: its reference and current categories
  accounts,        \* the accounts in the account store
  file,            \* the accounts in the database
  backups,         \* the accounts in each backup made so far
  \* history
  startLevels,     \* the levels after the last start
  drifted          \* the default level was changed since the last start

stackV == <<entries, cursor>>
menu == <<menuUndo, menuRedo>>
logV == <<levels, default, overrides>>
storeV == <<accounts, file, backups>>
history == <<startLevels, drifted>>
vars == <<stackV, menu, logV, savedDefault, dialog, storeV, history>>

LevelMaps == [Categories -> Levels]

(* The composite of EnsureProfileController is at the bottom of the stack   *)
(* with undo and redo disabled; every other entry holds one command.        *)
Ensure == [kind |-> "ensure"]
Account(a) == [kind |-> "account", account |-> a]
Flags(old, new, persist) ==
  [kind |-> "flags", old |-> old, new |-> new, persist |-> persist]

Closed == [open |-> FALSE]
Opened(ref, cur) == [open |-> TRUE, reference |-> ref, current |-> cur]

(* MainController: the log manager is initialised from the settings and     *)
(* log_levels.json, the stores are read, then the profile is ensured.       *)
Init ==
  /\ entries = <<Ensure>> /\ cursor = 1 /\ menuUndo = TRUE /\ menuRedo = FALSE
  /\ savedDefault \in DefaultLevels /\ default = savedDefault
  /\ overrides = <<>>
  /\ levels = Loaded(overrides, default)
  /\ dialog = Closed
  /\ accounts = {} /\ file = {} /\ backups = {{}}
  /\ startLevels = levels /\ drifted = FALSE

-----------------------------------------------------------------------------
(* UndoStack::changed reaches EditMenuController::refresh. *)
Changed ==
  /\ menuUndo' = (cursor' > 0)
  /\ menuRedo' = (cursor' < Len(entries'))

(* Mutant: the entries above the cursor are kept behind the new one. *)
PushKeepingRedo(e) ==
  /\ cursor < MaxEntries
  /\ entries' = SubSeq(entries, 1, cursor) \o <<e>> \o SubSeq(entries, cursor + 1, Len(entries))
  /\ cursor' = cursor + 1
  /\ Changed

(* UndoStack::push drops the entries above the cursor. *)
Push(e) ==
  /\ cursor < MaxEntries
  /\ entries' = Append(SubSeq(entries, 1, cursor), e)
  /\ cursor' = cursor + 1
  /\ Changed

(* Mutant: the file is written before the levels change. *)
SetLevelsSavingFirst(lv, persist) ==
  /\ levels' = lv
  /\ overrides' = IF persist THEN Overrides(levels, default) ELSE overrides
  /\ UNCHANGED default

(* UpdateDebugFlagsCommand sets every category, and saves the file if the   *)
(* entry persists.                                                          *)
SetLevels(lv, persist) ==
  /\ levels' = lv
  /\ overrides' = IF persist THEN Overrides(lv, default) ELSE overrides
  /\ UNCHANGED default

(* AccountSideBarController::_onCreateAccountRequested. *)
CreateAccount(a) ==
  /\ a \notin accounts
  /\ accounts' = accounts \cup {a}
  /\ Push(Account(a))
  /\ UNCHANGED <<logV, savedDefault, dialog, file, backups, history>>

(* EditMenuController::_onUndoRequested on the disabled entry: nothing but  *)
(* the signal.  No other entry is disabled, so redo never meets one.        *)
UndoDisabled ==
  /\ menuUndo /\ entries[cursor].kind = "ensure"
  /\ UNCHANGED <<stackV, logV, savedDefault, dialog, storeV, history>>
  /\ Changed

UndoFlags ==
  /\ menuUndo /\ entries[cursor].kind = "flags"
  /\ SetLevels(entries[cursor].old, entries[cursor].persist)
  /\ cursor' = cursor - 1
  /\ UNCHANGED <<entries, savedDefault, dialog, storeV, history>>
  /\ Changed

(* CreateAccountCommand::undo always fails: UndoStack::undo has moved the   *)
(* cursor by then and does not signal.                                      *)
UndoAccount ==
  /\ menuUndo /\ entries[cursor].kind = "account"
  /\ cursor' = cursor - 1
  /\ UNCHANGED <<entries, menu, logV, savedDefault, dialog, storeV, history>>

(* EditMenuController::_onRedoRequested.  CreateAccountCommand::redo fails  *)
(* for an account that exists; UndoStack::redo then changes nothing.        *)
CanRedo == menuRedo /\ cursor < Len(entries)
RedoFlags ==
  /\ CanRedo /\ entries[cursor + 1].kind = "flags"
  /\ SetLevels(entries[cursor + 1].new, entries[cursor + 1].persist)
  /\ cursor' = cursor + 1
  /\ UNCHANGED <<entries, savedDefault, dialog, storeV, history>>
  /\ Changed

RedoAccount ==
  /\ CanRedo /\ entries[cursor + 1].kind = "account"
  /\ entries[cursor + 1].account \notin accounts
  /\ accounts' = accounts \cup {entries[cursor + 1].account}
  /\ cursor' = cursor + 1
  /\ UNCHANGED <<entries, logV, savedDefault, dialog, file, backups, history>>
  /\ Changed

-----------------------------------------------------------------------------
(* DebugMenuController::_onRequestDebugSlots: the dialog is not modal and   *)
(* takes the categories as they are now.                                    *)
OpenDialog ==
  /\ dialog' = Opened(levels, levels)
  /\ UNCHANGED <<stackV, menu, logV, savedDefault, storeV, history>>

Edit(cur) ==
  /\ dialog.open
  /\ dialog' = [dialog EXCEPT !.current = cur]
  /\ UNCHANGED <<stackV, menu, logV, savedDefault, storeV, history>>

(* LogCategoryModel::setData and applyToChildren. *)
SetLevel == \E c \in Categories, l \in Levels : Edit([dialog.current EXCEPT ![c] = l])
ApplyToChildren ==
  \E c \in Categories :
    Edit([x \in Categories |->
            IF x \in Below[c] THEN dialog.current[c] ELSE dialog.current[x]])

(* DebugMenuController::_resetDefaultDebugFlags, DebugSlotsDialog's discard *)
(* and reject.                                                              *)
ResetDefault == Edit([c \in Categories |-> default])
Discard == Edit(dialog.reference)
Reject ==
  /\ dialog.open /\ dialog' = Closed
  /\ UNCHANGED <<stackV, menu, logV, savedDefault, storeV, history>>

(* DebugMenuController::_applyDebugFlagChanges: the command remembers the   *)
(* levels it replaces, not those the dialog showed.                         *)
Apply(persist, close) ==
  /\ dialog.open
  /\ SetLevels(dialog.current, persist)
  /\ Push(Flags(levels, dialog.current, persist))
  /\ dialog' = IF close THEN Closed ELSE Opened(dialog.current, dialog.current)
  /\ UNCHANGED <<savedDefault, storeV, history>>

(* LoggingHandler: the settings' default level is set on the log manager.   *)
SetDefaultLevel(l) ==
  /\ l # default
  /\ levels' = WithDefault(levels, default, l)
  /\ default' = l /\ drifted' = TRUE
  /\ UNCHANGED <<stackV, menu, overrides, savedDefault, dialog, storeV, startLevels>>

-----------------------------------------------------------------------------
(* FileMenuController::_onRequestSave saves the settings and the stores.    *)
Save ==
  /\ file' = accounts /\ savedDefault' = default
  /\ UNCHANGED <<stackV, menu, logV, dialog, accounts, backups, history>>

(* StoreContainer::restoreFromBackup leaves the undo stack as it is. *)
Restore ==
  /\ \E b \in backups : file' = b /\ accounts' = b
  /\ UNCHANGED <<stackV, menu, logV, savedDefault, dialog, backups, history>>

(* The process ends and another one starts: RepoContainer backs the file up *)
(* before the stores are read.                                              *)
Restart ==
  /\ entries' = <<Ensure>> /\ cursor' = 1
  /\ menuUndo' = TRUE /\ menuRedo' = FALSE
  /\ default' = savedDefault
  /\ levels' = Loaded(overrides, savedDefault)
  /\ dialog' = Closed /\ accounts' = file /\ backups' = backups \cup {file}
  /\ startLevels' = levels' /\ drifted' = FALSE
  /\ UNCHANGED <<overrides, savedDefault, file>>

UndoRedo == UndoDisabled \/ UndoFlags \/ UndoAccount \/ RedoFlags \/ RedoAccount
DialogAction ==
  \/ OpenDialog \/ SetLevel \/ ApplyToChildren \/ ResetDefault \/ Discard \/ Reject
  \/ \E persist, close \in BOOLEAN : Apply(persist, close)

Next ==
  \/ \E a \in Accounts : CreateAccount(a)
  \/ UndoRedo \/ DialogAction
  \/ \E l \in DefaultLevels : SetDefaultLevel(l)
  \/ Save \/ Restore \/ Restart

Spec == Init /\ [][Next]_vars

-----------------------------------------------------------------------------
(* Properties. *)

IsFlags(e) == e.kind = "flags"

Entries ==
  {Ensure} \cup [kind : {"account"}, account : Accounts] \cup
  [kind : {"flags"}, old : LevelMaps, new : LevelMaps, persist : BOOLEAN]
Files == UNION {[S -> Levels] : S \in SUBSET Categories}

(* Every variable has its type; the cursor is within the stack and never    *)
(* below the entry that ensures the profile, which is the only disabled one. *)
TypeOK ==
  /\ entries \in Seq(Entries) /\ cursor \in 1..Len(entries)
  /\ \A i \in 1..Len(entries) : entries[i].kind = "ensure" <=> i = 1
  /\ menuUndo \in BOOLEAN /\ menuRedo \in BOOLEAN
  /\ levels \in LevelMaps /\ overrides \in Files
  /\ default \in DefaultLevels /\ savedDefault \in DefaultLevels
  /\ dialog \in {Closed} \cup [open : {TRUE}, reference : LevelMaps, current : LevelMaps]
  /\ accounts \subseteq Accounts /\ file \subseteq Accounts /\ backups \subseteq SUBSET Accounts
  /\ startLevels \in LevelMaps /\ drifted \in BOOLEAN

(* The levels after the first k entries es of a stack: those the newest     *)
(* update of the flags among them made, or those the process started with.  *)
LevelsAfter(es, start, k, lv) ==
  /\ \A i \in 1..k :
       IsFlags(es[i]) /\ (\A j \in (i+1)..k : ~ IsFlags(es[j])) => lv = es[i].new
  /\ (\A i \in 1..k : ~ IsFlags(es[i])) => lv = start
Restores(es, start, k) == IsFlags(es[k]) => LevelsAfter(es, start, k - 1, es[k].old)

(* As long as the default level is not changed, the levels are exactly what *)
(* the stack below the cursor says, and each entry would restore what it    *)
(* replaced, through failed undos, truncation and updates issued from a     *)
(* dialog that has gone stale (UndoStack::undo, redo, push,                 *)
(* UpdateDebugFlagsCommand).                                                *)
LevelsFollowStack ==
  ~ drifted =>
    /\ LevelsAfter(entries, startLevels, cursor, levels)
    /\ \A k \in 1..Len(entries) : Restores(entries, startLevels, k)

(* Whenever the file of levels is rewritten, a process started with the     *)
(* same default level would come up with the levels this one has            *)
(* (saveOverrides, loadOverrides).                                          *)
ReloadReproduces == [][overrides' # overrides => Loaded(overrides, default)' = levels']_vars
=============================================================================
