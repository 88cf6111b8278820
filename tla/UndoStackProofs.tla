--------------------------- MODULE UndoStackProofs ---------------------------
(* The undo stack keeps its types, and the log levels are what the entries  *)
(* below the cursor say, for every set of categories, levels and accounts   *)
(* and every size of the stack; a file of levels that is written brings     *)
(* them back.                                                               *)
EXTENDS UndoStack, TLAPS

(* What the log manager computes is well typed. *)
LEMMA OverridesType ==
  ASSUME NEW lv \in LevelMaps, NEW d \in Levels
  PROVE  Overrides(lv, d) \in Files
<1> DEFINE S == {x \in Categories : lv[x] # d}
<1>1. Overrides(lv, d) \in [S -> Levels]
  BY DEF Overrides, LevelMaps
<1>2. S \in SUBSET Categories
  OBVIOUS
<1> QED
  BY <1>1, <1>2 DEF Files

LEMMA LoadedType ==
  ASSUME NEW f \in Files, NEW d \in Levels
  PROVE  Loaded(f, d) \in LevelMaps
<1>1. PICK S \in SUBSET Categories : f \in [S -> Levels]
  BY DEF Files
<1> QED
  BY <1>1 DEF Loaded, LevelMaps

LEMMA WithDefaultType ==
  ASSUME NEW lv \in LevelMaps, NEW old \in Levels, NEW new \in Levels
  PROVE  WithDefault(lv, old, new) \in LevelMaps
BY DEF WithDefault, LevelMaps

(* The kinds of entries and their fields. *)
LEMMA EntryFields ==
  ASSUME NEW e \in Entries
  PROVE  /\ e.kind = "flags" => e.old \in LevelMaps /\ e.new \in LevelMaps /\ e.persist \in BOOLEAN
         /\ e.kind = "account" => e.account \in Accounts
BY DEF Entries, Ensure

LEMMA EntryTypes ==
  /\ \A a \in Accounts : Account(a) \in Entries /\ Account(a).kind = "account"
  /\ \A o, n \in LevelMaps, p \in BOOLEAN :
       Flags(o, n, p) \in Entries /\ Flags(o, n, p).kind = "flags"
BY DEF Account, Flags, Entries

LEMMA ChangedType == Changed => menuUndo' \in BOOLEAN /\ menuRedo' \in BOOLEAN
BY DEF Changed

(* Pushing keeps the entries below the cursor and puts the new one on top. *)
LEMMA PushShape ==
  ASSUME TypeOK, NEW e, Push(e)
  PROVE  /\ cursor' = cursor + 1 /\ Len(entries') = cursor + 1
         /\ \A i \in 1..cursor : entries'[i] = entries[i]
         /\ entries'[cursor + 1] = e
         /\ e \in Entries => entries' \in Seq(Entries)
         /\ menuUndo' \in BOOLEAN /\ menuRedo' \in BOOLEAN
<1> DEFINE s == SubSeq(entries, 1, cursor)
<1>1. entries \in Seq(Entries) /\ cursor \in 1..Len(entries) /\ cursor \in Nat /\ Len(entries) \in Nat
  BY DEF TypeOK
<1>2. s \in Seq(Entries) /\ Len(s) = cursor /\ \A i \in 1..cursor : s[i] = entries[i]
  BY <1>1
<1> HIDE DEF s
<1>3. entries' = Append(s, e) /\ cursor' = cursor + 1
  BY DEF Push, s
<1>4. Len(entries') = cursor + 1 /\ \A i \in 1..cursor : entries'[i] = s[i]
  BY <1>1, <1>2, <1>3
<1>5. entries'[cursor + 1] = e
  BY <1>1, <1>2, <1>3
<1>6. e \in Entries => entries' \in Seq(Entries)
  BY <1>2, <1>3
<1>7. menuUndo' \in BOOLEAN /\ menuRedo' \in BOOLEAN
  BY DEF Push, Changed
<1> QED
  BY <1>2, <1>3, <1>4, <1>5, <1>6, <1>7

LEMMA PushType ==
  ASSUME TypeOK, NEW e \in Entries, e.kind # "ensure", Push(e)
  PROVE  /\ entries' \in Seq(Entries) /\ cursor' \in 1..Len(entries')
         /\ \A i \in 1..Len(entries') : entries'[i].kind = "ensure" <=> i = 1
         /\ menuUndo' \in BOOLEAN /\ menuRedo' \in BOOLEAN
<1>1. /\ cursor \in Nat /\ 1 <= cursor /\ cursor <= Len(entries) /\ Len(entries) \in Nat
      /\ \A i \in 1..Len(entries) : entries[i].kind = "ensure" <=> i = 1
  BY DEF TypeOK
<1>2. \A i \in 1..(cursor + 1) : i \in 1..cursor \/ i = cursor + 1
  BY <1>1
<1>3. /\ cursor' = cursor + 1 /\ Len(entries') = cursor + 1 /\ entries' \in Seq(Entries)
      /\ \A i \in 1..cursor : entries'[i] = entries[i]
      /\ entries'[cursor + 1] = e
      /\ menuUndo' \in BOOLEAN /\ menuRedo' \in BOOLEAN
  BY PushShape
<1>4. \A i \in 1..cursor : entries'[i].kind = "ensure" <=> i = 1
  BY <1>1, <1>3
<1>5. \A i \in 1..(cursor + 1) : entries'[i].kind = "ensure" <=> i = 1
  BY <1>1, <1>2, <1>3, <1>4
<1> QED
  BY <1>1, <1>3, <1>5

LEMMA SetLevelsType ==
  ASSUME TypeOK, NEW lv \in LevelMaps, NEW p \in BOOLEAN, SetLevels(lv, p)
  PROVE  levels' \in LevelMaps /\ overrides' \in Files /\ default' \in DefaultLevels
<1>1. default \in Levels /\ default \in DefaultLevels /\ overrides \in Files
  BY UndoStackAssumption DEF TypeOK
<1>2. Overrides(lv, default) \in Files
  BY <1>1, OverridesType
<1> QED
  BY <1>1, <1>2 DEF SetLevels

(* Undo and redo of an entry stay within the stack. *)
LEMMA UndoShape ==
  ASSUME TypeOK, entries[cursor].kind # "ensure"
  PROVE  entries[cursor] \in Entries /\ cursor - 1 \in 1..Len(entries)
<1>1. cursor \in 1..Len(entries) /\ Len(entries) \in Nat /\ (entries[cursor].kind = "ensure" <=> cursor = 1)
  BY DEF TypeOK
<1>2. entries[cursor] \in Entries
  BY <1>1 DEF TypeOK
<1> QED
  BY <1>1, <1>2

LEMMA RedoShape ==
  ASSUME TypeOK, CanRedo
  PROVE  entries[cursor + 1] \in Entries /\ cursor + 1 \in 1..Len(entries)
<1>1. cursor \in 1..Len(entries) /\ Len(entries) \in Nat /\ cursor < Len(entries)
  BY DEF TypeOK, CanRedo
<1>2. cursor + 1 \in 1..Len(entries)
  BY <1>1
<1> QED
  BY <1>2 DEF TypeOK

LEMMA RestartType ==
  ASSUME TypeOK, Restart
  PROVE  TypeOK'
<1>1. entries' = <<Ensure>> /\ cursor' = 1 /\ Ensure \in Entries /\ Ensure.kind = "ensure"
  BY DEF Restart, Ensure, Entries
<1>2. entries' \in Seq(Entries) /\ Len(entries') = 1 /\ entries'[1] = Ensure
  BY <1>1
<1>3. \A i \in 1..Len(entries') : entries'[i].kind = "ensure" <=> i = 1
  BY <1>1, <1>2
<1>4. levels' \in LevelMaps
  BY LoadedType, UndoStackAssumption DEF Restart, TypeOK
<1>5. menuUndo' \in BOOLEAN /\ menuRedo' \in BOOLEAN
  BY DEF Restart
<1>6. drifted' \in BOOLEAN /\ startLevels' = levels'
  BY DEF Restart
<1>7. dialog' = Closed /\ default' = savedDefault /\ accounts' = file
      /\ backups' = backups \cup {file} /\ UNCHANGED <<overrides, savedDefault, file>>
  BY DEF Restart
<1> QED
  BY <1>1, <1>2, <1>3, <1>4, <1>5, <1>6, <1>7 DEF TypeOK

(* What the user does to the dialog keeps it well typed. *)
LEMMA DialogType ==
  ASSUME TypeOK, dialog.open
  PROVE  /\ dialog.reference \in LevelMaps /\ dialog.current \in LevelMaps
         /\ \A cur \in LevelMaps :
              [dialog EXCEPT !.current = cur] \in
                [open : {TRUE}, reference : LevelMaps, current : LevelMaps]
<1>1. dialog \in [open : {TRUE}, reference : LevelMaps, current : LevelMaps]
  <2>1. Closed.open = FALSE
    BY DEF Closed
  <2> QED
    BY <2>1 DEF TypeOK
<1> QED
  BY <1>1

LEMMA EditType ==
  ASSUME TypeOK, NEW cur \in LevelMaps, Edit(cur)
  PROVE  TypeOK'
<1>1. dialog' \in [open : {TRUE}, reference : LevelMaps, current : LevelMaps]
  BY DialogType DEF Edit
<1> QED
  BY <1>1 DEF Edit, TypeOK, stackV, menu, logV, storeV, history

LEMMA StepType ==
  ASSUME TypeOK, [Next]_vars
  PROVE  TypeOK'
<1> USE DEF stackV, menu, logV, storeV, history
<1>1. CASE \E a \in Accounts : CreateAccount(a)
  <2>1. PICK a \in Accounts : CreateAccount(a)
    BY <1>1
  <2>2. Account(a) \in Entries /\ Account(a).kind = "account" /\ Push(Account(a))
    BY <2>1, EntryTypes DEF CreateAccount
  <2>3. /\ entries' \in Seq(Entries) /\ cursor' \in 1..Len(entries')
        /\ \A i \in 1..Len(entries') : entries'[i].kind = "ensure" <=> i = 1
        /\ menuUndo' \in BOOLEAN /\ menuRedo' \in BOOLEAN
    BY <2>2, PushType
  <2> QED
    BY <2>1, <2>3 DEF CreateAccount, TypeOK
<1>2. CASE UndoDisabled
  BY <1>2, ChangedType DEF UndoDisabled, TypeOK
<1>3. CASE UndoFlags
  <2>1. entries[cursor] \in Entries /\ cursor - 1 \in 1..Len(entries) /\ entries[cursor].kind = "flags"
    BY <1>3, UndoShape DEF UndoFlags
  <2>2. levels' \in LevelMaps /\ overrides' \in Files /\ default' \in DefaultLevels
    BY <1>3, <2>1, EntryFields, SetLevelsType DEF UndoFlags
  <2> QED
    BY <1>3, <2>1, <2>2, ChangedType DEF UndoFlags, TypeOK
<1>4. CASE UndoAccount
  <2>1. cursor - 1 \in 1..Len(entries)
    BY <1>4, UndoShape DEF UndoAccount
  <2> QED
    BY <1>4, <2>1 DEF UndoAccount, TypeOK
<1>5. CASE RedoFlags
  <2>1. entries[cursor + 1] \in Entries /\ cursor + 1 \in 1..Len(entries) /\ entries[cursor + 1].kind = "flags"
    BY <1>5, RedoShape DEF RedoFlags
  <2>2. levels' \in LevelMaps /\ overrides' \in Files /\ default' \in DefaultLevels
    BY <1>5, <2>1, EntryFields, SetLevelsType DEF RedoFlags
  <2> QED
    BY <1>5, <2>1, <2>2, ChangedType DEF RedoFlags, TypeOK
<1>6. CASE RedoAccount
  <2>1. entries[cursor + 1] \in Entries /\ cursor + 1 \in 1..Len(entries) /\ entries[cursor + 1].kind = "account"
    BY <1>6, RedoShape DEF RedoAccount
  <2>2. entries[cursor + 1].account \in Accounts
    BY <2>1, EntryFields
  <2> QED
    BY <1>6, <2>1, <2>2, ChangedType DEF RedoAccount, TypeOK
<1>7. CASE OpenDialog
  <2>1. Opened(levels, levels) \in [open : {TRUE}, reference : LevelMaps, current : LevelMaps]
    BY DEF Opened, TypeOK
  <2> QED
    BY <1>7, <2>1 DEF OpenDialog, TypeOK
<1>8. CASE SetLevel \/ ApplyToChildren \/ ResetDefault \/ Discard
  <2>1. dialog.open => dialog.reference \in LevelMaps /\ dialog.current \in LevelMaps
    BY DialogType
  <2>2. CASE SetLevel
    BY <2>1, <2>2, EditType DEF SetLevel, Edit, LevelMaps
  <2>3. CASE ApplyToChildren
    <3>1. PICK c \in Categories :
            Edit([x \in Categories |->
                    IF x \in Below[c] THEN dialog.current[c] ELSE dialog.current[x]])
      BY <2>3 DEF ApplyToChildren
    <3>2. dialog.current \in LevelMaps
      BY <2>1, <3>1 DEF Edit
    <3>3. [x \in Categories |->
             IF x \in Below[c] THEN dialog.current[c] ELSE dialog.current[x]] \in LevelMaps
      BY <3>2 DEF LevelMaps
    <3> QED
      BY <3>1, <3>3, EditType
  <2>4. CASE ResetDefault
    <3>1. [c \in Categories |-> default] \in LevelMaps
      BY UndoStackAssumption DEF TypeOK, LevelMaps
    <3> QED
      BY <2>4, <3>1, EditType DEF ResetDefault
  <2>5. CASE Discard
    BY <2>1, <2>5, EditType DEF Discard, Edit
  <2> QED
    BY <1>8, <2>2, <2>3, <2>4, <2>5
<1>9. CASE Reject
  BY <1>9 DEF Reject, TypeOK
<1>10. CASE \E p, c \in BOOLEAN : Apply(p, c)
  <2>1. PICK p \in BOOLEAN, c \in BOOLEAN : Apply(p, c)
    BY <1>10
  <2>2. dialog.current \in LevelMaps /\ levels \in LevelMaps
    BY <2>1, DialogType DEF Apply, TypeOK
  <2>3. Push(Flags(levels, dialog.current, p)) /\ SetLevels(dialog.current, p)
    BY <2>1 DEF Apply
  <2>4. /\ entries' \in Seq(Entries) /\ cursor' \in 1..Len(entries')
        /\ \A i \in 1..Len(entries') : entries'[i].kind = "ensure" <=> i = 1
        /\ menuUndo' \in BOOLEAN /\ menuRedo' \in BOOLEAN
    BY <2>2, <2>3, EntryTypes, PushType
  <2>5. levels' \in LevelMaps /\ overrides' \in Files /\ default' \in DefaultLevels
    BY <2>2, <2>3, SetLevelsType
  <2>6. dialog' \in {Closed} \cup [open : {TRUE}, reference : LevelMaps, current : LevelMaps]
    BY <2>1, <2>2 DEF Apply, Opened
  <2> QED
    BY <2>1, <2>4, <2>5, <2>6 DEF Apply, TypeOK
<1>11. CASE \E l \in DefaultLevels : SetDefaultLevel(l)
  <2>1. PICK l \in DefaultLevels : SetDefaultLevel(l)
    BY <1>11
  <2>2. levels' \in LevelMaps
    BY <2>1, WithDefaultType, UndoStackAssumption DEF SetDefaultLevel, TypeOK
  <2> QED
    BY <2>1, <2>2 DEF SetDefaultLevel, TypeOK
<1>12. CASE Save \/ Restore
  BY <1>12 DEF Save, Restore, TypeOK
<1>13. CASE Restart
  BY <1>13, RestartType
<1>14. CASE UNCHANGED vars
  BY <1>14 DEF vars, TypeOK
<1> QED
  BY <1>1, <1>2, <1>3, <1>4, <1>5, <1>6, <1>7, <1>8, <1>9, <1>10, <1>11,
     <1>12, <1>13, <1>14 DEF Next, UndoRedo, DialogAction

LEMMA InitType == Init => TypeOK
<1> SUFFICES ASSUME Init PROVE TypeOK
  OBVIOUS
<1>1. entries = <<Ensure>> /\ cursor = 1 /\ Ensure \in Entries /\ Ensure.kind = "ensure"
  BY DEF Init, Ensure, Entries
<1>2. entries \in Seq(Entries) /\ Len(entries) = 1 /\ entries[1] = Ensure
  BY <1>1
<1>3. <<>> \in [{} -> Levels]
  OBVIOUS
<1>4. overrides \in Files
  BY <1>3 DEF Init, Files
<1>5. levels \in LevelMaps
  BY <1>4, LoadedType, UndoStackAssumption DEF Init
<1>6. \A i \in 1..Len(entries) : entries[i].kind = "ensure" <=> i = 1
  BY <1>1, <1>2
<1>7. menuUndo \in BOOLEAN /\ menuRedo \in BOOLEAN /\ drifted \in BOOLEAN
  BY DEF Init
<1>8. /\ default \in DefaultLevels /\ savedDefault \in DefaultLevels /\ dialog = Closed
      /\ accounts = {} /\ file = {} /\ backups = {{}} /\ startLevels = levels
  BY DEF Init
<1> QED
  BY <1>1, <1>2, <1>4, <1>5, <1>6, <1>7, <1>8 DEF TypeOK

(* Every reachable state of the undo stack, its menu, its dialog and the    *)
(* log levels is well typed; in particular the cursor never leaves the      *)
(* stack and never drops below the entry that ensures the profile.          *)
THEOREM UndoTypeCorrect == Spec => []TypeOK
<1>1. Init => TypeOK
  BY InitType
<1>2. TypeOK /\ [Next]_vars => TypeOK'
  BY StepType
<1> QED
  BY <1>1, <1>2, PTL DEF Spec

-----------------------------------------------------------------------------
(* Facts about LevelsAfter, for any sequence of entries. *)

(* An update of the flags decides the levels after it. *)
LEMMA TopDecides ==
  ASSUME NEW es, NEW start, NEW k \in Nat \ {0}, IsFlags(es[k])
  PROVE  LevelsAfter(es, start, k, es[k].new)
<1>1. \A i \in 1..k : i = k \/ k \in (i+1)..k
  OBVIOUS
<1>2. k \in 1..k
  OBVIOUS
<1> QED
  BY <1>1, <1>2 DEF LevelsAfter

(* An entry that is no update of the flags decides nothing. *)
LEMMA OtherDecidesNothing ==
  ASSUME NEW es, NEW start, NEW lv, NEW k \in Nat, ~ IsFlags(es[k + 1])
  PROVE  LevelsAfter(es, start, k, lv) <=> LevelsAfter(es, start, k + 1, lv)
<1>1. \A i \in 1..(k+1) : i \in 1..k \/ i = k + 1
  OBVIOUS
<1>2. \A i \in 1..k : i \in 1..(k+1)
  OBVIOUS
<1>3. \A i \in 1..k : \A j \in (i+1)..(k+1) : j \in (i+1)..k \/ j = k + 1
  OBVIOUS
<1>4. \A i \in 1..k : \A j \in (i+1)..k : j \in (i+1)..(k+1)
  OBVIOUS
<1> QED
  BY <1>1, <1>2, <1>3, <1>4 DEF LevelsAfter

(* Only the entries counted matter. *)
LEMMA PrefixDecides ==
  ASSUME NEW es, NEW fs, NEW start, NEW lv, NEW k \in Nat,
         \A i \in 1..k : es[i] = fs[i],
         LevelsAfter(es, start, k, lv)
  PROVE  LevelsAfter(fs, start, k, lv)
<1>1. \A i \in 1..k : \A j \in (i+1)..k : j \in 1..k
  OBVIOUS
<1> QED
  BY <1>1 DEF LevelsAfter

(* A push whose entry restores the present levels keeps the invariant.      *)
LEMMA PushFollows ==
  ASSUME TypeOK, NEW e, Push(e), UNCHANGED startLevels,
         LevelsAfter(entries, startLevels, cursor, levels),
         \A k \in 1..Len(entries) : Restores(entries, startLevels, k),
         IsFlags(e) => e.old = levels /\ e.new = levels',
         ~ IsFlags(e) => levels' = levels
  PROVE  /\ LevelsAfter(entries, startLevels, cursor, levels)'
         /\ \A k \in 1..Len(entries') : Restores(entries', startLevels', k)
<1>1. /\ cursor \in Nat /\ 1 <= cursor /\ cursor <= Len(entries) /\ Len(entries) \in Nat
  BY DEF TypeOK
<1>2. /\ cursor' = cursor + 1 /\ Len(entries') = cursor + 1
      /\ \A i \in 1..cursor : entries[i] = entries'[i]
      /\ entries'[cursor + 1] = e
  BY PushShape
<1>3. LevelsAfter(entries', startLevels, cursor, levels)
  BY <1>1, <1>2, PrefixDecides
<1>4. LevelsAfter(entries', startLevels, cursor + 1, levels')
  <2>1. CASE IsFlags(e)
    <3>1. IsFlags(entries'[cursor + 1]) /\ cursor + 1 \in Nat \ {0}
      BY <2>1, <1>1, <1>2
    <3>2. LevelsAfter(entries', startLevels, cursor + 1, entries'[cursor + 1].new)
      BY <3>1, TopDecides
    <3> QED
      BY <2>1, <3>2, <1>2
  <2>2. CASE ~ IsFlags(e)
    <3>1. ~ IsFlags(entries'[cursor + 1]) /\ levels' = levels
      BY <2>2, <1>2
    <3> QED
      BY <3>1, <1>1, <1>3, OtherDecidesNothing
  <2> QED
    BY <2>1, <2>2
<1>5. ASSUME NEW k \in 1..Len(entries') PROVE Restores(entries', startLevels, k)
  <2>1. CASE k = cursor + 1
    <3>1. (cursor + 1) - 1 = cursor /\ entries'[k] = e
      BY <2>1, <1>1, <1>2
    <3> QED
      BY <2>1, <3>1, <1>3 DEF Restores
  <2>2. CASE k \in 1..cursor
    <3>1. entries[k] = entries'[k] /\ k \in 1..Len(entries) /\ k - 1 \in Nat
      BY <2>2, <1>1, <1>2
    <3>2. \A i \in 1..(k-1) : i \in 1..cursor /\ entries[i] = entries'[i]
      BY <2>2, <1>1, <1>2
    <3>3. Restores(entries, startLevels, k)
      BY <3>1
    <3>4. IsFlags(entries'[k]) => LevelsAfter(entries', startLevels, k - 1, entries'[k].old)
      BY <3>1, <3>2, <3>3, PrefixDecides DEF Restores
    <3> QED
      BY <3>4 DEF Restores
  <2> QED
    BY <1>1, <1>2, <2>1, <2>2
<1> QED
  BY <1>2, <1>4, <1>5

LEMMA InitFollows == Init => LevelsFollowStack
<1> SUFFICES ASSUME Init PROVE LevelsFollowStack
  OBVIOUS
<1>1. entries = <<Ensure>> /\ cursor = 1 /\ levels = startLevels /\ Ensure.kind = "ensure"
  BY DEF Init, Ensure
<1>2. Len(entries) = 1 /\ \A i \in 1..1 : ~ IsFlags(entries[i])
  BY <1>1 DEF IsFlags
<1>3. LevelsAfter(entries, startLevels, 1, levels)
  BY <1>1, <1>2 DEF LevelsAfter
<1> QED
  BY <1>1, <1>2, <1>3 DEF LevelsFollowStack, Restores

LEMMA StepFollows ==
  ASSUME TypeOK, LevelsFollowStack, [Next]_vars
  PROVE  LevelsFollowStack'
<1> USE DEF stackV, menu, logV, storeV, history
<1>0. /\ cursor \in Nat /\ 1 <= cursor /\ cursor <= Len(entries) /\ Len(entries) \in Nat
      /\ cursor \in 1..Len(entries)
  BY DEF TypeOK
<1> SUFFICES ASSUME ~ drifted' PROVE LevelsFollowStack'
  BY DEF LevelsFollowStack
<1>1. CASE Restart
  <2>1. entries' = <<Ensure>> /\ cursor' = 1 /\ levels' = startLevels' /\ Ensure.kind = "ensure"
    BY <1>1 DEF Restart, Ensure
  <2>2. Len(entries') = 1 /\ \A i \in 1..1 : ~ IsFlags(entries'[i])
    BY <2>1 DEF IsFlags
  <2>3. LevelsAfter(entries', startLevels', 1, levels')
    BY <2>1, <2>2 DEF LevelsAfter
  <2> QED
    BY <2>1, <2>2, <2>3 DEF LevelsFollowStack, Restores
<1>2. CASE \E l \in DefaultLevels : SetDefaultLevel(l)
  BY <1>2 DEF SetDefaultLevel
<1> SUFFICES ASSUME ~ Restart, ~ \E l \in DefaultLevels : SetDefaultLevel(l)
             PROVE  LevelsFollowStack'
  BY <1>1, <1>2
<1>3. UNCHANGED <<startLevels, drifted>>
  BY DEF Next, UndoRedo, DialogAction, vars, CreateAccount, UndoDisabled, UndoFlags,
         UndoAccount, RedoFlags, RedoAccount, OpenDialog, SetLevel, ApplyToChildren,
         ResetDefault, Discard, Reject, Apply, Save, Restore, Edit
<1>4. /\ LevelsAfter(entries, startLevels, cursor, levels)
      /\ \A k \in 1..Len(entries) : Restores(entries, startLevels, k)
  BY <1>3 DEF LevelsFollowStack
<1>5. CASE \E a \in Accounts : CreateAccount(a)
  <2>1. PICK a \in Accounts : CreateAccount(a)
    BY <1>5
  <2>2. Push(Account(a)) /\ levels' = levels /\ ~ IsFlags(Account(a))
    BY <2>1 DEF CreateAccount, Account, IsFlags
  <2> QED
    BY <2>2, <1>3, <1>4, PushFollows DEF LevelsFollowStack
<1>6. CASE \E p, c \in BOOLEAN : Apply(p, c)
  <2>1. PICK p \in BOOLEAN, c \in BOOLEAN : Apply(p, c)
    BY <1>6
  <2>2. Push(Flags(levels, dialog.current, p)) /\ levels' = dialog.current
    BY <2>1 DEF Apply, SetLevels
  <2>3. Flags(levels, dialog.current, p).old = levels /\ Flags(levels, dialog.current, p).new = dialog.current
        /\ IsFlags(Flags(levels, dialog.current, p))
    BY DEF Flags, IsFlags
  <2> QED
    BY <2>2, <2>3, <1>3, <1>4, PushFollows DEF LevelsFollowStack
<1>7. CASE UndoFlags
  <2>1. IsFlags(entries[cursor]) /\ cursor' = cursor - 1 /\ levels' = entries[cursor].old
        /\ entries' = entries
    BY <1>7 DEF UndoFlags, SetLevels, IsFlags
  <2>2. LevelsAfter(entries, startLevels, cursor - 1, entries[cursor].old)
    BY <2>1, <1>0, <1>4 DEF Restores
  <2> QED
    BY <2>1, <2>2, <1>3, <1>4 DEF LevelsFollowStack
<1>8. CASE UndoAccount
  <2>1. cursor - 1 \in Nat /\ (cursor - 1) + 1 = cursor
    BY <1>0
  <2>2. ~ IsFlags(entries[(cursor - 1) + 1]) /\ cursor' = cursor - 1 /\ levels' = levels
        /\ entries' = entries
    BY <1>8, <2>1 DEF UndoAccount, IsFlags
  <2>3. LevelsAfter(entries, startLevels, cursor - 1, levels)
    BY <2>1, <2>2, <1>4, OtherDecidesNothing
  <2> QED
    BY <2>2, <2>3, <1>3, <1>4 DEF LevelsFollowStack
<1>9. CASE RedoFlags
  <2>1. IsFlags(entries[cursor + 1]) /\ cursor' = cursor + 1 /\ levels' = entries[cursor + 1].new
        /\ entries' = entries
    BY <1>9 DEF RedoFlags, SetLevels, IsFlags
  <2>2. LevelsAfter(entries, startLevels, cursor + 1, entries[cursor + 1].new)
    <3>1. cursor + 1 \in Nat \ {0}
      BY <1>0
    <3> QED
      BY <2>1, <3>1, TopDecides
  <2> QED
    BY <2>1, <2>2, <1>3, <1>4 DEF LevelsFollowStack
<1>10. CASE RedoAccount
  <2>1. ~ IsFlags(entries[cursor + 1]) /\ cursor' = cursor + 1 /\ levels' = levels
        /\ entries' = entries
    BY <1>10 DEF RedoAccount, IsFlags
  <2>2. LevelsAfter(entries, startLevels, cursor + 1, levels)
    BY <2>1, <1>0, <1>4, OtherDecidesNothing
  <2> QED
    BY <2>1, <2>2, <1>3, <1>4 DEF LevelsFollowStack
<1>11. CASE UNCHANGED <<entries, cursor, levels>>
  BY <1>11, <1>3, <1>4 DEF LevelsFollowStack
<1> QED
  BY <1>5, <1>6, <1>7, <1>8, <1>9, <1>10, <1>11
  DEF Next, UndoRedo, DialogAction, vars, UndoDisabled, OpenDialog, SetLevel,
      ApplyToChildren, ResetDefault, Discard, Reject, Save, Restore, Edit

(* As long as the default level is not changed, the log levels are those    *)
(* the entries below the cursor of the undo stack say, and undoing an entry *)
(* restores what was in effect before it.                                   *)
THEOREM LevelsFollow == Spec => []LevelsFollowStack
<1>1. Init => TypeOK /\ LevelsFollowStack
  BY InitType, InitFollows
<1>2. TypeOK /\ LevelsFollowStack /\ [Next]_vars => TypeOK' /\ LevelsFollowStack'
  BY StepType, StepFollows
<1> QED
  BY <1>1, <1>2, PTL DEF Spec

-----------------------------------------------------------------------------
(* The file of the levels that differ from the default brings all of them   *)
(* back under that default.                                                 *)
LEMMA OverridesComeBack ==
  ASSUME NEW lv \in LevelMaps, NEW d
  PROVE  Loaded(Overrides(lv, d), d) = lv
<1> DEFINE S == {x \in Categories : lv[x] # d}
           f == Overrides(lv, d)
<1>1. DOMAIN f = S /\ \A c \in S : f[c] = lv[c]
  BY DEF Overrides
<1> HIDE DEF f
<1>2. \A c \in Categories : Loaded(f, d)[c] = lv[c]
  BY <1>1 DEF Loaded
<1>3. Loaded(f, d) = [c \in Categories |-> Loaded(f, d)[c]]
  BY DEF Loaded
<1>4. lv = [c \in Categories |-> lv[c]]
  BY DEF LevelMaps
<1> QED
  BY <1>2, <1>3, <1>4 DEF f

LEMMA SetLevelsReloads ==
  ASSUME NEW lv \in LevelMaps, NEW p, SetLevels(lv, p), overrides' # overrides
  PROVE  Loaded(overrides', default') = levels'
<1>1. overrides' = Overrides(lv, default) /\ levels' = lv /\ default' = default
  BY DEF SetLevels
<1> QED
  BY <1>1, OverridesComeBack

LEMMA StepReloads ==
  ASSUME TypeOK, [Next]_vars, overrides' # overrides
  PROVE  Loaded(overrides', default') = levels'
<1>1. CASE UndoFlags
  <2>1. entries[cursor].kind = "flags"
        /\ SetLevels(entries[cursor].old, entries[cursor].persist)
    BY <1>1 DEF UndoFlags
  <2>2. entries[cursor].old \in LevelMaps
    BY <2>1, UndoShape, EntryFields
  <2> QED
    BY <2>1, <2>2, SetLevelsReloads
<1>2. CASE RedoFlags
  <2>1. entries[cursor + 1].kind = "flags" /\ CanRedo
        /\ SetLevels(entries[cursor + 1].new, entries[cursor + 1].persist)
    BY <1>2 DEF RedoFlags
  <2>2. entries[cursor + 1].new \in LevelMaps
    BY <2>1, RedoShape, EntryFields
  <2> QED
    BY <2>1, <2>2, SetLevelsReloads
<1>3. ASSUME NEW persist \in BOOLEAN, NEW close \in BOOLEAN, Apply(persist, close)
      PROVE  Loaded(overrides', default') = levels'
  <2>1. dialog.open /\ SetLevels(dialog.current, persist)
    BY <1>3 DEF Apply
  <2>2. dialog.current \in LevelMaps
    BY <2>1, DialogType
  <2> QED
    BY <2>1, <2>2, SetLevelsReloads
<1>4. CASE UNCHANGED overrides
  BY <1>4
<1> QED
  BY <1>1, <1>2, <1>3, <1>4
  DEF Next, UndoRedo, DialogAction, vars, logV, CreateAccount, UndoDisabled, UndoAccount,
      RedoAccount, OpenDialog, SetLevel, ApplyToChildren, ResetDefault, Discard, Reject,
      Edit, SetDefaultLevel, Save, Restore, Restart

(* Whenever log_levels.json is rewritten, a process started with the same   *)
(* default level comes up with the levels this one has.                     *)
THEOREM ReloadsReproduce == Spec => ReloadReproduces
<1>1. TypeOK /\ [Next]_vars => [overrides' # overrides => Loaded(overrides, default)' = levels']_vars
  BY StepReloads
<1> QED
  BY <1>1, UndoTypeCorrect, PTL DEF Spec, ReloadReproduces
=============================================================================
