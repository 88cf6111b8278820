----------------------------- MODULE Preferences -----------------------------
(* The settings: the parameters of the running program, the file they are    *)
(* kept in, the preferences dialog that edits them in place, the copy that   *)
(* the update check keeps of them, and who is told of a change.              *)
EXTENDS Parameters

CONSTANTS
  Names, Profiles,           \* names a user may type; the profiles there are
  Widths, DefaultWidth, MinWidth,
  Keys,                      \* the actions that have shortcuts
  Strokes, NoStroke, DefaultStrokes,
  Newest,                    \* bound: the releases are 1..Newest
  MaxEdits,                  \* bound: the edits of one process
  NoFile, Torn,
  Idle, Busy                 \* no fetch; one in the worker thread

ASSUME PreferencesAssumption ==
  /\ Profiles \subseteq Names /\ Profiles # {}
  /\ Widths \subseteq Nat /\ MinWidth \in Nat
  /\ DefaultWidth \in Widths /\ DefaultWidth >= MinWidth
  /\ NoStroke \in Strokes /\ DefaultStrokes \in [Keys -> SUBSET Strokes]
  /\ \A k, l \in Keys :
       k # l => DefaultStrokes[k] \cap DefaultStrokes[l] \subseteq {NoStroke}
  /\ Keys \cap {"version", "profile", "dismissed", "width"} = {}
  /\ Newest \in Nat \ {0} /\ MaxEdits \in Nat
  /\ None \notin Names \cup Nat
  /\ {Idle, Busy} \cap Nat = {}

VARIABLES
  running, release,  \* whether the program runs, and which release of it
  main,              \* Settings of MainController
  copy,              \* Settings of VCSController
  file,              \* settings.json
  title,             \* whether the window says "unsaved changes"
  storeDirty,        \* whether a store has unsaved changes
  dialog,            \* the preferences: what a cancel goes back to, the rows of the
                     \* shortcuts, the rows marked as dirty, the label "unsaved"
  published,         \* the newest release there is
  worker,            \* the future that QFutureWatcher watches
  notified,          \* _lastNotifiedVersion
  edits,             \* the edits so far, for the bound
  updates            \* the update dialogs, one over the other

vars == <<running, release, main, copy, file, title, storeDirty,
          dialog, edits, published, worker, notified, updates>>
checks == <<published, worker, notified, updates>>

------------------------------------------------------------------------------
(* Parameters. *)

Params == {"version", "profile", "dismissed", "width"}
Entries == Params \cup Keys
Releases == 1..Newest

Values(e) == CASE e = "version" -> Releases
               [] e = "profile" -> Names
               [] e = "dismissed" -> {0} \cup Releases      \* 0: the empty text
               [] e = "width" -> Widths
               [] OTHER -> SUBSET Strokes

Default(e) == CASE e = "dismissed" -> 0
                [] e = "width" -> DefaultWidth
                [] e \in Keys -> DefaultStrokes[e]
                [] OTHER -> None

Fresh(r) ==
  [e \in Entries |-> IF e = "version" THEN SetCore(NewCore, r)
                     ELSE WithDefault(NewCore, Default(e))]

Get(s, e) == Effective(s[e])

AnyDirty(s) == \E e \in Entries : IsDirty(s[e])

SetTo(s, e, v) == [s EXCEPT ![e] = SetCore(@, v)]

InRange(e, v) == e = "width" => v >= MinWidth

CommitAll(s) == [e \in Entries |-> Commit(s[e])]

ResetToDefault(s) == [e \in Entries |-> Reset(s[e])]

ToJson(s) == [e \in Entries |-> CoreJson(s[e])]

(* A map of parameters takes up only keys that it does not have, so that     *)
(* nothing that is stored of a shortcut reaches it.                          *)
FromMap(core, json) == core
(* Mutant: a value that was unset in the file is left as it is. *)
FromJsonPresent(s, json) ==
  [e \in Entries |-> IF e \in Keys THEN FromMap(s[e], json[e])
                     ELSE IF json[e].value = None THEN s[e]
                     ELSE CoreFromJson(s[e], json[e])]

FromJson(s, json) ==
  [e \in Entries |-> IF e \in Keys THEN FromMap(s[e], json[e])
                     ELSE CoreFromJson(s[e], json[e])]

Load(s, f) == IF f = NoFile THEN s ELSE FromJson(s, f)

------------------------------------------------------------------------------
(* The program starts and ends. *)

ClosedDialog == [snapshot |-> None, rows |-> None, marked |-> {}, unsaved |-> FALSE]
IsOpen == dialog.snapshot # None
AtRest == running /\ ~IsOpen /\ updates = <<>>
InPreferences == running /\ IsOpen /\ updates = <<>>

Init ==
  /\ running = FALSE /\ release = 1 /\ published = 1
  /\ main = Fresh(1) /\ copy = Fresh(1) /\ file = NoFile
  /\ title = FALSE /\ storeDirty = FALSE
  /\ dialog = ClosedDialog /\ edits = 0
  /\ worker = Idle /\ notified = 0 /\ updates = <<>>

(* The copy is made before a profile is chosen. *)
EnsureProfile(s) ==
  \/ /\ Get(s, "profile") \in Profiles
     /\ main' = s /\ storeDirty' = FALSE /\ title' = FALSE
  \/ /\ Get(s, "profile") \notin Profiles
     /\ \E n \in Profiles : main' = SetTo(s, "profile", n)
     /\ storeDirty' \in BOOLEAN          \* a profile was created, or one was there
     /\ title' = TRUE

Start(r) ==
  /\ ~running /\ file # Torn /\ r \in release..published
  /\ running' = TRUE /\ release' = r
  /\ LET loaded == Load(Fresh(r), file)
     IN /\ copy' = loaded
        /\ EnsureProfile(loaded)
  /\ worker' = Busy
  /\ UNCHANGED <<file, dialog, edits, published, notified, updates>>

Ended ==
  /\ running' = FALSE
  /\ main' = Fresh(release) /\ copy' = Fresh(release)
  /\ title' = FALSE /\ storeDirty' = FALSE
  /\ dialog' = ClosedDialog /\ edits' = 0
  /\ worker' = Idle /\ notified' = 0 /\ updates' = <<>>
  /\ UNCHANGED <<release, published>>

(* With unsaved changes the user is asked, and may discard them. *)
CloseEvent == Ended /\ UNCHANGED file
Quit == AtRest /\ CloseEvent

Die == running /\ Ended /\ UNCHANGED file

(* The file is cut to nothing before it is written. *)
DieInSave == running /\ Ended /\ file' = Torn

(* A start with such a file ends in a parse error, until somebody removes it. *)
DiscardFile ==
  /\ file = Torn /\ ~running
  /\ file' = NoFile
  /\ UNCHANGED <<running, release, main, copy, title, storeDirty,
                 dialog, edits, checks>>

------------------------------------------------------------------------------
(* Saving, and the preferences dialog. *)

(* Mutant: every save takes the mark off the title. *)
TitleCleared == title' = FALSE

TitleOnSave == title' = (title /\ storeDirty)

Save(s) == main' = CommitAll(s) /\ file' = ToJson(s) /\ TitleOnSave

(* Mutant: nothing is written if no store has changed. *)
SaveAllStores ==
  /\ AtRest
  /\ main' = CommitAll(main)
  /\ IF storeDirty THEN file' = ToJson(main) ELSE UNCHANGED file
  /\ storeDirty' = FALSE /\ title' = FALSE
  /\ UNCHANGED <<running, release, copy, dialog, edits, checks>>

SaveAll ==
  /\ AtRest
  /\ main' = CommitAll(main) /\ file' = ToJson(main)
  /\ storeDirty' = FALSE /\ title' = FALSE
  /\ UNCHANGED <<running, release, copy, dialog, edits, checks>>

ChangeStore ==
  /\ AtRest
  /\ storeDirty' = TRUE /\ title' = TRUE
  /\ UNCHANGED <<running, release, main, copy, file, dialog, edits, checks>>

Editable == Params \ {"version"}

(* One more edit, within the bound. *)
Editing == InPreferences /\ edits < MaxEdits /\ edits' = edits + 1

(* An editor is filled from `get`, which throws if there is no value. *)
OpenPreferences ==
  /\ AtRest
  /\ Save(main)
  /\ IF \A e \in Entries : Get(main, e) # None
     THEN /\ dialog' = [snapshot |-> ToJson(main),
                        rows |-> [k \in Keys |-> Get(main, k)],
                        marked |-> {}, unsaved |-> FALSE]
          /\ UNCHANGED running
     ELSE running' = FALSE /\ UNCHANGED dialog
  /\ UNCHANGED <<release, copy, storeDirty, edits, checks>>

(* The main window hears that a parameter is dirty, never that it is clean;  *)
(* the stripe of a row follows the parameter that spoke last, and the label  *)
(* asks all of them.  Nobody speaks if nothing changed.                      *)
Row(e) == IF e \in Keys THEN "shortcuts" ELSE e
Marked(e, core) == IF IsDirty(core) THEN dialog.marked \cup {Row(e)}
                                    ELSE dialog.marked \ {Row(e)}

Tell(e, core, rows) ==
  IF core = main[e]
  THEN UNCHANGED title /\ dialog' = [dialog EXCEPT !.rows = rows]
  ELSE /\ title' = (title \/ IsDirty(core))
       /\ dialog' = [dialog EXCEPT !.rows = rows, !.marked = Marked(e, core),
                                   !.unsaved = AnyDirty(main')]

Edit(p, v) ==
  /\ Editing /\ v # Get(main, p) /\ InRange(p, v)
  /\ main' = SetTo(main, p, v)
  /\ Tell(p, main'[p], dialog.rows)
  /\ UNCHANGED <<running, release, copy, file, storeDirty, checks>>

(* The validator compares with every set, the one that is to change included. *)
Collides(S) == \E l \in Keys : ~(S \cap Get(main, l) \subseteq {NoStroke})

(* The parameter is set on a copy first, which tells the subscribers.        *)
SetAt(k, S, rows) ==
  /\ main' = IF Collides(S) THEN main ELSE SetTo(main, k, S)
  /\ Tell(k, SetTo(main, k, S)[k], rows)
  /\ UNCHANGED <<running, release, copy, file, storeDirty, checks>>

(* A row goes on naming the stroke it was built with. *)
EditShortcut(k, old, new) ==
  /\ Editing /\ old \in dialog.rows[k]
  /\ old \in Get(main, k) /\ new \notin Get(main, k)
  /\ SetAt(k, (Get(main, k) \ {old}) \cup {new}, dialog.rows)

ReshapeRow(k, S) ==
  SetAt(k, S, IF Collides(S) THEN dialog.rows ELSE [dialog.rows EXCEPT ![k] = S])

AddShortcut(k) == Editing /\ ReshapeRow(k, Get(main, k) \cup {NoStroke})

RemoveShortcut(k, old) ==
  /\ Editing /\ old \in dialog.rows[k]
  /\ ReshapeRow(k, Get(main, k) \ {old})

LeavePreferences(s) ==
  /\ InPreferences
  /\ Save(s)
  /\ dialog' = ClosedDialog
  /\ UNCHANGED <<running, release, copy, storeDirty, edits, checks>>

SavePreferences == LeavePreferences(main)

ResetPreferences == LeavePreferences(ResetToDefault(main))

(* Loading tells nobody. *)
CancelPreferences ==
  LeavePreferences(FromJson(main, dialog.snapshot))

------------------------------------------------------------------------------
(* The update check. *)

session == <<running, release, file, title, storeDirty, dialog, edits>>

Publish ==
  /\ published < Newest
  /\ published' = published + 1
  /\ UNCHANGED <<session, main, copy, worker, notified, updates>>

(* A finished fetch is not running, also when it has not been delivered. *)
Tick ==
  /\ running /\ worker # Busy
  /\ worker' = Busy
  /\ UNCHANGED <<session, main, copy, published, notified, updates>>

Fetch ==
  /\ worker = Busy
  /\ worker' \in {0, published}           \* 0: any failure
  /\ UNCHANGED <<session, main, copy, published, notified, updates>>

Announced(latest) == latest > release /\ latest # notified

Deliver ==
  /\ worker \notin {Idle, Busy}
  /\ worker' = Idle
  /\ notified' = IF Announced(worker) THEN worker ELSE notified
  /\ updates' = IF Announced(worker) /\ Get(copy, "dismissed") # worker
                THEN Append(updates, worker) ELSE updates
  /\ UNCHANGED <<session, main, copy, published>>

Shown == updates[Len(updates)]
CloseUpdate == updates' = SubSeq(updates, 1, Len(updates) - 1)

AcknowledgeUpdate ==
  /\ updates # <<>>
  /\ CloseUpdate
  /\ UNCHANGED <<session, main, copy, published, worker, notified>>

(* It is the copy that is changed and saved. *)
DismissUpdate ==
  /\ updates # <<>>
  /\ CloseUpdate
  /\ copy' = CommitAll(SetTo(copy, "dismissed", Shown))
  /\ file' = ToJson(copy')
  /\ UNCHANGED <<running, release, main, title, storeDirty, dialog,
                 edits, published, worker, notified>>

------------------------------------------------------------------------------
EditParams == \E p \in Editable : \E v \in Values(p) : Edit(p, v)
EditShortcuts ==
  \E k \in Keys :
    \/ \E old, new \in Strokes : EditShortcut(k, old, new)
    \/ AddShortcut(k)
    \/ \E old \in Strokes : RemoveShortcut(k, old)

Next ==
  \/ \E r \in Releases : Start(r)
  \/ Quit \/ Die \/ DieInSave \/ DiscardFile
  \/ SaveAll \/ ChangeStore
  \/ OpenPreferences \/ EditParams \/ EditShortcuts
  \/ SavePreferences \/ ResetPreferences \/ CancelPreferences
  \/ Publish \/ Tick \/ Fetch \/ Deliver \/ AcknowledgeUpdate \/ DismissUpdate

Spec == Init /\ [][Next]_vars

------------------------------------------------------------------------------
(* What was saved stays saved, with one exception: while nothing is unsaved, *)
(* the file holds the parameters of the program, or it is exactly what the   *)
(* update check wrote from the copy it made at the start (Settings::save and *)
(* VCSController).  Nothing else writes the file or forgets to.              *)
SavedIsKept ==
  running /\ ~AnyDirty(main) =>
    \/ file = ToJson(main)
    \/ file = ToJson(copy)
    \/ file \notin {NoFile, Torn} /\ \A p \in Params : file[p].value = main[p].value

(* Closing the preferences takes every parameter but the shortcuts back to   *)
(* what it was when they were opened, in the program and in the file,        *)
(* whatever was edited and whatever the update check did meanwhile           *)
(* (SettingsMenuController::_onPreferencesRequested).                        *)
CancelRestores ==
  [][IsOpen /\ CancelPreferences =>
       \A p \in Params : /\ CoreJson(main'[p]) = dialog.snapshot[p]
                         /\ file'[p] = dialog.snapshot[p]
                         /\ ~IsDirty(main'[p])]_vars

(* What would be lost at the end of the program is announced: the handlers   *)
(* hear of changes one by one and of saves of two kinds, and together they   *)
(* never miss one (DirtyStateHandler, _onRequestSave).  In the preferences   *)
(* the label and the stripe of every row but that of the shortcuts say       *)
(* exactly what is unsaved (_updateUnsavedLabel, buildParamRows).            *)
UnsavedIsShown ==
  /\ running /\ (storeDirty \/ AnyDirty(main)) => title
  /\ IsOpen => /\ dialog.unsaved = AnyDirty(main)
               /\ \A p \in Params : (p \in dialog.marked) = IsDirty(main[p])
==============================================================================
