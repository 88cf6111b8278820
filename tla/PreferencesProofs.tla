------------------------- MODULE PreferencesProofs -------------------------
(* For every set of names, actions, strokes, widths and releases, and every  *)
(* number of edits: the types of the settings, that what was saved stays     *)
(* saved, that what is unsaved is shown, and that a cancel goes back.        *)
EXTENDS Preferences, TLAPS

-----------------------------------------------------------------------------
(* Types. *)

Stored(e) == Values(e) \cup {None}
Defaults(e) == IF e \in Keys THEN Values(e) ELSE Stored(e)
Core(e) == [value : Stored(e), base : Stored(e), default : Defaults(e), restart : BOOLEAN]
Json(e) == [value : Stored(e), default : Defaults(e)]

IsSettings(s) == s = [e \in Entries |-> s[e]] /\ \A e \in Entries : s[e] \in Core(e)
IsJson(f) == f = [e \in Entries |-> f[e]] /\ \A e \in Entries : f[e] \in Json(e)

TypeOK ==
  /\ running \in BOOLEAN /\ release \in Releases /\ published \in Releases
  /\ IsSettings(main) /\ IsSettings(copy)
  /\ file \in {NoFile, Torn} \/ IsJson(file)
  /\ title \in BOOLEAN /\ storeDirty \in BOOLEAN
  /\ dialog = [snapshot |-> dialog.snapshot, rows |-> dialog.rows,
               marked |-> dialog.marked, unsaved |-> dialog.unsaved]
  /\ dialog.snapshot = None \/ IsJson(dialog.snapshot)
  /\ dialog.snapshot # None => dialog.rows \in [Keys -> SUBSET Strokes]
  /\ dialog.marked \subseteq Params \cup {"shortcuts"} /\ dialog.unsaved \in BOOLEAN
  /\ edits \in 0..MaxEdits /\ worker \in {Idle, Busy} \cup 0..Newest
  /\ notified \in 0..Newest /\ updates \in Seq(Releases)

(* What is stored of a parameter is what it had when it was last saved or   *)
(* loaded.                                                                  *)
BaseJson(s) == [e \in Entries |-> [value |-> s[e].base, default |-> s[e].default]]

FileHasBase ==
  running =>
    \/ file = BaseJson(main)
    \/ file = ToJson(copy)
    \/ file \notin {NoFile, Torn} /\ \A p \in Params : file[p].value = main[p].base
    \/ IsDirty(main["version"])
-----------------------------------------------------------------------------
LEMMA EntryFacts ==
  /\ Params \cap Keys = {} /\ "version" \in Params /\ "version" \in Entries
  /\ "profile" \in Params /\ "profile" \in Entries
  /\ "dismissed" \in Params /\ "dismissed" \in Entries
  /\ None \notin Names /\ None \notin Nat
BY PreferencesAssumption DEF Params, Entries

LEMMA CoreIs ==
  ASSUME NEW e, NEW c \in Core(e)
  PROVE  /\ c.value \in Stored(e) /\ c.base \in Stored(e) /\ c.default \in Defaults(e)
         /\ Effective(c) \in Defaults(e)
BY DEF Core, Effective, Defaults, Stored

LEMMA SetCoreIs ==
  ASSUME NEW e, NEW c \in Core(e), NEW v \in Values(e)
  PROVE  /\ SetCore(c, v) \in Core(e)
         /\ SetCore(c, v).base = c.base /\ SetCore(c, v).default = c.default
         /\ SetCore(c, v).value = IF v = Effective(c) THEN c.value ELSE v
BY DEF Core, SetCore, Stored

LEMMA CommitIs ==
  ASSUME NEW e, NEW c \in Core(e)
  PROVE  /\ Commit(c) \in Core(e) /\ ~ IsDirty(Commit(c))
         /\ Commit(c).value = c.value /\ Commit(c).base = c.value
         /\ Commit(c).default = c.default
         /\ CoreJson(Commit(c)) = CoreJson(c) /\ CoreJson(c) \in Json(e)
BY DEF Core, Commit, IsDirty, CoreJson, Json

LEMMA ResetIs ==
  ASSUME NEW e, NEW c \in Core(e)
  PROVE  Reset(c) \in Core(e)
BY DEF Core, Reset, Unset, Stored

LEMMA CoreFromJsonIs ==
  ASSUME NEW e, NEW c \in Core(e), NEW j \in Json(e)
  PROVE  /\ CoreFromJson(c, j) \in Core(e) /\ ~ IsDirty(CoreFromJson(c, j))
         /\ CoreFromJson(c, j).value = j.value /\ CoreFromJson(c, j).base = j.value
         /\ CoreJson(CoreFromJson(c, j)) = j
BY DEF Core, Json, CoreFromJson, IsDirty, CoreJson

-----------------------------------------------------------------------------
LEMMA SetToIs ==
  ASSUME NEW s, IsSettings(s), NEW e \in Entries, NEW v \in Values(e)
  PROVE  /\ IsSettings(SetTo(s, e, v)) /\ SetTo(s, e, v)[e] = SetCore(s[e], v)
         /\ \A f \in Entries \ {e} : SetTo(s, e, v)[f] = s[f]
<1> DEFINE t == SetTo(s, e, v)
<1>1. DOMAIN s = Entries
  BY DEF IsSettings
<1>2. t[e] = SetCore(s[e], v) /\ \A f \in Entries \ {e} : t[f] = s[f]
  BY <1>1 DEF SetTo
<1>3. t = [f \in Entries |-> t[f]]
  BY <1>1 DEF SetTo, IsSettings
<1>4. \A f \in Entries : t[f] \in Core(f)
  BY <1>2, SetCoreIs DEF IsSettings
<1> QED
  BY <1>2, <1>3, <1>4 DEF IsSettings

LEMMA CommitAllIs ==
  ASSUME NEW s, IsSettings(s)
  PROVE  /\ IsSettings(CommitAll(s)) /\ ~ AnyDirty(CommitAll(s))
         /\ IsJson(ToJson(s)) /\ BaseJson(CommitAll(s)) = ToJson(s)
         /\ ToJson(CommitAll(s)) = ToJson(s)
         /\ \A e \in Entries : CommitAll(s)[e] = Commit(s[e]) /\ ToJson(s)[e] = CoreJson(s[e])
<1> DEFINE t == CommitAll(s)
<1>1. \A e \in Entries : t[e] = Commit(s[e]) /\ s[e] \in Core(e)
  BY DEF CommitAll, IsSettings
<1>2. IsSettings(t) /\ ~ AnyDirty(t)
  <2>1. t = [e \in Entries |-> t[e]]
    BY DEF CommitAll
  <2>2. \A e \in Entries : t[e] \in Core(e) /\ ~ IsDirty(t[e])
    BY <1>1, CommitIs
  <2> HIDE DEF t
  <2> QED
    BY <2>1, <2>2 DEF IsSettings, AnyDirty
<1>3. \A e \in Entries : ToJson(s)[e] = CoreJson(s[e])
  BY DEF ToJson
<1>4. IsJson(ToJson(s))
  <2>1. \A e \in Entries : ToJson(s)[e] \in Json(e)
    BY <1>1, <1>3, CommitIs
  <2> QED
    BY <2>1 DEF IsJson, ToJson
<1>5. \A e \in Entries : CoreJson(t[e]) = CoreJson(s[e])
  BY <1>1, CommitIs
<1>6. \A e \in Entries : [value |-> t[e].base, default |-> t[e].default] = CoreJson(s[e])
  BY <1>1, CommitIs DEF CoreJson
<1> HIDE DEF t
<1>7. ToJson(t) = ToJson(s)
  BY <1>5 DEF ToJson
<1>8. BaseJson(t) = ToJson(s)
  BY <1>6 DEF ToJson, BaseJson
<1> QED
  BY <1>1, <1>2, <1>3, <1>4, <1>7, <1>8 DEF t

LEMMA ResetAllIs ==
  ASSUME NEW s, IsSettings(s)
  PROVE  IsSettings(ResetToDefault(s))
<1>1. \A e \in Entries : ResetToDefault(s)[e] \in Core(e)
  BY ResetIs DEF ResetToDefault, IsSettings
<1> QED
  BY <1>1 DEF ResetToDefault, IsSettings

(* Loading changes the parameters alone, and they are clean then. *)
LEMMA FromJsonIs ==
  ASSUME NEW s, IsSettings(s), NEW f, IsJson(f)
  PROVE  /\ IsSettings(FromJson(s, f))
         /\ \A p \in Params : /\ CoreJson(FromJson(s, f)[p]) = f[p]
                              /\ FromJson(s, f)[p].base = f[p].value
                              /\ ~ IsDirty(FromJson(s, f)[p])
         /\ \A k \in Keys : FromJson(s, f)[k] = s[k]
<1> DEFINE t == FromJson(s, f)
<1>1. \A p \in Params : t[p] = CoreFromJson(s[p], f[p]) /\ p \in Entries
  BY EntryFacts DEF FromJson, Entries
<1>2. \A k \in Keys : t[k] = s[k] /\ k \in Entries
  BY DEF FromJson, FromMap, Entries
<1>3. \A e \in Entries : s[e] \in Core(e) /\ f[e] \in Json(e)
  BY DEF IsSettings, IsJson
<1>4. t = [e \in Entries |-> t[e]]
  BY DEF FromJson
<1> HIDE DEF t
<1>5. ASSUME NEW p \in Params
      PROVE  /\ t[p] \in Core(p) /\ CoreJson(t[p]) = f[p]
             /\ t[p].base = f[p].value /\ ~ IsDirty(t[p])
  BY <1>1, <1>3, CoreFromJsonIs
<1>6. IsSettings(t)
  BY <1>2, <1>3, <1>4, <1>5 DEF IsSettings, Entries
<1> QED
  BY <1>2, <1>5, <1>6 DEF t

LEMMA FreshIs ==
  ASSUME NEW r \in Releases
  PROVE  /\ IsSettings(Fresh(r)) /\ IsDirty(Fresh(r)["version"])
         /\ Get(Fresh(r), "profile") = None
         /\ \A k \in Keys : ~ IsDirty(Fresh(r)[k])
<1>0. r # None /\ r \in Nat /\ NewCore.value = None /\ NewCore.default = None /\ NewCore.base = None
  BY EntryFacts DEF Releases, NewCore
<1>1. Fresh(r)["version"] = [NewCore EXCEPT !.value = r]
  BY <1>0, EntryFacts DEF Fresh, SetCore, Effective
<1>2. \A e \in Entries \ {"version"} : Fresh(r)[e] = [NewCore EXCEPT !.default = Default(e)]
  BY DEF Fresh, WithDefault
<1>3. \A e \in Entries \ {"version"} : Default(e) \in Defaults(e)
  <2> SUFFICES ASSUME NEW e \in Entries \ {"version"} PROVE Default(e) \in Defaults(e)
    OBVIOUS
  <2>1. CASE e \in Keys
    BY <2>1, PreferencesAssumption DEF Default, Defaults, Stored, Values
  <2>2. CASE e \in Params
    BY <2>2, EntryFacts, PreferencesAssumption DEF Default, Defaults, Stored, Values, Params
  <2> QED
    BY <2>1, <2>2 DEF Entries
<1>4. \A e \in Entries : Fresh(r)[e] \in Core(e)
  <2>1. r \in Stored("version") /\ Defaults("version") = Stored("version")
    BY EntryFacts DEF Stored, Values, Defaults
  <2>2. Fresh(r)["version"] \in Core("version")
    BY <1>1, <2>1 DEF Core, NewCore, Stored, Defaults
  <2>3. \A e \in Entries \ {"version"} : Fresh(r)[e] \in Core(e)
    BY <1>2, <1>3 DEF Core, NewCore, Stored
  <2> QED
    BY <2>2, <2>3
<1>5. IsSettings(Fresh(r))
  BY <1>4 DEF Fresh, IsSettings
<1>6. IsDirty(Fresh(r)["version"])
  BY <1>0, <1>1 DEF IsDirty, NewCore
<1>7. Get(Fresh(r), "profile") = None
  BY <1>0, <1>2, EntryFacts DEF Get, Effective, Default, NewCore
<1>8. ASSUME NEW k \in Keys PROVE ~ IsDirty(Fresh(r)[k])
  <2>1. k \in Entries \ {"version"}
    BY EntryFacts DEF Entries
  <2>2. Fresh(r)[k] = [NewCore EXCEPT !.default = Default(k)]
    BY <1>2, <2>1
  <2> QED
    BY <2>2 DEF IsDirty, NewCore
<1> QED
  BY <1>5, <1>6, <1>7, <1>8

-----------------------------------------------------------------------------
(* What the actions do to the settings. *)

LEMMA GetIs ==
  ASSUME NEW s, IsSettings(s), NEW e \in Entries
  PROVE  Get(s, e) \in Defaults(e)
BY CoreIs DEF Get, IsSettings

LEMMA StrokesIs ==
  ASSUME NEW k \in Keys
  PROVE  k \in Entries /\ k \notin Params /\ Values(k) = SUBSET Strokes /\ Defaults(k) = SUBSET Strokes
BY EntryFacts, PreferencesAssumption DEF Entries, Params, Values, Defaults

LEMMA LoadIs ==
  ASSUME NEW r \in Releases, NEW f, f = NoFile \/ IsJson(f)
  PROVE  LET s == Load(Fresh(r), f)
         IN  /\ IsSettings(s)
             /\ IF f = NoFile THEN s = Fresh(r)
                ELSE ~ AnyDirty(s) /\ \A p \in Params : s[p].base = f[p].value
<1> DEFINE s == Load(Fresh(r), f)
<1>1. CASE f = NoFile
  <2>1. s = Fresh(r)
    BY <1>1 DEF Load
  <2> HIDE DEF s
  <2> QED
    BY <1>1, <2>1, FreshIs DEF s
<1>2. CASE f # NoFile
  <2>1. s = FromJson(Fresh(r), f) /\ IsJson(f)
    BY <1>2 DEF Load
  <2>2. IsSettings(Fresh(r)) /\ \A k \in Keys : ~ IsDirty(Fresh(r)[k])
    BY FreshIs
  <2>3. /\ IsSettings(s)
        /\ \A p \in Params : s[p].base = f[p].value /\ ~ IsDirty(s[p])
        /\ \A k \in Keys : s[k] = Fresh(r)[k]
    BY <2>1, <2>2, FromJsonIs
  <2> HIDE DEF s
  <2>4. ~ AnyDirty(s)
    BY <2>2, <2>3 DEF AnyDirty, Entries
  <2> QED
    BY <1>2, <2>3, <2>4 DEF s
<1> QED
  BY <1>1, <1>2

(* A profile that is chosen at the start is dirty. *)
LEMMA EnsureProfileIs ==
  ASSUME NEW s, IsSettings(s), EnsureProfile(s)
  PROVE  /\ IsSettings(main') /\ title' \in BOOLEAN /\ storeDirty' \in BOOLEAN
         /\ \A e \in Entries : main'[e].base = s[e].base
         /\ main'["version"] = s["version"]
         /\ \/ main' = s /\ Get(s, "profile") \in Profiles /\ storeDirty' = FALSE
            \/ title' = TRUE
<1>1. CASE main' = s /\ Get(s, "profile") \in Profiles /\ storeDirty' = FALSE /\ title' = FALSE
  BY <1>1
<1>2. CASE /\ \E n \in Profiles : main' = SetTo(s, "profile", n)
           /\ storeDirty' \in BOOLEAN /\ title' = TRUE
  <2>1. PICK n \in Profiles : main' = SetTo(s, "profile", n)
    BY <1>2
  <2>2. n \in Values("profile") /\ "profile" \in Entries /\ "version" \in Entries \ {"profile"}
    BY EntryFacts, PreferencesAssumption DEF Values
  <2>3. /\ IsSettings(main') /\ main'["profile"] = SetCore(s["profile"], n)
        /\ \A f \in Entries \ {"profile"} : main'[f] = s[f]
    BY <2>1, <2>2, SetToIs
  <2>4. s["profile"] \in Core("profile")
    BY <2>2 DEF IsSettings
  <2>5. main'["profile"].base = s["profile"].base
    BY <2>2, <2>3, <2>4, SetCoreIs
  <2> QED
    BY <1>2, <2>2, <2>3, <2>5
<1> QED
  BY <1>1, <1>2 DEF EnsureProfile

LEMMA SaveIs ==
  ASSUME NEW s, IsSettings(s), Save(s)
  PROVE  /\ IsSettings(main') /\ ~ AnyDirty(main') /\ IsJson(file')
         /\ file' = BaseJson(main') /\ file' = ToJson(s)
         /\ title' = (title /\ storeDirty)
         /\ main' = CommitAll(s)
BY CommitAllIs DEF Save, TitleOnSave

(* The branch of the shortcuts changes one of them at most. *)
LEMMA SetAtIs ==
  ASSUME TypeOK, NEW k \in Keys, NEW S \in SUBSET Strokes, NEW rows, SetAt(k, S, rows)
  PROVE  /\ IsSettings(main') /\ IsSettings(SetTo(main, k, S))
         /\ \A e \in Entries : main'[e].base = main[e].base /\ main'[e].default = main[e].default
         /\ \A p \in Params : main'[p] = main[p]
         /\ main' = main \/ main' = SetTo(main, k, S)
         /\ UNCHANGED <<running, release, copy, file, storeDirty, checks>>
         /\ Tell(k, SetTo(main, k, S)[k], rows)
<1>0. IsSettings(main) /\ k \in Entries /\ k \notin Params
  BY StrokesIs DEF TypeOK
<1>1. S \in Values(k)
  BY StrokesIs
<1> DEFINE t == SetTo(main, k, S)
<1>2. /\ IsSettings(t) /\ t[k] = SetCore(main[k], S)
      /\ \A f \in Entries \ {k} : t[f] = main[f]
  BY <1>0, <1>1, SetToIs
<1>3. t[k].base = main[k].base /\ t[k].default = main[k].default
  BY <1>0, <1>1, <1>2, SetCoreIs DEF IsSettings
<1>4. main' = main \/ main' = t
  BY DEF SetAt
<1>5. /\ UNCHANGED <<running, release, copy, file, storeDirty, checks>>
      /\ Tell(k, t[k], rows)
  BY DEF SetAt
<1> HIDE DEF t
<1>6. \A p \in Params : p \in Entries \ {k}
  BY <1>0 DEF Entries
<1>7. \A e \in Entries : t[e].base = main[e].base /\ t[e].default = main[e].default
  BY <1>2, <1>3
<1>8. /\ IsSettings(main')
      /\ \A e \in Entries : main'[e].base = main[e].base /\ main'[e].default = main[e].default
      /\ \A p \in Params : main'[p] = main[p]
  BY <1>0, <1>2, <1>4, <1>6, <1>7
<1> QED
  BY <1>2, <1>4, <1>5, <1>8 DEF t

(* Every branch of the shortcuts ends in SetAt. *)
LEMMA EditShortcutsIs ==
  ASSUME TypeOK, EditShortcuts
  PROVE  /\ Editing
         /\ \E k \in Keys : \E S \in SUBSET Strokes : \E rows :
              SetAt(k, S, rows) /\ (IsOpen => rows \in [Keys -> SUBSET Strokes])
<1>0. PICK k \in Keys :
        \/ \E old, new \in Strokes : EditShortcut(k, old, new)
        \/ AddShortcut(k)
        \/ \E old \in Strokes : RemoveShortcut(k, old)
  BY DEF EditShortcuts
<1>1. Get(main, k) \in SUBSET Strokes
  BY GetIs, StrokesIs DEF TypeOK
<1>2. NoStroke \in Strokes
  BY PreferencesAssumption
<1>3. IsOpen => dialog.rows \in [Keys -> SUBSET Strokes]
  BY DEF TypeOK, IsOpen
<1>4. ASSUME NEW S \in SUBSET Strokes, Editing, ReshapeRow(k, S)
      PROVE  \E rows : SetAt(k, S, rows) /\ (IsOpen => rows \in [Keys -> SUBSET Strokes])
  <2> DEFINE rows == IF Collides(S) THEN dialog.rows ELSE [dialog.rows EXCEPT ![k] = S]
  <2>1. SetAt(k, S, rows)
    BY <1>4 DEF ReshapeRow
  <2>2. IsOpen => rows \in [Keys -> SUBSET Strokes]
    BY <1>3
  <2> QED
    BY <2>1, <2>2
<1>5. ASSUME NEW old \in Strokes, NEW new \in Strokes, EditShortcut(k, old, new)
      PROVE  /\ Editing
             /\ \E S \in SUBSET Strokes : \E rows :
                  SetAt(k, S, rows) /\ (IsOpen => rows \in [Keys -> SUBSET Strokes])
  <2>1. (Get(main, k) \ {old}) \cup {new} \in SUBSET Strokes
    BY <1>1
  <2>2. Editing /\ SetAt(k, (Get(main, k) \ {old}) \cup {new}, dialog.rows)
    BY <1>5 DEF EditShortcut
  <2> QED
    BY <1>3, <2>1, <2>2
<1>6. CASE AddShortcut(k)
  <2>1. Get(main, k) \cup {NoStroke} \in SUBSET Strokes
    BY <1>1, <1>2
  <2>2. Editing /\ ReshapeRow(k, Get(main, k) \cup {NoStroke})
    BY <1>6 DEF AddShortcut
  <2> QED
    BY <1>4, <2>1, <2>2
<1>7. ASSUME NEW old \in Strokes, RemoveShortcut(k, old)
      PROVE  /\ Editing
             /\ \E S \in SUBSET Strokes : \E rows :
                  SetAt(k, S, rows) /\ (IsOpen => rows \in [Keys -> SUBSET Strokes])
  <2>1. Get(main, k) \ {old} \in SUBSET Strokes
    BY <1>1
  <2>2. Editing /\ ReshapeRow(k, Get(main, k) \ {old})
    BY <1>7 DEF RemoveShortcut
  <2> QED
    BY <1>4, <2>1, <2>2
<1> QED
  BY <1>0, <1>5, <1>6, <1>7

-----------------------------------------------------------------------------
(* The invariant: besides the types, what is in the file, and what is shown. *)
Inv == TypeOK /\ FileHasBase /\ UnsavedIsShown /\ (IsOpen => running)

LEMMA InitInv == Init => Inv
<1> SUFFICES ASSUME Init PROVE Inv
  OBVIOUS
<1>1. 1 \in Releases /\ Newest \in Nat /\ MaxEdits \in Nat
  BY PreferencesAssumption DEF Releases
<1>2. IsSettings(main) /\ IsSettings(copy)
  BY <1>1, FreshIs DEF Init
<1>4. /\ dialog.snapshot = None /\ dialog.marked = {} /\ dialog.unsaved = FALSE
      /\ dialog = [snapshot |-> dialog.snapshot, rows |-> dialog.rows,
                   marked |-> dialog.marked, unsaved |-> dialog.unsaved]
  BY DEF Init, ClosedDialog
<1>5. 0 \in 0..Newest /\ 0 \in 0..MaxEdits /\ <<>> \in Seq(Releases)
  BY <1>1
<1>3. TypeOK
  BY <1>1, <1>2, <1>4, <1>5 DEF Init, TypeOK
<1> QED
  BY <1>3, <1>4 DEF Init, Inv, FileHasBase, UnsavedIsShown, IsOpen

(* The three things to say of a step. *)
DialogType ==
  /\ dialog = [snapshot |-> dialog.snapshot, rows |-> dialog.rows,
               marked |-> dialog.marked, unsaved |-> dialog.unsaved]
  /\ dialog.snapshot = None \/ IsJson(dialog.snapshot)
  /\ dialog.snapshot # None => dialog.rows \in [Keys -> SUBSET Strokes]
  /\ dialog.marked \subseteq Params \cup {"shortcuts"} /\ dialog.unsaved \in BOOLEAN

ChecksType ==
  /\ published \in Releases /\ worker \in {Idle, Busy} \cup 0..Newest
  /\ notified \in 0..Newest /\ updates \in Seq(Releases)

LEMMA TypeIs ==
  TypeOK <=> /\ running \in BOOLEAN /\ release \in Releases /\ edits \in 0..MaxEdits
             /\ IsSettings(main) /\ IsSettings(copy)
             /\ file \in {NoFile, Torn} \/ IsJson(file)
             /\ title \in BOOLEAN /\ storeDirty \in BOOLEAN
             /\ DialogType /\ ChecksType
BY DEF TypeOK, DialogType, ChecksType

TitleTells == running /\ (storeDirty \/ AnyDirty(main)) => title
DialogTells == IsOpen => /\ dialog.unsaved = AnyDirty(main)
                         /\ \A p \in Params : (p \in dialog.marked) = IsDirty(main[p])

LEMMA ShownIs == UnsavedIsShown <=> TitleTells /\ DialogTells
BY DEF UnsavedIsShown, TitleTells, DialogTells

LEMMA BaseIs ==
  ASSUME NEW s, NEW t, \A e \in Entries : s[e].base = t[e].base /\ s[e].default = t[e].default
  PROVE  BaseJson(s) = BaseJson(t)
BY DEF BaseJson

(* A save, of whatever settings, puts the file and the title right. *)
LEMMA SaveRight ==
  ASSUME Inv, NEW s, IsSettings(s), Save(s), UNCHANGED storeDirty, running
  PROVE  /\ IsSettings(main') /\ IsJson(file') /\ title' \in BOOLEAN
         /\ FileHasBase' /\ TitleTells' /\ ~ AnyDirty(main')
         /\ \A e \in Entries : ~ IsDirty(main'[e])
<1>1. /\ IsSettings(main') /\ ~ AnyDirty(main') /\ IsJson(file')
      /\ file' = BaseJson(main') /\ title' = (title /\ storeDirty)
  BY SaveIs
<1>2. TypeOK /\ TitleTells
  BY ShownIs DEF Inv
<1>3. title \in BOOLEAN /\ storeDirty \in BOOLEAN
  BY <1>2 DEF TypeOK
<1>4. FileHasBase'
  BY <1>1 DEF FileHasBase
<1>5. title' \in BOOLEAN /\ TitleTells'
  BY <1>1, <1>2, <1>3 DEF TitleTells
<1> QED
  BY <1>1, <1>4, <1>5 DEF AnyDirty

LEMMA StartStep ==
  ASSUME Inv, NEW r \in Releases, Start(r)
  PROVE  Inv'
<1>0. TypeOK /\ DialogType /\ ChecksType /\ ~ running /\ DialogTells
  BY TypeIs, ShownIs DEF Inv, Start
<1> DEFINE s == Load(Fresh(r), file)
<1>1. /\ running' = TRUE /\ release' = r /\ file # Torn /\ worker' = Busy
      /\ copy' = s /\ EnsureProfile(s)
      /\ UNCHANGED <<file, dialog, edits, published, notified, updates>>
  BY DEF Start
<1>2. file = NoFile \/ IsJson(file)
  BY <1>0, <1>1 DEF TypeOK
<1>3. /\ IsSettings(s)
      /\ IF file = NoFile THEN s = Fresh(r)
         ELSE ~ AnyDirty(s) /\ \A p \in Params : s[p].base = file[p].value
  BY <1>2, LoadIs
<1> HIDE DEF s
<1>4. /\ IsSettings(main') /\ title' \in BOOLEAN /\ storeDirty' \in BOOLEAN
      /\ \A e \in Entries : main'[e].base = s[e].base
      /\ main'["version"] = s["version"]
      /\ \/ main' = s /\ Get(s, "profile") \in Profiles /\ storeDirty' = FALSE
         \/ title' = TRUE
  BY <1>1, <1>3, EnsureProfileIs
<1>5. TypeOK'
  <2>1. DialogType' /\ ChecksType'
    BY <1>0, <1>1 DEF DialogType, ChecksType
  <2>2. (file \in {NoFile, Torn} \/ IsJson(file))' /\ edits' \in 0..MaxEdits
    BY <1>0, <1>1 DEF TypeOK
  <2> QED
    BY <1>1, <1>3, <1>4, <2>1, <2>2 DEF TypeOK, DialogType, ChecksType
<1>6. FileHasBase'
  <2>1. CASE file = NoFile
    <3>1. s["version"] = Fresh(r)["version"] /\ IsDirty(Fresh(r)["version"])
      BY <1>3, <2>1, FreshIs
    <3>2. IsDirty(main'["version"])
      BY <1>4, <3>1
    <3> QED
      BY <3>2 DEF FileHasBase
  <2>2. CASE file # NoFile
    <3>1. \A p \in Params : file'[p].value = main'[p].base
      BY <1>1, <1>3, <1>4, <2>2 DEF Entries
    <3> QED
      BY <1>1, <2>2, <3>1 DEF FileHasBase
  <2> QED
    BY <2>1, <2>2
<1>7. TitleTells'
  <2>1. CASE title' = TRUE
    BY <2>1 DEF TitleTells
  <2>2. CASE main' = s /\ Get(s, "profile") \in Profiles /\ storeDirty' = FALSE
    <3>1. s # Fresh(r)
      BY <2>2, FreshIs, EntryFacts, PreferencesAssumption
    <3>2. ~ AnyDirty(main')
      BY <1>3, <2>2, <3>1
    <3> QED
      BY <2>2, <3>2 DEF TitleTells
  <2> QED
    BY <1>4, <2>1, <2>2
<1>8. ~ IsOpen /\ IsOpen' = IsOpen
  BY <1>0, <1>1 DEF Inv, IsOpen
<1>9. DialogTells' /\ (IsOpen => running)'
  BY <1>8 DEF DialogTells
<1>10. UnsavedIsShown'
  BY <1>7, <1>9 DEF UnsavedIsShown, TitleTells, DialogTells
<1> QED
  BY <1>5, <1>6, <1>9, <1>10 DEF Inv

(* The end of the program, however it comes. *)
LEMMA EndedStep ==
  ASSUME Inv, Ended, file' \in {file, Torn}
  PROVE  Inv'
<1>0. TypeOK
  BY DEF Inv
<1>1. /\ running' = FALSE /\ release' = release /\ published' = published
      /\ main' = Fresh(release) /\ copy' = Fresh(release)
      /\ title' = FALSE /\ storeDirty' = FALSE /\ edits' = 0
      /\ worker' = Idle /\ notified' = 0 /\ updates' = <<>>
      /\ dialog' = [snapshot |-> None, rows |-> None, marked |-> {}, unsaved |-> FALSE]
  BY DEF Ended, ClosedDialog
<1>2. IsSettings(main') /\ IsSettings(copy')
  BY <1>0, <1>1, FreshIs DEF TypeOK
<1>3. 0 \in 0..MaxEdits /\ 0 \in 0..Newest /\ <<>> \in Seq(Releases)
  BY PreferencesAssumption
<1>4. DialogType'
  BY <1>1 DEF DialogType
<1>5. file' \in {NoFile, Torn} \/ IsJson(file')
  BY <1>0 DEF TypeOK
<1>6. TypeOK'
  BY <1>0, <1>1, <1>2, <1>3, <1>4, <1>5 DEF TypeOK, DialogType
<1>7. ~ IsOpen'
  BY <1>1 DEF IsOpen
<1> QED
  BY <1>1, <1>6, <1>7 DEF Inv, FileHasBase, UnsavedIsShown

(* Whatever leaves the settings, the file, the title and the dialog alone. *)
LEMMA ChecksStep ==
  ASSUME Inv, ChecksType', UNCHANGED <<session, main, copy>>
  PROVE  Inv'
<1>1. UNCHANGED <<running, release, file, title, storeDirty, dialog, edits, main, copy>>
  BY DEF session
<1>2. TypeOK'
  BY <1>1 DEF Inv, TypeOK, ChecksType
<1>3. FileHasBase'
  BY <1>1 DEF Inv, FileHasBase
<1>4. UnsavedIsShown' /\ (IsOpen => running)'
  BY <1>1 DEF Inv, UnsavedIsShown, IsOpen
<1> QED
  BY <1>2, <1>3, <1>4 DEF Inv

LEMMA UpdateStep ==
  ASSUME Inv, Publish \/ Tick \/ Fetch \/ Deliver \/ AcknowledgeUpdate
  PROVE  Inv'
<1>0. TypeOK /\ ChecksType /\ Newest \in Nat
  BY PreferencesAssumption, TypeIs DEF Inv
<1>1. CASE Publish
  <2>1. published + 1 \in Releases
    BY <1>0, <1>1 DEF Publish, ChecksType, Releases
  <2>2. ChecksType' /\ UNCHANGED <<session, main, copy>>
    BY <1>0, <1>1, <2>1 DEF Publish, ChecksType
  <2> QED
    BY <2>2, ChecksStep
<1>2. CASE Tick
  <2>1. ChecksType' /\ UNCHANGED <<session, main, copy>>
    BY <1>0, <1>2 DEF Tick, ChecksType
  <2> QED
    BY <2>1, ChecksStep
<1>3. CASE Fetch
  <2>1. {0, published} \subseteq 0..Newest
    BY <1>0 DEF ChecksType, Releases
  <2>2. ChecksType' /\ UNCHANGED <<session, main, copy>>
    BY <1>0, <1>3, <2>1 DEF Fetch, ChecksType
  <2> QED
    BY <2>2, ChecksStep
<1>4. CASE Deliver
  <2>1. worker \in 0..Newest /\ release \in 1..Newest
    BY <1>0, <1>4 DEF Deliver, ChecksType, TypeOK, Releases
  <2>2. Announced(worker) => worker \in Releases
    BY <1>0, <2>1 DEF Announced, Releases
  <2>3. notified' \in 0..Newest
    BY <1>0, <1>4, <2>1 DEF Deliver, ChecksType
  <2>4. updates' = updates \/ (worker \in Releases /\ updates' = Append(updates, worker))
    BY <1>4, <2>2 DEF Deliver
  <2>5. updates' \in Seq(Releases)
    BY <1>0, <2>4 DEF ChecksType
  <2>6. ChecksType' /\ UNCHANGED <<session, main, copy>>
    BY <1>0, <1>4, <2>3, <2>5 DEF Deliver, ChecksType
  <2> QED
    BY <2>6, ChecksStep
<1>5. CASE AcknowledgeUpdate
  <2>1. updates \in Seq(Releases) /\ updates # <<>> /\ updates' = SubSeq(updates, 1, Len(updates) - 1)
    BY <1>0, <1>5 DEF AcknowledgeUpdate, CloseUpdate, ChecksType
  <2>2. updates' \in Seq(Releases)
    BY <2>1
  <2>3. ChecksType' /\ UNCHANGED <<session, main, copy>>
    BY <1>0, <1>5, <2>2 DEF AcknowledgeUpdate, ChecksType
  <2> QED
    BY <2>3, ChecksStep
<1> QED
  BY <1>1, <1>2, <1>3, <1>4, <1>5

LEMMA DismissStep ==
  ASSUME Inv, DismissUpdate
  PROVE  Inv'
<1>0. TypeOK /\ ChecksType /\ Newest \in Nat
  BY PreferencesAssumption, TypeIs DEF Inv
<1>1. updates \in Seq(Releases) /\ updates # <<>> /\ updates' = SubSeq(updates, 1, Len(updates) - 1)
  BY <1>0 DEF DismissUpdate, CloseUpdate, ChecksType
<1>2. updates' \in Seq(Releases) /\ Shown \in Releases
  BY <1>1 DEF Shown
<1>3. Shown \in Values("dismissed") /\ "dismissed" \in Entries
  BY <1>2, EntryFacts DEF Values
<1> DEFINE s == SetTo(copy, "dismissed", Shown)
<1>4. IsSettings(s)
  BY <1>0, <1>3, SetToIs DEF TypeOK
<1>5. /\ copy' = CommitAll(s) /\ file' = ToJson(copy')
      /\ UNCHANGED <<running, release, main, title, storeDirty, dialog, edits, published, worker, notified>>
  BY DEF DismissUpdate
<1> HIDE DEF s
<1>6. IsSettings(copy') /\ IsJson(file')
  BY <1>4, <1>5, CommitAllIs
<1>7. TypeOK'
  BY <1>0, <1>2, <1>5, <1>6 DEF TypeOK
<1>8. FileHasBase'
  BY <1>5 DEF FileHasBase
<1>9. UnsavedIsShown' /\ (IsOpen => running)'
  BY <1>5 DEF Inv, UnsavedIsShown, IsOpen
<1> QED
  BY <1>7, <1>8, <1>9 DEF Inv

(* Saving everything, and a change of a store. *)
LEMMA StoreStep ==
  ASSUME Inv, SaveAll \/ ChangeStore
  PROVE  Inv'
<1>0. TypeOK
  BY DEF Inv
<1>1. CASE SaveAll
  <2>1. /\ main' = CommitAll(main) /\ file' = ToJson(main)
        /\ storeDirty' = FALSE /\ title' = FALSE /\ ~ IsOpen
        /\ UNCHANGED <<running, release, copy, dialog, edits, checks>>
    BY <1>1 DEF SaveAll, AtRest
  <2>2. IsSettings(main') /\ IsJson(file') /\ file' = BaseJson(main') /\ ~ AnyDirty(main')
    BY <1>0, <2>1, CommitAllIs DEF TypeOK
  <2>3. TypeOK'
    BY <1>0, <2>1, <2>2 DEF TypeOK, checks
  <2>4. ~ IsOpen'
    BY <2>1 DEF IsOpen
  <2> QED
    BY <2>1, <2>2, <2>3, <2>4 DEF Inv, FileHasBase, UnsavedIsShown
<1>2. CASE ChangeStore
  <2>1. /\ storeDirty' = TRUE /\ title' = TRUE
        /\ UNCHANGED <<running, release, main, copy, file, dialog, edits, published, worker, notified, updates>>
    BY <1>2 DEF ChangeStore, checks
  <2>2. TypeOK'
    BY <1>0, <2>1 DEF TypeOK
  <2>3. FileHasBase'
    BY <2>1 DEF Inv, FileHasBase
  <2>4. UnsavedIsShown' /\ (IsOpen => running)'
    BY <2>1 DEF Inv, UnsavedIsShown, IsOpen
  <2> QED
    BY <2>2, <2>3, <2>4 DEF Inv
<1> QED
  BY <1>1, <1>2

LEMMA OpenStep ==
  ASSUME Inv, OpenPreferences
  PROVE  Inv'
<1>0. TypeOK /\ IsSettings(main) /\ running /\ ~ IsOpen
  BY DEF Inv, TypeOK, OpenPreferences, AtRest
<1>1. Save(main) /\ UNCHANGED <<release, copy, storeDirty, edits, published, worker, notified, updates>>
  BY DEF OpenPreferences, checks
<1>2. /\ IsSettings(main') /\ IsJson(file') /\ title' \in BOOLEAN
      /\ FileHasBase' /\ TitleTells' /\ ~ AnyDirty(main')
      /\ \A e \in Entries : ~ IsDirty(main'[e])
  BY <1>0, <1>1, SaveRight
<1>3. CASE \A e \in Entries : Get(main, e) # None
  <2>1. /\ dialog' = [snapshot |-> ToJson(main), rows |-> [k \in Keys |-> Get(main, k)],
                      marked |-> {}, unsaved |-> FALSE]
        /\ running' = running
    BY <1>3 DEF OpenPreferences
  <2>2. IsJson(ToJson(main))
    BY <1>0, CommitAllIs
  <2>3. \A k \in Keys : Get(main, k) \in SUBSET Strokes
    BY <1>0, GetIs, StrokesIs
  <2>4. DialogType'
    BY <2>1, <2>2, <2>3 DEF DialogType
  <2>5. TypeOK'
    BY <1>0, <1>1, <1>2, <2>1, <2>4 DEF TypeOK, DialogType
  <2>6. dialog'.unsaved = FALSE /\ dialog'.marked = {}
    BY <2>1
  <2>7. DialogTells'
    <3>1. AnyDirty(main') = FALSE
      BY <1>2 DEF AnyDirty
    <3>2. \A p \in Params : IsDirty(main'[p]) = FALSE
      BY <1>2 DEF Entries, IsDirty
    <3>3. \A p \in Params : (p \in dialog'.marked) = IsDirty(main'[p])
      <4> SUFFICES ASSUME NEW p \in Params PROVE (p \in dialog'.marked) = IsDirty(main'[p])
        OBVIOUS
      <4>1. ~ (p \in dialog'.marked) /\ main'[p].value = main'[p].base
        BY <1>2, <2>6 DEF Entries, IsDirty
      <4> QED
        BY <4>1 DEF IsDirty
    <3>4. dialog'.unsaved = AnyDirty(main')
      BY <2>6, <3>1
    <3> QED
      BY <3>3, <3>4 DEF DialogTells
  <2>8. UnsavedIsShown'
    BY <1>2, <2>7 DEF UnsavedIsShown, TitleTells, DialogTells
  <2> QED
    BY <1>0, <1>2, <2>1, <2>5, <2>8 DEF Inv
<1>4. CASE ~ \A e \in Entries : Get(main, e) # None
  <2>1. running' = FALSE /\ dialog' = dialog
    BY <1>4 DEF OpenPreferences
  <2>2. TypeOK'
    BY <1>0, <1>1, <1>2, <2>1 DEF TypeOK
  <2>3. ~ IsOpen'
    BY <1>0, <2>1 DEF IsOpen
  <2> QED
    BY <1>2, <2>1, <2>2, <2>3 DEF Inv, UnsavedIsShown
<1> QED
  BY <1>3, <1>4

LEMMA LeaveStep ==
  ASSUME Inv, NEW s, IsSettings(s), LeavePreferences(s)
  PROVE  Inv'
<1>0. TypeOK
  BY DEF Inv
<1>1. /\ Save(s) /\ running /\ dialog' = ClosedDialog
      /\ UNCHANGED <<running, release, copy, storeDirty, edits, published, worker, notified, updates>>
  BY DEF LeavePreferences, InPreferences, checks
<1>2. /\ IsSettings(main') /\ IsJson(file') /\ title' \in BOOLEAN
      /\ FileHasBase' /\ TitleTells'
  BY <1>1, SaveRight
<1>3. DialogType' /\ ~ IsOpen'
  BY <1>1 DEF DialogType, IsOpen, ClosedDialog
<1>4. TypeOK'
  BY <1>0, <1>1, <1>2, <1>3 DEF TypeOK, DialogType
<1> QED
  BY <1>2, <1>3, <1>4 DEF Inv, UnsavedIsShown, TitleTells

(* Two settings that agree everywhere are the same. *)
LEMMA SameSettings ==
  ASSUME NEW s, NEW t, IsSettings(s), IsSettings(t), \A e \in Entries : s[e] = t[e]
  PROVE  s = t
BY DEF IsSettings

(* Who is told of a parameter shows it, and leaves the rest as it is. *)
LEMMA TellRight ==
  ASSUME TypeOK, TitleTells, DialogTells, IsOpen, running' = running, storeDirty' = storeDirty,
         NEW e \in Entries, NEW core, NEW rows \in [Keys -> SUBSET Strokes],
         core = main[e] => title' = title /\ dialog' = [dialog EXCEPT !.rows = rows],
         core # main[e] =>
           /\ title' = (title \/ IsDirty(core))
           /\ dialog' = [dialog EXCEPT !.rows = rows, !.marked = Marked(e, core),
                                       !.unsaved = AnyDirty(main')],
         \A f \in Entries \ {e} : main'[f] = main[f],
         main'[e] = core \/ (e \in Keys /\ main' = main),
         core = main[e] => main' = main
  PROVE  /\ DialogType' /\ IsOpen' /\ title' \in BOOLEAN /\ TitleTells' /\ DialogTells'
<1>0. /\ DialogType /\ title \in BOOLEAN /\ IsJson(dialog.snapshot) /\ dialog.snapshot # None
      /\ Params \cap Keys = {} /\ "shortcuts" \notin Params
  BY TypeIs, EntryFacts DEF IsOpen, DialogType, Params
<1>1. CASE core = main[e]
  <2>1. title' = title /\ dialog' = [dialog EXCEPT !.rows = rows] /\ main' = main
    BY <1>1
  <2>2. /\ dialog' = [snapshot |-> dialog.snapshot, rows |-> rows,
                      marked |-> dialog.marked, unsaved |-> dialog.unsaved]
    BY <1>0, <2>1 DEF DialogType
  <2>3. DialogType' /\ IsOpen'
    BY <1>0, <2>2 DEF DialogType, IsOpen
  <2>4. TitleTells' /\ DialogTells'
    BY <2>1, <2>2 DEF TitleTells, DialogTells
  <2> QED
    BY <1>0, <2>1, <2>3, <2>4
<1>2. CASE core # main[e]
  <2>1. /\ title' = (title \/ IsDirty(core))
        /\ dialog' = [dialog EXCEPT !.rows = rows, !.marked = Marked(e, core),
                                    !.unsaved = AnyDirty(main')]
    BY <1>2
  <2>2. dialog' = [snapshot |-> dialog.snapshot, rows |-> rows,
                   marked |-> Marked(e, core), unsaved |-> AnyDirty(main')]
    BY <1>0, <2>1 DEF DialogType
  <2>3. Row(e) \in Params \cup {"shortcuts"} /\ (e \in Keys => Row(e) = "shortcuts")
        /\ (e \in Params => Row(e) = e) /\ (e \in Keys \/ e \in Params)
    BY <1>0 DEF Row, Entries
  <2>4. Marked(e, core) \subseteq Params \cup {"shortcuts"}
    BY <1>0, <2>3 DEF Marked, DialogType
  <2>5. AnyDirty(main') \in BOOLEAN
    BY DEF AnyDirty
  <2>6. DialogType' /\ IsOpen'
    BY <1>0, <2>2, <2>4, <2>5 DEF DialogType, IsOpen
  <2>7. title' \in BOOLEAN
    BY <1>0, <2>1 DEF IsDirty
  <2>8. TitleTells'
    <3>1. AnyDirty(main') => IsDirty(core) \/ AnyDirty(main)
      BY DEF AnyDirty
    <3> QED
      BY <2>1, <3>1 DEF TitleTells
  <2>9. ASSUME NEW p \in Params PROVE (p \in dialog'.marked) = IsDirty(main'[p])
    <3>0. p \in Entries /\ (p \in dialog.marked) = IsDirty(main[p]) /\ IsDirty(main[p]) \in BOOLEAN
          /\ IsDirty(main'[p]) \in BOOLEAN
      BY DEF DialogTells, Entries, IsDirty
    <3>1. CASE p = e
      <4>1. Row(e) = p /\ main'[p] = core
        BY <1>0, <2>3, <3>1
      <4>2. p \in Marked(e, core) <=> IsDirty(core)
        BY <4>1 DEF Marked
      <4> QED
        BY <2>2, <3>0, <4>1, <4>2
    <3>2. CASE p # e
      <4>1. Row(e) # p /\ main'[p] = main[p]
        BY <1>0, <2>3, <3>0, <3>2
      <4>2. p \in Marked(e, core) <=> p \in dialog.marked
        BY <4>1 DEF Marked
      <4> QED
        BY <2>2, <3>0, <4>1, <4>2
    <3> QED
      BY <3>1, <3>2
  <2>10. dialog'.unsaved = AnyDirty(main')
    BY <2>2
  <2> QED
    BY <2>6, <2>7, <2>8, <2>9, <2>10 DEF DialogTells
<1> QED
  BY <1>1, <1>2

(* An edit leaves what was saved and the file alone. *)
LEMMA EditedStep ==
  ASSUME Inv, running, IsOpen, IsSettings(main'), edits' \in 0..MaxEdits,
         \A f \in Entries : main'[f].base = main[f].base /\ main'[f].default = main[f].default,
         main'["version"] = main["version"],
         UNCHANGED <<running, release, copy, file, storeDirty, checks>>,
         DialogType', IsOpen', title' \in BOOLEAN, TitleTells', DialogTells'
  PROVE  Inv'
<1>0. TypeOK /\ FileHasBase
  BY DEF Inv
<1>1. UNCHANGED <<running, release, copy, file, storeDirty, published, worker, notified, updates>>
  BY DEF checks
<1>2. TypeOK'
  BY <1>0, <1>1 DEF TypeOK, DialogType
<1>3. BaseJson(main') = BaseJson(main) /\ ToJson(copy') = ToJson(copy)
  BY <1>1, BaseIs
<1>4. \A p \in Params : main'[p].base = main[p].base
  BY DEF Entries
<1>5. FileHasBase'
  BY <1>0, <1>1, <1>3, <1>4 DEF FileHasBase
<1> QED
  BY <1>1, <1>2, <1>5 DEF Inv, UnsavedIsShown, TitleTells, DialogTells

LEMMA EditingIs ==
  ASSUME Inv, Editing
  PROVE  /\ running /\ IsOpen /\ edits' \in 0..MaxEdits /\ TypeOK /\ TitleTells /\ DialogTells
         /\ dialog.rows \in [Keys -> SUBSET Strokes]
<1>1. running /\ IsOpen /\ edits < MaxEdits /\ edits' = edits + 1
  BY DEF Editing, InPreferences
<1>2. TypeOK /\ TitleTells /\ DialogTells
  BY ShownIs DEF Inv
<1>3. edits \in 0..MaxEdits /\ MaxEdits \in Nat
  BY <1>2, PreferencesAssumption DEF TypeOK
<1> QED
  BY <1>1, <1>2, <1>3 DEF TypeOK, IsOpen

LEMMA EditStep ==
  ASSUME Inv, NEW p \in Editable, NEW v \in Values(p), Edit(p, v)
  PROVE  Inv'
<1>0. /\ running /\ IsOpen /\ edits' \in 0..MaxEdits /\ TypeOK /\ TitleTells /\ DialogTells
      /\ dialog.rows \in [Keys -> SUBSET Strokes] /\ IsSettings(main)
  BY EditingIs DEF Edit, TypeOK
<1>1. p \in Entries /\ p # "version" /\ p \in Params /\ "version" \in Entries
  BY EntryFacts DEF Editable, Entries
<1>2. /\ main' = SetTo(main, p, v) /\ Tell(p, main'[p], dialog.rows)
      /\ UNCHANGED <<running, release, copy, file, storeDirty, checks>>
  BY DEF Edit
<1>3. /\ IsSettings(main') /\ main'[p] = SetCore(main[p], v)
      /\ \A f \in Entries \ {p} : main'[f] = main[f]
  BY <1>0, <1>1, <1>2, SetToIs
<1>4. main[p] \in Core(p)
  BY <1>0, <1>1 DEF IsSettings
<1>5. main'[p].base = main[p].base /\ main'[p].default = main[p].default
  BY <1>3, <1>4, SetCoreIs
<1>6. main'[p] = main[p] => main' = main
  BY <1>0, <1>3, SameSettings
<1>u. running' = running /\ storeDirty' = storeDirty /\ Tell(p, main'[p], dialog.rows)
  BY <1>2
<1>c. \A f \in Entries \ {p} : main'[f] = main[f]
  BY <1>3
<1>k. PICK core, rows : core = main'[p] /\ rows = dialog.rows
  OBVIOUS
<1>r. rows \in [Keys -> SUBSET Strokes]
  BY <1>0, <1>k
<1>d. main'[p] = core /\ (core = main[p] => main' = main)
  BY <1>6, <1>k
<1>t. /\ core = main[p] => title' = title /\ dialog' = [dialog EXCEPT !.rows = rows]
      /\ core # main[p] =>
           /\ title' = (title \/ IsDirty(core))
           /\ dialog' = [dialog EXCEPT !.rows = rows, !.marked = Marked(p, core),
                                       !.unsaved = AnyDirty(main')]
  BY <1>k, <1>u DEF Tell
<1>7. DialogType' /\ IsOpen' /\ title' \in BOOLEAN /\ TitleTells' /\ DialogTells'
  BY <1>0, <1>1, <1>c, <1>d, <1>k, <1>r, <1>t, <1>u, TellRight
<1>8. /\ \A f \in Entries : main'[f].base = main[f].base /\ main'[f].default = main[f].default
      /\ main'["version"] = main["version"]
  BY <1>1, <1>3, <1>5
<1> QED
  BY <1>0, <1>2, <1>3, <1>7, <1>8, EditedStep

LEMMA EditShortcutsStep ==
  ASSUME Inv, EditShortcuts
  PROVE  Inv'
<1>1. TypeOK
  BY DEF Inv
<1>2. Editing
  BY <1>1, EditShortcutsIs
<1>3. PICK k \in Keys, S \in SUBSET Strokes :
        \E rows : SetAt(k, S, rows) /\ (IsOpen => rows \in [Keys -> SUBSET Strokes])
  BY <1>1, EditShortcutsIs
<1>4. PICK rows : SetAt(k, S, rows) /\ (IsOpen => rows \in [Keys -> SUBSET Strokes])
  BY <1>3
<1>0. /\ running /\ IsOpen /\ edits' \in 0..MaxEdits /\ TypeOK /\ TitleTells /\ DialogTells
      /\ IsSettings(main)
  BY <1>2, EditingIs DEF TypeOK
<1> DEFINE t == SetTo(main, k, S)
<1>5. /\ IsSettings(main') /\ IsSettings(t)
      /\ \A e \in Entries : main'[e].base = main[e].base /\ main'[e].default = main[e].default
      /\ \A p \in Params : main'[p] = main[p]
      /\ main' = main \/ main' = t
      /\ UNCHANGED <<running, release, copy, file, storeDirty, checks>>
      /\ Tell(k, t[k], rows)
  BY <1>1, <1>4, SetAtIs
<1>6. k \in Entries /\ k \notin Params /\ S \in Values(k)
  BY StrokesIs
<1>7. \A f \in Entries \ {k} : t[f] = main[f]
  BY <1>0, <1>6, SetToIs
<1> HIDE DEF t
<1>8. t[k] = main[k] => main' = main
  BY <1>0, <1>5, <1>7, SameSettings
<1>e. main' = main \/ main' = t
  BY <1>5
<1>9. \A f \in Entries \ {k} : main'[f] = main[f]
  BY <1>7, <1>e
<1>m. main'[k] = t[k] \/ (k \in Keys /\ main' = main)
  BY <1>e
<1>u. running' = running /\ storeDirty' = storeDirty /\ Tell(k, t[k], rows)
  BY <1>5
<1>r. rows \in [Keys -> SUBSET Strokes]
  BY <1>0, <1>4
<1>t. /\ t[k] = main[k] => title' = title /\ dialog' = [dialog EXCEPT !.rows = rows]
      /\ t[k] # main[k] =>
           /\ title' = (title \/ IsDirty(t[k]))
           /\ dialog' = [dialog EXCEPT !.rows = rows, !.marked = Marked(k, t[k]),
                                       !.unsaved = AnyDirty(main')]
  BY <1>u DEF Tell
<1>10. DialogType' /\ IsOpen' /\ title' \in BOOLEAN /\ TitleTells' /\ DialogTells'
  BY <1>0, <1>6, <1>8, <1>9, <1>m, <1>u, <1>r, <1>t, TellRight
<1>11. main'["version"] = main["version"]
  BY <1>5, EntryFacts
<1> QED
  BY <1>0, <1>5, <1>10, <1>11, EditedStep

LEMMA StepInv ==
  ASSUME Inv, [Next]_vars
  PROVE  Inv'
<1>0. TypeOK /\ IsSettings(main)
  BY DEF Inv, TypeOK
<1>1. CASE \E r \in Releases : Start(r)
  BY <1>1, StartStep
<1>2. CASE Quit \/ Die \/ DieInSave
  BY <1>2, EndedStep DEF Quit, CloseEvent, Die, DieInSave
<1>3. CASE DiscardFile
  <2>1. /\ file' = NoFile /\ ~ running
        /\ UNCHANGED <<running, release, main, copy, title, storeDirty, dialog, edits,
                       published, worker, notified, updates>>
    BY <1>3 DEF DiscardFile, checks
  <2>2. TypeOK'
    BY <1>0, <2>1 DEF TypeOK
  <2>3. FileHasBase'
    BY <2>1 DEF FileHasBase
  <2>4. UnsavedIsShown' /\ (IsOpen => running)'
    BY <2>1 DEF Inv, UnsavedIsShown, IsOpen
  <2> QED
    BY <2>2, <2>3, <2>4 DEF Inv
<1>4. CASE SaveAll \/ ChangeStore
  BY <1>4, StoreStep
<1>5. CASE OpenPreferences
  BY <1>5, OpenStep
<1>6. CASE EditParams
  BY <1>6, EditStep DEF EditParams
<1>7. CASE EditShortcuts
  BY <1>7, EditShortcutsStep
<1>8. CASE SavePreferences
  BY <1>0, <1>8, LeaveStep DEF SavePreferences
<1>9. CASE ResetPreferences
  BY <1>0, <1>9, ResetAllIs, LeaveStep DEF ResetPreferences
<1>10. CASE CancelPreferences
  <2>1. LeavePreferences(FromJson(main, dialog.snapshot)) /\ IsOpen
    BY <1>10 DEF CancelPreferences, LeavePreferences, InPreferences
  <2>2. IsSettings(FromJson(main, dialog.snapshot))
    BY <1>0, <2>1, FromJsonIs DEF TypeOK, IsOpen
  <2> QED
    BY <2>1, <2>2, LeaveStep
<1>11. CASE Publish \/ Tick \/ Fetch \/ Deliver \/ AcknowledgeUpdate
  BY <1>11, UpdateStep
<1>12. CASE DismissUpdate
  BY <1>12, DismissStep
<1>13. CASE UNCHANGED vars
  <2>1. UNCHANGED <<session, main, copy>> /\ UNCHANGED <<published, worker, notified, updates>>
    BY <1>13 DEF vars, session
  <2>2. ChecksType'
    BY <1>0, <2>1 DEF TypeOK, ChecksType
  <2> QED
    BY <2>1, <2>2, ChecksStep
<1> QED
  BY <1>1, <1>2, <1>3, <1>4, <1>5, <1>6, <1>7, <1>8, <1>9, <1>10, <1>11, <1>12, <1>13 DEF Next

THEOREM SpecInv == Spec => []Inv
<1>1. Init => Inv
  BY InitInv
<1>2. Inv /\ [Next]_vars => Inv'
  BY StepInv
<1> QED
  BY <1>1, <1>2, PTL DEF Spec

(* Every reachable state of the settings is well typed: each parameter has *)
(* values of its own kind or none, in the program, in the copy of the      *)
(* update check, in the file and in what a cancel goes back to.            *)
THEOREM SettingsTypeCorrect == Spec => []TypeOK
<1>1. Inv => TypeOK
  BY DEF Inv
<1> QED
  BY <1>1, SpecInv, PTL

(* While nothing is unsaved, the file holds the parameters of the program, *)
(* or it is exactly what the update check wrote (Settings::save,           *)
(* VCSController).  The edits make the stronger FileHasBase necessary: the  *)
(* file has what each parameter was when it was last saved or loaded, so    *)
(* that one edited back to it is in the file again.                        *)
THEOREM SavedStaysSaved == Spec => []SavedIsKept
<1>1. Inv => SavedIsKept
  <2> SUFFICES ASSUME Inv, running, ~ AnyDirty(main) PROVE
        \/ file = ToJson(main)
        \/ file = ToJson(copy)
        \/ file \notin {NoFile, Torn} /\ \A p \in Params : file[p].value = main[p].value
    BY DEF SavedIsKept
  <2>1. \A e \in Entries : main[e].value = main[e].base
    BY DEF AnyDirty, IsDirty
  <2>2. BaseJson(main) = ToJson(main)
    BY <2>1 DEF BaseJson, ToJson, CoreJson
  <2>3. "version" \in Entries /\ Params \subseteq Entries
    BY EntryFacts DEF Entries
  <2>4. ~ IsDirty(main["version"])
    BY <2>3 DEF AnyDirty
  <2> QED
    BY <2>1, <2>2, <2>3, <2>4 DEF Inv, FileHasBase
<1> QED
  BY <1>1, SpecInv, PTL

(* What would be lost is announced, and in the preferences the label and   *)
(* the stripe of every parameter say exactly what is unsaved, although the *)
(* handlers hear of single changes only (DirtyStateHandler,                *)
(* _updateUnsavedLabel, buildParamRows).                                   *)
THEOREM UnsavedIsAlwaysShown == Spec => []UnsavedIsShown
<1>1. Inv => UnsavedIsShown
  BY DEF Inv
<1> QED
  BY <1>1, SpecInv, PTL

(* A cancel takes every parameter but the shortcuts back to what it was    *)
(* when the preferences were opened, in the program and in the file        *)
(* (_onPreferencesRequested).                                              *)
THEOREM CancelGoesBack == Spec => CancelRestores
<1>1. ASSUME Inv, IsOpen, CancelPreferences
      PROVE  \A p \in Params : /\ CoreJson(main'[p]) = dialog.snapshot[p]
                               /\ file'[p] = dialog.snapshot[p]
                               /\ ~IsDirty(main'[p])
  <2> DEFINE s == FromJson(main, dialog.snapshot)
  <2>1. IsSettings(main) /\ IsJson(dialog.snapshot)
    BY <1>1 DEF Inv, TypeOK, IsOpen
  <2>2. IsSettings(s) /\ \A p \in Params : CoreJson(s[p]) = dialog.snapshot[p]
    BY <2>1, FromJsonIs
  <2>3. main' = CommitAll(s) /\ file' = ToJson(s)
    BY <1>1 DEF CancelPreferences, LeavePreferences, Save
  <2> HIDE DEF s
  <2> SUFFICES ASSUME NEW p \in Params
               PROVE  /\ CoreJson(main'[p]) = dialog.snapshot[p]
                      /\ file'[p] = dialog.snapshot[p]
                      /\ ~IsDirty(main'[p])
    OBVIOUS
  <2>4. p \in Entries /\ s[p] \in Core(p)
    BY <2>2 DEF Entries, IsSettings
  <2>5. main'[p] = Commit(s[p]) /\ file'[p] = CoreJson(s[p])
    BY <2>2, <2>3, <2>4, CommitAllIs
  <2>6. CoreJson(Commit(s[p])) = CoreJson(s[p]) /\ ~ IsDirty(Commit(s[p]))
    BY <2>4, CommitIs
  <2> QED
    BY <2>2, <2>5, <2>6
<1>2. Inv /\ [Next]_vars
      => [IsOpen /\ CancelPreferences =>
            \A p \in Params : /\ CoreJson(main'[p]) = dialog.snapshot[p]
                              /\ file'[p] = dialog.snapshot[p]
                              /\ ~IsDirty(main'[p])]_vars
  BY <1>1
<1> QED
  BY <1>2, SpecInv, PTL DEF Spec, CancelRestores
==============================================================================
