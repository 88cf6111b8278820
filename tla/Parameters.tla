------------------------------ MODULE Parameters ------------------------------
(* The parameters of the settings: what every one of them has, what the kinds *)
(* add to it, which parameters the sections declare, list and configure, and  *)
(* the pages the preferences show them on.  There is no behaviour in this     *)
(* module; Preferences has it.                                                *)
EXTENDS Integers, Sequences
LOCAL INSTANCE FiniteSets
LOCAL INSTANCE SequencesExt

CONSTANT None

------------------------------------------------------------------------------
(* A parameter has a value, the value that was last saved or loaded, and a    *)
(* default; some have effect only after a restart.                            *)

NewCore == [value |-> None, base |-> None, default |-> None, restart |-> FALSE]

WithDefault(core, v) == [core EXCEPT !.default = v]
NeedsRestart(core) == [core EXCEPT !.restart = TRUE]

Effective(core) == IF core.value # None THEN core.value ELSE core.default
Readable(core) == Effective(core) # None        \* `get` throws otherwise

(* Nothing is stored for what is in effect already. *)
SetCore(core, v) == IF v = Effective(core) THEN core ELSE [core EXCEPT !.value = v]

Unset(core) == [core EXCEPT !.value = None]
Reset(core) == IF core.default = None THEN core ELSE Unset(core)
Commit(core) == [core EXCEPT !.base = core.value]
IsDirty(core) == core.value # core.base

CoreJson(core) == [value |-> core.value, default |-> core.default]
CoreFromJson(core, json) ==
  [core EXCEPT !.value = json.value, !.base = json.value, !.default = json.default]

MaySubscribe(core) == ~core.restart

------------------------------------------------------------------------------
(* A number has limits, a fraction also a precision.  Fractions are counted   *)
(* in units of 10^-Digits.                                                    *)

Digits == 6

NewNumber == [core |-> NewCore, min |-> None, max |-> None, precision |-> None]

AtLeast(number, v) == [number EXCEPT !.min = v]
Precise(number, digits) == [number EXCEPT !.precision = digits]

(* std::round takes a half away from zero. *)
RoundTo(v, step) ==
  IF v < 0 THEN -(((-v) + step \div 2) \div step) * step
           ELSE ((v + step \div 2) \div step) * step

Rounded(number, v) ==
  IF number.precision = None THEN v ELSE RoundTo(v, 10^(Digits - number.precision))

InLimits(number, v) ==
  /\ number.min = None \/ v >= number.min
  /\ number.max = None \/ v <= number.max

Accepts(number, v) == InLimits(number, Rounded(number, v))

NumberValue(number) == Effective(number.core)
NumberDefault(number, v) == [number EXCEPT !.core = WithDefault(@, v)]
Restarting(number) == [number EXCEPT !.core = NeedsRestart(@)]

SetNumber(number, v) ==
  IF Accepts(number, v)
  THEN [number EXCEPT !.core = SetCore(@, Rounded(number, v))] ELSE number

NumberJson(number) ==
  [core |-> CoreJson(number.core), min |-> number.min,
   max |-> number.max, precision |-> number.precision]
NumberFromJson(number, json) ==
  [core |-> CoreFromJson(number.core, json.core), min |-> json.min,
   max |-> json.max, precision |-> json.precision]

(* A spin box has the limits of the parameter, shows what lies outside as the *)
(* limit, and leaves that value in the parameter when it loses the focus.     *)
Clamped(number, v) ==
  CASE number.min # None /\ v < number.min -> number.min
    [] number.max # None /\ v > number.max -> number.max
    [] OTHER -> v
FocusPassesThrough(number) == SetNumber(number, Clamped(number, NumberValue(number)))

(* An enumeration takes its own values only. *)
SetEnum(core, values, v) == IF v \in values THEN SetCore(core, v) ELSE core

------------------------------------------------------------------------------
(* A vector of numbers. *)

NewVec(n) == [i \in 1..n |-> NewNumber]

(* Each of these throws if it is given another number of values. *)
Fits(vec, vs) == Len(vs) = Len(vec)
VecDefaults(vec, vs) == [i \in DOMAIN vec |-> NumberDefault(vec[i], vs[i])]
VecAtLeast(vec, vs) == [i \in DOMAIN vec |-> AtLeast(vec[i], vs[i])]

VecGet(vec, i) == IF i \in DOMAIN vec THEN NumberValue(vec[i]) ELSE None
SetVec(vec, i, v) ==
  IF i \in DOMAIN vec THEN [vec EXCEPT ![i] = SetNumber(@, v)] ELSE vec

CommitNumber(num) == [num EXCEPT !.core = Commit(@)]
ResetNumber(num) == [num EXCEPT !.core = Reset(@)]
IsNumberDirty(num) == IsDirty(num.core)

CommitVec(vec) == [i \in DOMAIN vec |-> CommitNumber(vec[i])]
ResetVec(vec) == [i \in DOMAIN vec |-> ResetNumber(vec[i])]
IsVecDirty(vec) == \E i \in DOMAIN vec : IsNumberDirty(vec[i])

VecJson(vec) == [i \in DOMAIN vec |-> NumberJson(vec[i])]
VecFromJson(vec, json) ==
  IF Fits(vec, json) THEN [i \in DOMAIN vec |-> NumberFromJson(vec[i], json[i])] ELSE None

------------------------------------------------------------------------------
(* A map of parameters.  Loading adds what is missing and changes nothing.    *)

MapJson(map) == [k \in DOMAIN map |-> CoreJson(map[k])]
MapFromJson(map, json) ==
  [k \in DOMAIN map \cup DOMAIN json |->
     IF k \in DOMAIN map THEN map[k] ELSE CoreFromJson(NewCore, json[k])]

CommitMap(map) == [k \in DOMAIN map |-> Commit(map[k])]
ResetMap(map) == [k \in DOMAIN map |-> Reset(map[k])]
IsMapDirty(map) == \E k \in DOMAIN map : IsDirty(map[k])

AddToMap(map, k, core) ==
  [l \in DOMAIN map \cup {k} |-> IF l \in DOMAIN map THEN map[l] ELSE core]

------------------------------------------------------------------------------
(* The sections: what each declares, what its constructor makes of it, and    *)
(* the order in which it passes its parameters on.  What it does not pass on  *)
(* is neither shown nor saved, committed, reset or asked whether it is dirty. *)

Value(default) == WithDefault(NewCore, default)
Number(default, min) == AtLeast(NumberDefault(NewNumber, default), min)

MinDialogSize == <<400, 300>>
Size(default) == VecAtLeast(VecDefaults(NewVec(2), default), MinDialogSize)

GeneralKeys == {"version", "defaultProfile", "dismissedUpdateVersion"}
GeneralParams(release) ==
  [version |-> SetCore(NewCore, release), defaultProfile |-> NewCore,
   dismissedUpdateVersion |-> Value("")]
GeneralOrder == <<"version", "defaultProfile", "dismissedUpdateVersion">>

LogViewerKeys ==
  {"dialogSize", "reloadIntervalSec", "autoReload", "lineWrap", "maxBlockCount"}
LogViewerParams ==
  [reloadIntervalSec |-> Precise(Number(1000000, 1000), 3),
   autoReload |-> Value(FALSE), lineWrap |-> Value(FALSE),
   dialogSize |-> Size(<<800, 600>>), maxBlockCount |-> Number(50000, 100)]
LogViewerOrder ==
  <<"reloadIntervalSec", "autoReload", "lineWrap", "dialogSize", "maxBlockCount">>

DebugSlotsKeys == {"windowSize"}
DebugSlotsParams == [windowSize |-> Size(<<800, 600>>)]
DebugSlotsOrder == <<"windowSize">>

ProfileUIKeys == {"dialogSize"}
ProfileUIParams == [dialogSize |-> Size(<<800, 600>>)]
ProfileUIOrder == <<"dialogSize">>

LoggingKeys ==
  {"logDirectory", "logFilePrefix", "logFileSuffix", "maxLogFiles",
   "maxLogFileSizeMB", "maxLogAgeDays", "defaultLogLevel"}
LoggingParams ==
  [logDirectory |-> NeedsRestart(Value("logs")),
   logFilePrefix |-> NeedsRestart(Value("molar_tracker_")),
   logFileSuffix |-> NeedsRestart(Value(".log")),
   maxLogFiles |-> Restarting(Number(10, 1)),
   maxLogFileSizeMB |-> Restarting(Number(50, 1)),
   maxLogAgeDays |-> Restarting(Number(30, 0)),
   defaultLogLevel |-> Value("Info")]
LoggingOrder ==
  <<"logDirectory", "logFilePrefix", "logFileSuffix", "maxLogFiles",
    "maxLogFileSizeMB", "maxLogAgeDays", "defaultLogLevel">>

BackupKeys == {"enableBackup", "backupDir", "recentCount", "weeklyCount"}
BackupParams ==
  [enableBackup |-> NeedsRestart(Value(TRUE)),
   backupDir |-> NeedsRestart(Value("backups")),
   recentCount |-> Restarting(Number(5, 1)),
   weeklyCount |-> Restarting(Number(4, 0))]
BackupOrder == <<"enableBackup", "backupDir", "recentCount", "weeklyCount">>

(* The actions that have shortcuts, in one parameter of the section. *)
ShortcutDefaults ==
  <<<<"saveShortcut", {"Ctrl+S"}>>, <<"quitShortcut", {"Ctrl+Q"}>>,
    <<"screenshotShortcut", {"F12", "Ctrl+Alt+P"}>>>>

(* A shortcut whose stroke another action has already is left out. *)
AddShortcutParam(map, entry) ==
  IF \E k \in DOMAIN map : Effective(map[k]) \cap entry[2] # {} THEN map
  ELSE AddToMap(map, entry[1], Value(entry[2]))

ShortcutParams == FoldLeft(AddShortcutParam, <<>>, ShortcutDefaults)

(* The timer counts milliseconds.  The product of the doubles may come out     *)
(* just below a number of them, and the cast cuts off; up to a second it does *)
(* not.                                                                       *)
ReloadIntervalsMs(number) ==
  LET ms == NumberValue(number) \div 1000
  IN IF ms > 1000 THEN {ms, ms - 1} ELSE {ms}

(* The log manager hears of the default level from the parameter itself. *)
Subscribed == {LoggingParams.defaultLogLevel}

------------------------------------------------------------------------------
(* The preferences: a page for every section; a section of sections has an    *)
(* overview with a card for each of them.  A page is found by its place.      *)

TopLevel == <<"generalSettings", "uiSettings", "loggingSettings",
              "backupSettings", "shortcutSettings">>

SubSections(section) ==
  IF section = "uiSettings"
  THEN <<"logViewerSettings", "debugSlotsSettings", "profile_ui_settings">> ELSE <<>>

OrderOf(section) ==
  CASE section = "generalSettings" -> GeneralOrder
    [] section = "logViewerSettings" -> LogViewerOrder
    [] section = "debugSlotsSettings" -> DebugSlotsOrder
    [] section = "profile_ui_settings" -> ProfileUIOrder
    [] section = "loggingSettings" -> LoggingOrder
    [] section = "backupSettings" -> BackupOrder
    [] section = "shortcutSettings" -> <<"shortcutList">>
    [] OTHER -> <<>>

Page(section) == [section |-> section, overview |-> FALSE]
Overview(section) == [section |-> section, overview |-> TRUE]

(* A section that has both would have a page of its own behind the overview.  *)
PagesOf(section) ==
  IF SubSections(section) = <<>> THEN <<Page(section)>>
  ELSE <<Overview(section)>>
       \o (IF OrderOf(section) = <<>> THEN <<>> ELSE <<Page(section)>>)
       \o [i \in DOMAIN SubSections(section) |-> Page(SubSections(section)[i])]

Pages == FlattenSeq([i \in DOMAIN TopLevel |-> PagesOf(TopLevel[i])])

(* The items of the side bar, from the top, each with the place of its page.  *)
PlaceOf(page) == CHOOSE i \in DOMAIN Pages : Pages[i] = page
ItemsOf(section) ==
  LET subs == SubSections(section)
      first == IF subs = <<>> THEN Page(section) ELSE Overview(section)
  IN <<PlaceOf(first)>> \o [i \in DOMAIN subs |-> PlaceOf(Page(subs[i]))]
SideBar == FlattenSeq([i \in DOMAIN TopLevel |-> ItemsOf(TopLevel[i])])

Cards(section) ==
  [i \in DOMAIN SubSections(section) |-> PlaceOf(Page(SubSections(section)[i]))]

------------------------------------------------------------------------------
(* What is declared is configured and passed on, each exactly once: nothing   *)
(* that can be set is forgotten by a save or a cancel (forEachParam against   *)
(* the members and the constructors).                                         *)
Lists(order, keys, params) ==
  /\ ToSet(order) = keys /\ Len(order) = Cardinality(keys)
  /\ DOMAIN params = keys

ASSUME NothingForgotten ==
  /\ Lists(GeneralOrder, GeneralKeys, GeneralParams(1))
  /\ Lists(LogViewerOrder, LogViewerKeys, LogViewerParams)
  /\ Lists(DebugSlotsOrder, DebugSlotsKeys, DebugSlotsParams)
  /\ Lists(ProfileUIOrder, ProfileUIKeys, ProfileUIParams)
  /\ Lists(LoggingOrder, LoggingKeys, LoggingParams)
  /\ Lists(BackupOrder, BackupKeys, BackupParams)
  /\ DOMAIN ShortcutParams = {ShortcutDefaults[i][1] : i \in DOMAIN ShortcutDefaults}

(* A default is a value that the parameter would take, and a focus that       *)
(* passes through the editor of an untouched number changes nothing.          *)
DeclaredNumbers ==
  {LogViewerParams.reloadIntervalSec, LogViewerParams.maxBlockCount,
   LoggingParams.maxLogFiles, LoggingParams.maxLogFileSizeMB,
   LoggingParams.maxLogAgeDays, BackupParams.recentCount, BackupParams.weeklyCount}
  \cup UNION {ToSet(LogViewerParams.dialogSize), ToSet(DebugSlotsParams.windowSize),
              ToSet(ProfileUIParams.dialogSize)}

ASSUME DefaultsAreTaken ==
  \A number \in DeclaredNumbers :
    /\ Accepts(number, number.core.default)
    /\ FocusPassesThrough(number) = number

(* Whatever interval is set, the timer of the log viewer never gets 0, with   *)
(* which it would fire without a pause.                                       *)
ASSUME TimerPauses ==
  \A v \in 0..3000 \cup {999499, 1000499, 1000500, 1001000} :
    0 \notin ReloadIntervalsMs(SetNumber(LogViewerParams.reloadIntervalSec, v))

(* Only the profile may have nothing to show; who listens may listen.         *)
ASSUME OnlyProfileUnreadable ==
  /\ \A k \in GeneralKeys : Readable(GeneralParams(1)[k]) = (k # "defaultProfile")
  /\ \A core \in Subscribed : MaySubscribe(core)

(* Every parameter is on one page, every page has one item, in their order,   *)
(* and the cards lead to the pages of the sections they name.                 *)
ASSUME EveryPageIsReached ==
  /\ Len(SideBar) = Len(Pages) /\ \A i \in DOMAIN SideBar : SideBar[i] = i
  /\ \A s \in ToSet(TopLevel) : SubSections(s) # <<>> => OrderOf(s) = <<>>
  /\ \A s \in ToSet(TopLevel) : \A i \in DOMAIN Cards(s) :
       Pages[Cards(s)[i]] = Page(SubSections(s)[i])

(* Whatever was set, unset or reset on a number that is in its limits, it     *)
(* stays in them; what a save wrote brings back value, limits and default     *)
(* into a program whose own are different, and nothing is dirty then.         *)
SampleCores ==
  {[value |-> v, base |-> b, default |-> 20, restart |-> FALSE] :
     v \in {None, 10, 20, 30}, b \in {None, 10}}
SampleNumbers ==
  [core : SampleCores, min : {None, 10}, max : {None, 30}, precision : {None, 5}]
Steps(number) ==
  {SetNumber(number, v) : v \in {0, 5, 10, 14, 15, 24, 25, 34, 35}}
  \cup {FocusPassesThrough(number)}
  \cup {[number EXCEPT !.core = c] : c \in {Unset(number.core), Reset(number.core), Commit(number.core)}}
InItsLimits(number) == InLimits(number, NumberValue(number))

ASSUME LimitsHold ==
  \A n \in SampleNumbers : InItsLimits(n) => \A m \in Steps(n) : InItsLimits(m)

ASSUME SavedComesBack ==
  \A n \in SampleNumbers : \A m \in {NewNumber, Number(15, 12)} :
    LET back == NumberFromJson(m, NumberJson(n))
    IN /\ ~IsDirty(back.core)
       /\ NumberJson(back) = NumberJson(n)

ASSUME VectorsComeBack ==
  \A m, n \in {k \in SampleNumbers : k.precision = None /\ k.max = None} :
    /\ VecFromJson(NewVec(2), VecJson(<<m, n>>)) # None
    /\ ~IsVecDirty(VecFromJson(NewVec(2), VecJson(<<m, n>>)))
    /\ ~IsVecDirty(CommitVec(<<m, n>>))
    /\ VecFromJson(NewVec(3), VecJson(<<m, n>>)) = None

(* What is saved of a map of shortcuts does not come back: loading leaves     *)
(* every key that is there as it is.                                          *)
ASSUME MapsStayAsTheyAre ==
  LET changed == [ShortcutParams EXCEPT !["quitShortcut"] = SetCore(@, {"Ctrl+X"})]
  IN /\ MapFromJson(ShortcutParams, MapJson(changed)) = ShortcutParams
     /\ MapFromJson(changed, MapJson(ShortcutParams)) = changed
     /\ IsMapDirty(MapFromJson(changed, MapJson(ShortcutParams)))
     /\ ~IsMapDirty(CommitMap(changed))
     /\ MapFromJson(<<>>, MapJson(changed)) = CommitMap(changed)
==============================================================================
